SPECIFICATION AnswerSpec
CONSTANTS
    e1 = e1
    r1 = r1
    Event = {e1}
    Request = {r1}
INVARIANT AnswersRight
