SPECIFICATION FairMailboxSpec
CONSTANTS
    letter = letter
    bill = bill
    Mail <- Both
    Kept <- Both
    Ruled <- Bills
    Aged <- Bills
    MaxMoves = 3
    MaxMishaps = 2
INVARIANTS
    EachMailOnce
PROPERTIES
    MailArrives
    UndosSettle
