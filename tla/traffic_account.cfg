SPECIFICATION Spec
CONSTANTS
  LimitB = 4
  MaxMoved = 6
  MaxLogged = 3
  MaxEarly = 2
INVARIANTS TypeOK NoOvercount NoUndercount
PROPERTIES BankGrows
