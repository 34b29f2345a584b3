SPECIFICATION Spec
CONSTANTS
    User = {u1, u2, u3}
    Invite = {i1}
    Email = {e1, e2}
    Visitor = {v1, v2}
    Mailer = {a1, a2}
    Root = Root
    InvitationTTL = 1
    MaxTime = 2
    Null = Null
SYMMETRY Symmetry
INVARIANTS
    UsedByItsAccount
    MailedCodeIsGood
PROPERTIES
    RedeemedOnce
    InvitedAddressOnly
    UsedIsForGood
