\* Ten names, and eleven users.
CONSTANTS
    Nodes = {1, 2, 3, 4, 5, 6, 7, 8, 9, 10, 11}
    Names <- MCNames
    NameOf <- MCNameOf
    Nil = Nil
SPECIFICATION FairSpec
VIEW Unanswered
INVARIANT TypeOK
INVARIANT LinksAgree
INVARIANT BalancedButForOneFlaw
INVARIANT NeighboursAgree
PROPERTY KeepsDirectory
PROPERTY Settles
