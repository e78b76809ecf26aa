\* Integers of 2 to 5 bits, a host of up to three addresses, ports 1 and 2 below the ceiling.
CONSTANTS
    a1 = a1  a2 = a2
    Half <- MCHalf
    Unit <- MCUnit
    Texts <- MCTexts
    Options <- MCOptions
    Ids = {a1, a2}
    Me = Me
    MaxAddrs = 3
    DEFAULT_SOCKET_LISTEN_PORT = 5
    CLIENT_PORT_CEILING = 3
    NULL = NULL
    Junk = Junk
SYMMETRY Symmetry
SPECIFICATION Spec
INVARIANTS NumbersConverted AddressFitsSocket SamePort IdentifiersMatch
PROPERTY AddressesInTurn
