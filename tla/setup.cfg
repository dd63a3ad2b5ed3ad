SPECIFICATION Spec
CONSTANTS
  MaxLost = 1
  Chars = {"h", ":", "[", "]", "1", "-", "SP", "|", "NUL"}
  MaxText = 5
  MaxHost = 3
  MaxPeer = 2
  MaxPort = 11
INVARIANTS
  TypeOK Ownership AllOrNothing SessionOutlives
  FromStringSound FromStringRoundTrip PeersApart
