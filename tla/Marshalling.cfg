SPECIFICATION Spec
CONSTANTS
  Function <- Functions
  Return <- Returns
  Host <- HostBytes
  Port = 40000
INVARIANTS
  TypeOK
  LocatedIffSame
  MessagesArrive
  OutputsComeBack
  ZeroMeansSuccess
