\* The scheduler and the connection's thread write to one socket.
CONSTANTS
  conn = conn
  sched = sched
  None = None
  Nobody = Nobody
  Writers = {conn, sched}
  Catalogue <- MCCatalogue
  Scripts <- MCScripts
  EncodePayload <- Payload
  DecodePayload <- ReadPayload
  SocketRoom = 2
  MaxLength = 70
SPECIFICATION StreamSpec
INVARIANTS StreamTypeOK NeverMisread TruncationRefused
PROPERTIES ChannelImplemented AllDelivered
CHECK_DEADLOCK FALSE
