CONSTANTS
  Command = {"cmdUSER", "cmdPASS", "cmdPORT", "cmdPASV", "cmdRETR", "cmdRNFR", "cmdABOR", "cmdQUIT", "cmdREIN", "cmdREST", "cmdNotSet"}
  Code = {0, 150, 200, 220, 221, 226, 227, 230, 257, 331, 350, 530}
  Position = {7}
  MaxMessages = 4
  Id = {3, 4}
  Qtype = {0, 1}
  MAX_TRACKED_QUERIES = 2
  MaxQueries = 4
  Epoch = {0, 1}
SPECIFICATION Spec
INVARIANTS
  TypeOK
  FtpFlagsMeanHistory
  FtpChargedCommandWasSent
  DnsTableIsLatestQueries
  DnsIdMatchIsRight
  DtlsFlagsAreOfTheSender
  DtlsNamedOnceInOrder
