SPECIFICATION AlgorithmsSpec
CONSTANTS
  Urls <- MCUrls
  Allowlist <- MCAllowlist
  Answers <- MCAnswers
  Statuses = {302, 303}
  MaxRedirects = 2
  Listings <- MCListings
  HostileServers <- MCServers
  Caps <- MCCaps
  Mails <- MCMails
  EmlFiles <- MCEmlFiles
  Pdfs <- MCPdfs
  BlockDocuments <- MCBlockDocuments
  Forms <- MCForms
  LabelPages <- MCLabelPages
  HtmlTables <- MCHtmlTables
  Documents <- MCDocuments
  DatedTexts <- MCDatedTexts
  BenchmarkRuns <- MCBenchmarkRuns
  Logs <- MCLogs
  Clients <- MCClients
INVARIANTS
  ChainIsSafe
  
  
  MarkdownKeepsDocument
  GateIsFair
  PicksTheRightOnes
CHECK_DEADLOCK FALSE
