SPECIFICATION Spec
CONSTANTS
  Headers <- MCHeaders
  SystemInfos <- MCInfos
  Records <- MCRecords
  Analyses <- MCAnalyses
  Words <- MCWords
  Reports <- MCReports
  Listed = 2
  Buckets = 4
  Decoded <- MCDecoded
  Depth = 3
  MaxRecords = 3
  MaxShort = 1
  MaxWords = 6
INVARIANTS
  LogReadsBack
  TraceReadsBack
  AnalysisReadsBack
  ReportReadsBack
  LinksLead
CHECK_DEADLOCK FALSE
