SPECIFICATION Spec
CONSTANTS
  B = 5
  Files <- OneName
  Lines <- FewLines
  FirstLine = 9
  MaxLines = 2
  MaxFiles = 1
  MaxReports = 3
  NUL = "NUL"
INVARIANT TypeOK
INVARIANT OutputComplete
INVARIANT FileFlushed
