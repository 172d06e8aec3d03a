CONSTANTS
  wf = wf
  j1 = j1
  mx = mx
  d1 = d1
  JsonFiles <- MCJsonFiles
  MdFiles <- MCMdFiles
  Workflow = wf
  Matrix = mx
  JsonContents <- MCJsonContents
  MdContents <- MCMdContents
SPECIFICATION Spec
INVARIANT ExitReflectsTree
INVARIANT ReportAccountsEveryFile
