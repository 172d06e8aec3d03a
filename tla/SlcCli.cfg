CONSTANTS
  p1 = p1
  p2 = p2
  NoSuchTemplate = NoSuchTemplate
  Procs <- MCProcs
  Names <- MCNames
  Commands <- MCCommands
  Catalog <- MCCatalog
  Queries <- MCQueries
  Missing <- NoSuchTemplate
SPECIFICATION Spec
INVARIANT CreateOutcomeMatchesDisk
INVARIANT SearchReportsMatchingTemplates
INVARIANT TaskFileDamageReported
