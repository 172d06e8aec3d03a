------------------------- MODULE MC_TemplateValidator -------------------------
EXTENDS TemplateValidator

CONSTANTS wf, j1, mx, d1

MCJsonFiles == {wf, j1}
MCMdFiles == {mx, d1}

J(ok, type, version, fields, pattern, badRef) ==
  [ok |-> ok, type |-> type, version |-> version, fields |-> fields,
   pattern |-> pattern, badRef |-> badRef]
P(trigger, seq, stepsOK) == [trigger |-> trigger, seq |-> seq, stepsOK |-> stepsOK]

\* A file that does not parse; a template module with and without its
\* fields; a workflow engine with a complete pattern, with a pattern whose
\* steps lack a field (passes the JSON phase, fails completeness), and with
\* a pattern without a trigger (the other way round); a file without
\* 'version' that mentions an unknown template.
MCJsonContents ==
  { J(FALSE, "none", FALSE, FALSE, NoPattern, FALSE),
    J(TRUE, "utm", TRUE, TRUE, NoPattern, FALSE),
    J(TRUE, "utm", TRUE, FALSE, NoPattern, FALSE),
    J(TRUE, "wre", TRUE, TRUE, P(TRUE, TRUE, TRUE), FALSE),
    J(TRUE, "wre", TRUE, TRUE, P(TRUE, TRUE, FALSE), FALSE),
    J(TRUE, "wre", TRUE, TRUE, P(FALSE, TRUE, TRUE), FALSE),
    J(TRUE, "other", FALSE, FALSE, NoPattern, TRUE) }

M(hash, levels, links, badRef, hints, example) ==
  [hash |-> hash, levels |-> levels, links |-> links, badRef |-> badRef,
   hints |-> hints, example |-> example]

\* Header levels 1,2,1 (valid), 1,3 and 2 (skipped levels); a link to the
\* other Markdown file, which may be missing; no leading '#'; no matrix
\* hints; no code example.
MCMdContents ==
  { M(TRUE, <<1, 2, 1>>, {}, FALSE, TRUE, TRUE),
    M(TRUE, <<1, 3>>, {}, FALSE, TRUE, TRUE),
    M(TRUE, <<2>>, {}, FALSE, TRUE, FALSE),
    M(TRUE, <<1>>, {d1}, FALSE, TRUE, FALSE),
    M(FALSE, <<>>, {}, FALSE, TRUE, TRUE),
    M(TRUE, <<1, 2>>, {}, FALSE, FALSE, TRUE) }
====
