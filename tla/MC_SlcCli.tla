------------------------------ MODULE MC_SlcCli ------------------------------
EXTENDS SlcCli

CONSTANTS p1, p2, NoSuchTemplate

MCProcs == {p1, p2}

\* Two invocations; a 'create' of each uses its own project name.
MCNames == [p \in MCProcs |-> IF p = p1 THEN "alpha" ELSE "beta"]

MCCommands == {"create", "list", "info", "search", "validate", "update", "none"}

\* Valid templates of each domain branch of _generate_project_structure
\* (python, javascript, documentation, none), one json.load rejects, and
\* one in a category directory that is not a default category.
MCCatalog ==
  { [cat |-> "languages", rel |-> "python/dev.json",
     data |-> [kind |-> "ok", words |-> {"python", "api"}, domain |-> "python"]],
    [cat |-> "languages", rel |-> "js/web.json",
     data |-> [kind |-> "ok", words |-> {"web", "api"}, domain |-> "javascript"]],
    [cat |-> "methodologies", rel |-> "agile.json",
     data |-> [kind |-> "ok", words |-> {"agile"}, domain |-> "general"]],
    [cat |-> "tools", rel |-> "broken.json", data |-> [kind |-> "error", words |-> {}, domain |-> "unknown"]],
    [cat |-> "docs", rel |-> "guide.json",
     data |-> [kind |-> "ok", words |-> {"docs"}, domain |-> "documentation"]] }

MCQueries == {"", "api", "rust"}
====
