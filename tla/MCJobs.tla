------------------------------- MODULE MCJobs -------------------------------
\* Two jobs, the second one of jobstart() or of termopen().
EXTENDS Jobs

CONSTANTS a, b

MCTermSets == {{}, {b}}
MCLists == {<<a>>, <<b>>, <<b, a>>}
=============================================================================
