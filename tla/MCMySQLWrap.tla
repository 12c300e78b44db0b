---------------------------- MODULE MCMySQLWrap ----------------------------
EXTENDS MySQLWrap

Stmt(rows, follow_, writes) == [rows |-> rows, follow |-> follow_, writes |-> writes]

\* A query, an update, and procedures that answer with one or two result sets.
MCStatements == { Stmt(TRUE, 0, FALSE), Stmt(FALSE, 0, TRUE), Stmt(TRUE, 1, TRUE), Stmt(TRUE, 2, FALSE) }
============================================================================
