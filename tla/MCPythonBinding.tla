--------------------------- MODULE MCPythonBinding ---------------------------
(* A small instance of PythonBinding: two Python threads, two native ones.   *)
EXTENDS PythonBinding
=============================================================================
