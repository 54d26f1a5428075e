----------------------------- MODULE MCLogStream -----------------------------
\* An instance of LogStream: stdout has every kind of byte, stderr one.
EXTENDS LogStream

MCWrites ==
    {[from |-> "stdout", kind |-> k] : k \in Kind}
        \cup {[from |-> "stderr", kind |-> "char"]}
=============================================================================
