CONSTANT Generations = 3
SPECIFICATION AuthoritySpec
\* An uncertain transaction is never cleared: with every generation issued and
\* the last one gone, the model has really stopped.
CHECK_DEADLOCK FALSE
INVARIANT NoInvariantFailure
PROPERTY AuthorityIsKept
