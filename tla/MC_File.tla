------------------------------ MODULE MC_File ------------------------------
\* Model values for the file store; the cfg files choose among them.
EXTENDS FileStore

OnlyContent == {"content"}
TwoIndices == {0, 1}

\* A content stream of two chunks.
WholeFile == {{<<"content", 0>>, <<"content", 1>>}}

\* ... or, staged again, of one.
WholeOrShortened == WholeFile \cup {{<<"content", 0>>}}

\* A version is wrapped to everybody; a client may also leave the escrow out.
Everybody == {User \cup {Recovery}, User}
=============================================================================
