------------------------------- MODULE MCXfer -------------------------------
\* Model-checking instance of Xfer: the bounds are in the .cfg files.
EXTENDS Xfer
=============================================================================
