----------------------------- MODULE MCFrontend -----------------------------
EXTENDS Frontend

=============================================================================
