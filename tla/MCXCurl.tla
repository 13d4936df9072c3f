------------------------------ MODULE MCXCurl ------------------------------
(* XCurl on a small instance.                                               *)
EXTENDS XCurl

=============================================================================
