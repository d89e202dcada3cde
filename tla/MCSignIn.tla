------------------------------- MODULE MCSignIn -------------------------------
(***************************************************************************)
(* Three tokens and four requests: restores, sign-ins, connections of the  *)
(* runtime and sign-outs, in any order.                                    *)
(***************************************************************************)
EXTENDS SignIn
==============================================================================
