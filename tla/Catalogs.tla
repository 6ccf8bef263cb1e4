------------------------------ MODULE Catalogs -------------------------------
(***************************************************************************)
(* The two catalogs that GreeterService serves, side by side: sessions and *)
(* login users.  They share no state, and each may be asked while the      *)
(* other one is at work.                                                   *)
(***************************************************************************)
EXTENDS SessionCatalog, UserCatalog

Init == SessionInit /\ UserInit

SessionsNext == SessionStep /\ UNCHANGED userVars

UsersNext == UserStep /\ UNCHANGED sessionVars

Next == SessionsNext \/ UsersNext

Spec == Init /\ [][Next]_<<sessionVars, userVars>>

-----------------------------------------------------------------------------

\* The states of both catalogs are of their types; what is found are sessions of
\* desktop files with resolved programs, and the lock of the connection is held
\* exactly by the query that connects.
TypeOK == SessionTypeOK /\ UserTypeOK
=============================================================================
