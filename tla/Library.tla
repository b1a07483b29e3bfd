------------------------------ MODULE Library ------------------------------
(***************************************************************************)
(* The parts of the library that stand by themselves, each on its own: a   *)
(* behaviour is one of the part that it was started with.                  *)
(***************************************************************************)
EXTENDS StdExecutor, SignalPortal, IoAdapters

VARIABLE part

libVars == <<part, stdVars, sigVars, ioVars>>

LibInit ==
    /\ part \in {"std", "signal", "registration", "portal", "io"}
    /\ StdInit /\ SigInit /\ IoInit
    /\ part # "io" => op = "read" /\ cap = 0 /\ input = <<>>
    /\ part # "std" => ~std_queue

LibNext ==
    /\ \/ part = "std" /\ StdNext /\ UNCHANGED <<sigVars, ioVars>>
       \/ part = "signal" /\ SignalNext /\ UNCHANGED <<stdVars, ioVars>>
       \/ part = "registration" /\ RegistrationNext /\ UNCHANGED <<stdVars, ioVars>>
       \/ part = "portal" /\ PortalNext /\ UNCHANGED <<stdVars, ioVars>>
       \/ part = "io" /\ IoNext /\ UNCHANGED <<stdVars, sigVars>>
    /\ UNCHANGED part

OnlyStd == part = "std" /\ UNCHANGED <<part, sigVars, ioVars>>

LibSpec == LibInit /\ [][LibNext]_libVars
=============================================================================
