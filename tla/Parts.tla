------------------------------- MODULE Parts -------------------------------
(***************************************************************************)
(* The USB serial port and the parts of Library in one instance for TLC.   *)
(* They share nothing: a behaviour is one of a single part, and the        *)
(* variables of the others keep the values they begin with.                *)
(***************************************************************************)
EXTENDS Library, Usb

VARIABLE usb    \* the part is the USB serial port, fixed

partsVars == <<usb, libVars, vars>>

PartsInit ==
    /\ usb \in BOOLEAN
    /\ LibInit /\ Init
    /\ usb => part = "portal"
    /\ ~usb => sent = 0

PartsNext ==
    /\ \/ usb /\ Next /\ UNCHANGED libVars
       \/ ~usb /\ LibNext /\ UNCHANGED vars
    /\ UNCHANGED usb

OnlyUsb == usb /\ UNCHANGED <<usb, libVars>>
OnlyLibrary == ~usb /\ OnlyStd /\ UNCHANGED <<usb, vars>>

\* The host polls the IN endpoint and the interrupt that follows is served; the operating
\* system runs every thread that can run, and time passes.
PartsFairSpec ==
    /\ PartsInit /\ [][PartsNext]_partsVars
    /\ WF_partsVars(HostTakes /\ OnlyUsb)
    /\ WF_partsVars(endpoint_in_complete /\ OnlyUsb)
    /\ WF_partsVars(StdThread /\ OnlyLibrary)
    /\ WF_partsVars(Tick /\ OnlyLibrary)
    /\ \A t \in Threads : WF_partsVars(Signal(t) /\ OnlyLibrary)
=============================================================================
