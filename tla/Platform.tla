------------------------------ MODULE Platform ------------------------------
(***************************************************************************)
(* The parts of the platform that share no rows with the others, each a    *)
(* component of its own.  They run side by side and none can disturb       *)
(* another, so a behaviour exercises one of them, chosen at the start: the *)
(* behaviours of their composition are the interleavings of these.         *)
(***************************************************************************)
EXTENDS Registration, Dispatch, Emergency, Terms, RouteDeviation, Participation, Session,
        Fleet, Recovery, Documents, Linking

VARIABLE part     \* the component that runs

platformVars == <<part, registrationVars, dispatchVars, emergencyVars, termsVars,
                  deviationVars, participationVars, sessionVars,
                  fleetVars, recoveryVars, documentVars, linkingVars>>

Parts == {"registration", "dispatch", "emergency", "terms", "deviation", "participation",
          "session", "fleet", "recovery", "documents", "linking"}

PlatformInit ==
    /\ part \in Parts
    /\ RegistrationInit /\ DispatchInit /\ EmergencyInit /\ TermsInit
    /\ DeviationInit /\ ParticipationInit /\ SessionInit
    /\ FleetInit /\ RecoveryInit /\ DocumentsInit /\ LinkingInit

\* Only the component p moves; the others keep their rows.
Others(p) ==
    /\ UNCHANGED part
    /\ p # "registration" => UNCHANGED registrationVars
    /\ p # "dispatch" => UNCHANGED dispatchVars
    /\ p # "emergency" => UNCHANGED emergencyVars
    /\ p # "terms" => UNCHANGED termsVars
    /\ p # "deviation" => UNCHANGED deviationVars
    /\ p # "participation" => UNCHANGED participationVars
    /\ p # "session" => UNCHANGED sessionVars
    /\ p # "fleet" => UNCHANGED fleetVars
    /\ p # "recovery" => UNCHANGED recoveryVars
    /\ p # "documents" => UNCHANGED documentVars
    /\ p # "linking" => UNCHANGED linkingVars

PlatformNext ==
    \/ part = "registration" /\ RegistrationNext /\ Others("registration")
    \/ part = "dispatch" /\ DispatchNext /\ Others("dispatch")
    \/ part = "emergency" /\ EmergencyNext /\ Others("emergency")
    \/ part = "terms" /\ TermsNext /\ Others("terms")
    \/ part = "deviation" /\ DeviationNext /\ Others("deviation")
    \/ part = "participation" /\ ParticipationNext /\ Others("participation")
    \/ part = "session" /\ SessionNext /\ Others("session")
    \/ part = "fleet" /\ FleetNext /\ Others("fleet")
    \/ part = "recovery" /\ RecoveryNext /\ Others("recovery")
    \/ part = "documents" /\ DocumentsNext /\ Others("documents")
    \/ part = "linking" /\ LinkingNext /\ Others("linking")

\* The scheduler calls the dispatcher again and again, and a run goes on until it
\* commits; a server that has a refresh answers it, the network delivers or reports an
\* error, and a page handles what it is given.
PlatformFairness ==
    /\ \A r \in Run : WF_dispatchVars(part = "dispatch" /\ RunStep(r))
    /\ \A t \in Tab : WF_sessionVars(part = "session" /\ RefreshStep(t))
    /\ \A c \in Call : WF_sessionVars(part = "session" /\ Answer(c))

PlatformSpec == PlatformInit /\ [][PlatformNext]_platformVars /\ PlatformFairness

=============================================================================
