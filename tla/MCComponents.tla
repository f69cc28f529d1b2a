---------------------------- MODULE MCComponents ----------------------------
(***************************************************************************)
(* The components that stand for themselves, explored side by side.  None  *)
(* reads the state of another, so one behaviour is one component at work   *)
(* (`scene`, chosen once) while the others stay at their initial state.    *)
(***************************************************************************)
EXTENDS WebSession, Storefront, SupplierConsole, ChatThread, LandingMeter, PublicLedger,
        ModelHost

CONSTANTS l1, l2, e1, e2, t1, t2, br1, w1, w2, m1, m2, b1, b2, o1, s1

MCAddressOf == (l1 :> e1) @@ (l2 :> e1)
MCBrowserOf == (t1 :> br1) @@ (t2 :> br1)
MCTagsOfSeed == (s1 :> {"mlx"})
(* An offering made through the API may have a tag the form respells. *)
MCWordsOf == ("mlx" :> {"mlx"}) @@ ("mlx," :> {"mlx"})
MCLimit == [home |-> 2, ledger |-> 2, booking |-> 3]
MCLock == (b1 :> 13) @@ (b2 :> 18)
MCCharges == {[cost |-> 0, usage |-> 3599], [cost |-> 13, usage |-> 3599]}

VARIABLE scene

Scenes == {"session", "store", "console", "chat", "meter", "ledger", "host"}

(* A component that is not at work stands at one of its initial states.     *)
(* Links are interchangeable: of the initial states that differ by a swap,  *)
(* one is enough; the API, which one click takes away, is up at first.      *)
Init ==
    /\ scene \in Scenes
    /\ SessionInit /\ (link[l1] = "none" => link[l2] = "none")
    /\ (scene # "session" => link[l1] = "none")
    /\ StoreInit /\ api = "up" /\ (scene # "store" => row[o1] = NoRow)
    /\ ConsoleInit /\ (scene # "console" => ~supplier)
    /\ ChatInit /\ (scene # "chat" => status = "pending")
    /\ MeterInit /\ (scene # "meter" => ~inView /\ ~hidden)
    /\ LedgerInit
    /\ HostInit

Next ==
    /\ \/ scene = "session" /\ SessionNext
       \/ scene # "session" /\ UNCHANGED sessionVars
    /\ \/ scene = "store" /\ StoreNext
       \/ scene # "store" /\ UNCHANGED storeVars
    /\ \/ scene = "console" /\ ConsoleNext
       \/ scene # "console" /\ UNCHANGED consoleVars
    /\ \/ scene = "chat" /\ ChatNext
       \/ scene # "chat" /\ UNCHANGED chatVars
    /\ \/ scene = "meter" /\ MeterNext
       \/ scene # "meter" /\ UNCHANGED meterVars
    /\ \/ scene = "ledger" /\ LedgerNext
       \/ scene # "ledger" /\ UNCHANGED ledgerVars
    /\ \/ scene = "host" /\ HostNext
       \/ scene # "host" /\ UNCHANGED hostVars
    /\ UNCHANGED scene

vars == <<scene, sessionVars, storeVars, consoleVars, chatVars, meterVars, ledgerVars, hostVars>>

(* The fairness of each component, while it is the one at work. *)
Spec ==
    /\ Init /\ [][Next]_vars
    /\ \A t \in Tabs : WF_sessionVars(scene = "session" /\ ServerStep(t))
    /\ \A t \in ChatTabs : WF_chatVars(scene = "chat" /\ Sending(t))
    /\ WF_meterVars(scene = "meter" /\ Tick)
    /\ WF_meterVars(scene = "meter" /\ StepOfTime)
    /\ \A c \in Callers : SF_hostVars(scene = "host" /\ Load(c))
    /\ WF_hostVars(scene = "host" /\ Dying)

(* Whatever a component has under way ends: every visit on a page, every   *)
(* message settled, every load of a model; and the meter goes round.       *)
EverythingEnds == VisitsEnd /\ SendsSettle /\ MeterGoesOn /\ LoadsEnd
=============================================================================
