----------------------------- MODULE InputRouter -----------------------------
(***************************************************************************)
(* Which microphone is on: InputRouter in src/web/server.rs and the        *)
(* handlers of the requests that reach it, each on a connection thread of  *)
(* its own, with the capture callback that the native gate belongs to.     *)
(*                                                                         *)
(* The arbitration lock makes the two stores of a request exclusive with   *)
(* those of another, not with the session, which stores into the native    *)
(* gate without it.  Whoever waits for the lock has no effect, so only its *)
(* holder is kept.                                                         *)
(***************************************************************************)
EXTENDS Integers, Sequences

CONSTANTS NativeBacklog,  \* CALLBACK_SAMPLE_CAPACITY, in stretches of sound
          BrowserBacklog  \* capacity of the channel of browser audio

ASSUME BacklogAssumption == NativeBacklog \in Nat /\ BrowserBacklog \in Nat

VARIABLES native,        \* native_capture_enabled
          browser,       \* browser_audio_enabled
          arbitration,   \* holder of the lock, between its two stores
          inHand,        \* audio admitted by a request and not yet sent
          browserQueue,  \* channel of browser audio
          nativeQueue,   \* channel of samples of the capture callback
          lastStore      \* history: who stored into the native gate last

routerVars == <<native, browser, arbitration, inHand, browserQueue, nativeQueue, lastStore>>

\* A stretch of sound: long enough to begin or to end a breath group.
Sounds == {"quiet", "user", "pete"}

RouterTypeOK ==
    /\ native \in BOOLEAN /\ browser \in BOOLEAN
    /\ arbitration \in {"free", "browserOn", "nativeOn"}
    /\ inHand \in Sounds \cup {"none"}
    /\ browserQueue \in Seq(Sounds) /\ nativeQueue \in Seq(Sounds)
    /\ lastStore \in {"router", "session"}

\* Native capture is the default when both exist.
RouterInit ==
    /\ native = TRUE /\ browser = FALSE /\ arbitration = "free" /\ inHand = "none"
    /\ browserQueue = <<>> /\ nativeQueue = <<>> /\ lastStore = "session"

queues == <<inHand, browserQueue, nativeQueue>>

(***************************************************************************)
(* Requests.                                                               *)
(***************************************************************************)
EnableBrowser ==
    /\ arbitration = "free"
    /\ browser' = TRUE /\ arbitration' = "browserOn"
    /\ UNCHANGED <<native, queues, lastStore>>

BrowserTakesOver ==
    /\ arbitration = "browserOn"
    /\ native' = FALSE /\ lastStore' = "router" /\ arbitration' = "free"
    /\ UNCHANGED <<browser, queues>>

\* Mutant: the native microphone is enabled without the lock, so that another
\* request may be between its two stores.
EnableNativeUnlocked ==
    /\ native' = TRUE /\ lastStore' = "router" /\ browser' = FALSE
    /\ UNCHANGED <<arbitration, queues>>

EnableNative ==
    /\ arbitration = "free"
    /\ native' = TRUE /\ lastStore' = "router" /\ arbitration' = "nativeOn"
    /\ UNCHANGED <<browser, queues>>

NativeTakesOver ==
    /\ arbitration = "nativeOn"
    /\ browser' = FALSE /\ arbitration' = "free"
    /\ UNCHANGED <<native, queues, lastStore>>

Disable ==
    /\ arbitration = "free"
    /\ \/ browser' = FALSE /\ UNCHANGED <<native, lastStore>>
       \/ native' = FALSE /\ lastStore' = "router" /\ UNCHANGED browser
    /\ UNCHANGED <<arbitration, queues>>

Request == EnableBrowser \/ BrowserTakesOver \/ EnableNative \/ NativeTakesOver \/ Disable

\* Audio is admitted by what the gate was when its request began, and sent
\* later; a full channel refuses it.
AdmitAudio(sound) ==
    /\ browser /\ inHand = "none"
    /\ inHand' = sound
    /\ UNCHANGED <<native, browser, arbitration, browserQueue, nativeQueue, lastStore>>

SendAudio ==
    /\ inHand # "none"
    /\ browserQueue' = IF Len(browserQueue) < BrowserBacklog
                       THEN Append(browserQueue, inHand) ELSE browserQueue
    /\ inHand' = "none"
    /\ UNCHANGED <<native, browser, arbitration, nativeQueue, lastStore>>

\* The capture callback: samples that find the channel full are dropped.
Capture(sound) ==
    /\ native
    /\ nativeQueue' = IF Len(nativeQueue) < NativeBacklog
                      THEN Append(nativeQueue, sound) ELSE nativeQueue
    /\ UNCHANGED <<native, browser, arbitration, inHand, browserQueue, lastStore>>

\* The session's own store into the native gate.
StoreGate(on) == native' = on /\ lastStore' = "session"

\* A request that enables a microphone leaves exactly one on, whatever other
\* requests come with it, unless the session stored into the native gate last.
EnablingLeavesOneOn ==
    [][arbitration # "free" /\ arbitration' = "free" /\ lastStore' = "router"
       => native' # browser']_routerVars
=============================================================================
