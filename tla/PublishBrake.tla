---------------------------- MODULE PublishBrake ----------------------------
(***************************************************************************)
(* The publish brake of orders-svc, from the key publish_enabled of the    *)
(* ConfigMap orders-svc-flags to the decision of handleCreate whether to   *)
(* publish: kubelet projects the ConfigMap into the mount, the watcher     *)
(* goroutine (services/orders-svc/cbwatch.go) turns the file into the      *)
(* atomic publishingPaused, and request handlers                           *)
(* (services/orders-svc/main.go) read it after payments-svc has answered.  *)
(* The HTTP server and the watcher start concurrently.                     *)
(***************************************************************************)
EXTENDS Naturals, FiniteSets

CONSTANTS Order,       \* requests POST /orders, each served once
          MaxEdits,    \* bound on changes of the ConfigMap
          MaxFaults,   \* bound on signals, restarts, lost events and failed watches
          MaxEvents    \* how many fsnotify events are told apart

ASSUME BoundsAssumption == MaxEdits \in Nat /\ MaxFaults \in Nat /\ MaxEvents \in Nat

(* What the key may hold: "TRUE " stands for every spelling that TrimSpace *)
(* and EqualFold take for "true", "maybe" for every other text.            *)
Text == {"true", "TRUE ", "false", "maybe"}
NoFile == "no file"

VARIABLES
  flags,      \* the ConfigMap: a text, "unset" without the key, or "absent"
  mount,      \* the projected file: a text, or NoFile
  events,     \* fsnotify events in the channel
  watcher,    \* program counter of watchCircuitBreak
  got,        \* what its last os.ReadFile returned
  paused,     \* app.publishingPaused
  order,      \* order[o]: where handleCreate is
  stream,     \* the orders published to NATS
  edits, faults,
  held        \* history: orders that arrived in the pause that still lasts

vars == <<flags, mount, events, watcher, got, paused, order, stream, edits, faults, held>>

(* read: a file that is not there means enabled, any text but "true" paused. *)
Enabled(content) == content \in {NoFile, "true", "TRUE "}

FileOf(f) == IF f = "unset" THEN NoFile ELSE f

Init ==
  /\ flags \in {"true", "false"}
  /\ mount = flags
  /\ events = 0
  /\ watcher = "start" /\ got = NoFile
  /\ paused = FALSE
  /\ order = [o \in Order |-> "new"]
  /\ stream = {} /\ held = {}
  /\ edits = 0 /\ faults = 0

-----------------------------------------------------------------------------
(* The ConfigMap and its way into the pod (external). *)

EditFlags(f) ==
  /\ edits < MaxEdits /\ f # flags
  /\ edits' = edits + 1
  /\ flags' = f
  /\ UNCHANGED <<mount, events, watcher, got, paused, order, stream, faults, held>>

Watching == watcher \in {"select", "store"}

(* kubelet swaps the projected directory; fsnotify reports it to a watch   *)
(* that is in place, but may miss it.  The volume keeps its content when   *)
(* the ConfigMap is deleted.                                               *)
KubeletSync(seen) ==
  /\ flags # "absent" /\ mount # FileOf(flags)
  /\ mount' = FileOf(flags)
  /\ \/ /\ seen
        /\ events' = IF Watching /\ events < MaxEvents THEN events + 1 ELSE events
        /\ faults' = faults
     \/ /\ ~seen /\ Watching
        /\ faults < MaxFaults /\ faults' = faults + 1
        /\ events' = events
  /\ UNCHANGED <<flags, watcher, got, paused, order, stream, edits, held>>

-----------------------------------------------------------------------------
(* watchCircuitBreak.  read() is os.ReadFile, then the store to paused. *)

(* Mutant of ReadFile: the error is not looked at, a missing file is empty. *)
ReadFileUnchecked(from, to) ==
  /\ watcher = from /\ watcher' = to
  /\ got' = IF mount = NoFile THEN "" ELSE mount
  /\ UNCHANGED <<flags, mount, paused, order, stream, edits, faults, held>>

ReadFile(from, to) ==
  /\ watcher = from /\ watcher' = to
  /\ got' = mount
  /\ UNCHANGED <<flags, mount, paused, order, stream, edits, faults, held>>

Store(from, to) ==
  /\ watcher = from /\ watcher' = to
  /\ paused' = ~Enabled(got)
  /\ held' = IF paused' THEN held ELSE {}
  /\ UNCHANGED <<flags, mount, events, got, order, stream, edits, faults>>

FirstRead  == ReadFile("start", "first store") /\ UNCHANGED events
FirstStore == Store("first store", "watch")

(* fsnotify.NewWatcher and w.Add; changes before this raise no event. *)
AddWatch ==
  /\ watcher = "watch" /\ watcher' = "select"
  /\ UNCHANGED <<flags, mount, events, got, paused, order, stream, edits, faults, held>>

(* NewWatcher or Add returns an error; the goroutine logs it and ends. *)
WatchFails ==
  /\ watcher = "watch" /\ watcher' = "dead"
  /\ faults < MaxFaults /\ faults' = faults + 1
  /\ UNCHANGED <<flags, mount, events, got, paused, order, stream, edits, held>>

(* Mutant of OnTick: the tick does not re-read the file. *)
OnTickIdle == watcher = "select" /\ UNCHANGED vars

OnTick == ReadFile("select", "store") /\ UNCHANGED events

OnEvent == ReadFile("select", "store") /\ events > 0 /\ events' = events - 1

StoreRead == Store("store", "select")

(* <-ctx.Done(): a signal.  The watcher returns while the requests that    *)
(* are being served go on, with the flag as it was.  The channels of the   *)
(* fsnotify watcher are closed only after this, by the deferred w.Close.   *)
ContextDone ==
  /\ watcher = "select" /\ watcher' = "ended"
  /\ faults < MaxFaults /\ faults' = faults + 1
  /\ UNCHANGED <<flags, mount, events, got, paused, order, stream, edits, held>>

-----------------------------------------------------------------------------
(* handleCreate.  Charge may fail or decline (the module OrderFlow). *)

Goto(o, to) == order' = [order EXCEPT ![o] = to]

Arrive(o) ==
  /\ order[o] = "new"
  /\ Goto(o, "charging")
  /\ held' = IF paused THEN held \cup {o} ELSE held
  /\ UNCHANGED <<flags, mount, events, watcher, got, paused, stream, edits, faults>>

Charged(o) ==
  /\ order[o] = "charging"
  /\ Goto(o, "authorized") \/ Goto(o, "done")
  /\ UNCHANGED <<flags, mount, events, watcher, got, paused, stream, edits, faults, held>>

(* Mutant of CheckPaused: the flag is not consulted. *)
CheckPausedNever(o) ==
  /\ order[o] = "authorized"
  /\ Goto(o, "publishing")
  /\ UNCHANGED <<flags, mount, events, watcher, got, paused, stream, edits, faults, held>>

(* publishingPaused.Load() *)
CheckPaused(o) ==
  /\ order[o] = "authorized"
  /\ Goto(o, IF paused THEN "done" ELSE "publishing")
  /\ UNCHANGED <<flags, mount, events, watcher, got, paused, stream, edits, faults, held>>

(* js.PublishMsg; its error is dropped, the order stands. *)
Publish(o) ==
  /\ order[o] = "publishing"
  /\ Goto(o, "done")
  /\ stream' \in {stream, stream \cup {o}}
  /\ UNCHANGED <<flags, mount, events, watcher, got, paused, edits, faults, held>>

(* The container dies, or exits after a signal, and is started again on    *)
(* the same volume.                                                        *)
Restart ==
  /\ \/ watcher = "ended" /\ faults' = faults
     \/ watcher # "ended" /\ faults < MaxFaults /\ faults' = faults + 1
  /\ events' = 0 /\ watcher' = "start" /\ got' = NoFile
  /\ paused' = FALSE
  /\ order' = [o \in Order |-> IF order[o] = "new" THEN "new" ELSE "done"]
  /\ held' = {}
  /\ UNCHANGED <<flags, mount, stream, edits>>

-----------------------------------------------------------------------------
Watcher == FirstRead \/ FirstStore \/ AddWatch \/ OnEvent \/ StoreRead

Next ==
  \/ \E f \in Text \cup {"unset", "absent"} : EditFlags(f)
  \/ \E seen \in BOOLEAN : KubeletSync(seen)
  \/ Watcher \/ OnTick \/ WatchFails \/ ContextDone \/ Restart
  \/ \E o \in Order : Arrive(o) \/ Charged(o) \/ CheckPaused(o) \/ Publish(o)

Spec == Init /\ [][Next]_vars

(* kubelet syncs every pod periodically and restarts a container that has  *)
(* exited; the goroutine runs; the ticker fires every 30 seconds, and      *)
(* select does not starve it.                                              *)
FairSpec ==
  /\ Spec
  /\ WF_vars(\E seen \in BOOLEAN : KubeletSync(seen))
  /\ WF_vars(Watcher)
  /\ SF_vars(OnTick)
  /\ WF_vars(watcher = "ended" /\ Restart)

-----------------------------------------------------------------------------
TypeOK ==
  /\ flags \in Text \cup {"unset", "absent"}
  /\ mount \in Text \cup {NoFile} /\ got \in Text \cup {NoFile}
  /\ events \in 0 .. MaxEvents
  /\ watcher \in {"start", "first store", "watch", "select", "store", "dead", "ended"}
  /\ paused \in BOOLEAN
  /\ order \in [Order -> {"new", "charging", "authorized", "publishing", "done"}]
  /\ stream \subseteq Order /\ held \subseteq Order
  /\ edits \in 0 .. MaxEdits /\ faults \in 0 .. MaxFaults

(* "stops calling js.Publish on new orders" (docs/runbooks/circuit-break.md, *)
(* line 13): an order that arrives while publishing is paused is not       *)
(* published unless the pause ends, however long its Charge takes.         *)
NewOrdersHeld == \A o \in held : o \notin stream /\ order[o] # "publishing"

(* Once the ConfigMap no longer changes, the process ends up doing what it *)
(* says, although events get lost, come while the file is being read, or   *)
(* precede the watch: the tick re-reads.  Not so once the watcher is dead. *)
FlagSettles ==
  <>[](watcher = "dead" \/ flags = "absent" \/ paused = ~Enabled(FileOf(flags)))
=============================================================================
