--------------------------------- MODULE Ui ---------------------------------
(***************************************************************************)
(* The user interface: the egui thread that renders frames (app.rs and the *)
(* screens), the worker task that handles its commands, and the tasks that *)
(* drain the worker's answers, one spawned by every frame.  The UiState is *)
(* shared behind a lock that each of them takes and releases many times in *)
(* a frame; screens act on copies of it.                                   *)
(*                                                                         *)
(* The controller is given its state by the caller and nothing in it adds  *)
(* peers, so the peers are those of that state.  The worker sends no       *)
(* answer but MessageSent, Loading(false), LoadMessages and Shutdown; what *)
(* they change is the loading flag, which is never set.  A user does at    *)
(* most one thing in a frame, or types and sends.                          *)
(***************************************************************************)
EXTENDS Naturals, Sequences

CONSTANTS
    Peers,        \* the peers of the UiState
    Verified,     \* those shown as verified
    None,         \* no peer, screen or copy
    Timeouts,     \* positions of the slider, 1 to 60 in the code
    MaxCommands,  \* bound on commands before the exit
    MaxDrains     \* bound on drain tasks at a time

ASSUME PeersAssumption == Verified \subseteq Peers /\ None \notin Peers
ASSUME TimeoutsAssumption == Timeouts \subseteq Nat /\ Timeouts # {}
ASSUME CommandsAssumption == MaxCommands \in Nat /\ MaxDrains \in Nat \ {0}

VARIABLES
    screen,    \* current_screen
    selected,  \* selected_peer
    draft,     \* whether compose_text holds something
    settings,  \* dark_mode, notifications_enabled and discovery_timeout_secs
    pc,        \* where the egui thread is in its frame
    view,      \* the screen the thread goes by, None when it will read it again
    copy,      \* the copy of the state its screen works on, or None
    commands,  \* the channel to the worker
    worker,    \* "up", or "gone" after Shutdown or with the runtime
    answers,   \* the channel from the worker
    drains,    \* drain tasks that wait for the receiver
    draining,  \* whether one of them holds it
    issued,    \* number of commands sent
    handled,   \* number of commands handled
    clicked,   \* history: the peer the user chose last
    wanted,    \* history: the settings the user asked for
    stale      \* history: settings were changed from an outdated copy

stateVars == <<screen, selected, draft, settings>>
thread == <<pc, view, copy>>
drainVars == <<drains, draining>>
history == <<clicked, wanted, stale>>
uiVars == <<stateVars, thread, commands, worker, answers, drainVars, issued, handled, history>>

Screens == {"Chat", "Profile", "Settings"}

Queued(kind) == \E i \in 1..Len(commands) : commands[i].kind = kind

(* What a screen copies out of the state; settled and current record       *)
(* whether a choice of peer or of settings was still on its way.           *)
Copy == [selected |-> selected, draft |-> draft, settings |-> settings,
         settled |-> ~Queued("SelectPeer"), current |-> ~Queued("UpdateSettings")]

UiInit ==
    /\ screen = "Chat" /\ selected = None /\ draft = FALSE
    /\ settings = [dark |-> TRUE, notify |-> TRUE, timeout |-> CHOOSE t \in Timeouts : TRUE]
    /\ pc = "out" /\ view = None /\ copy = None
    /\ commands = <<>> /\ worker = "up" /\ answers = <<>>
    /\ drains = 0 /\ draining = FALSE
    /\ issued = 0 /\ handled = 0
    /\ clicked = None /\ wanted = settings /\ stale = FALSE

-----------------------------------------------------------------------------
(* A frame *)

(* update: a drain task is spawned, and the sidebar reads the screen. *)
Frame ==
    /\ pc = "out" /\ drains < MaxDrains
    /\ drains' = drains + 1
    /\ pc' = "sidebar" /\ view' = screen
    /\ UNCHANGED <<stateVars, copy, commands, worker, answers, draining, issued, handled, history>>

(* The sidebar's buttons: a click on another screen than the one read. *)
Sidebar ==
    /\ pc = "sidebar"
    /\ screen' \in {screen} \union (Screens \ {view})
    /\ pc' = "content" /\ view' = None
    /\ UNCHANGED <<selected, draft, settings, copy, commands, worker, answers, drainVars,
                   issued, handled, history>>

(* render_content reads the screen again ... *)
RenderContent ==
    /\ pc = "content"
    /\ view' = screen /\ pc' = "render"
    /\ UNCHANGED <<stateVars, copy, commands, worker, answers, drainVars, issued, handled, history>>

(* ... and that screen copies what it shows. *)
Render ==
    /\ pc = "render"
    /\ copy' = Copy /\ pc' = "shown"
    /\ UNCHANGED <<stateVars, view, commands, worker, answers, drainVars, issued, handled, history>>

(* The frame ends; with a click, its command is sent. *)
EndFrame ==
    /\ pc' = "out" /\ view' = None /\ copy' = None
    /\ UNCHANGED <<screen, selected, settings, worker, answers, drainVars, handled>>

SendCommand(c) ==
    /\ issued < MaxCommands
    /\ issued' = issued + 1
    /\ commands' = IF worker = "up" THEN Append(commands, c) ELSE commands

Nothing ==
    /\ pc = "shown"
    /\ EndFrame
    /\ UNCHANGED <<draft, commands, issued, history>>

(* The chat screen: the peer selector, Discover, and the input, whose text *)
(* may change and be sent in one frame.                                    *)
ClickPeer(p) ==
    /\ pc = "shown" /\ view \in {"Chat", "Profile"}
    /\ SendCommand([kind |-> "SelectPeer", peer |-> p])
    /\ clicked' = p
    /\ EndFrame
    /\ UNCHANGED <<draft, wanted, stale>>

Discover ==
    /\ pc = "shown" /\ view = "Chat"
    /\ SendCommand([kind |-> "DiscoverPeers"])
    /\ EndFrame
    /\ UNCHANGED <<draft, history>>

ChatInput ==
    /\ pc = "shown" /\ view = "Chat"
    /\ \E text \in BOOLEAN :
         \/ draft' = text /\ UNCHANGED <<commands, issued>>
         \/ /\ text /\ copy.selected # None
            /\ SendCommand([kind |-> "SendMessage", peer |-> copy.selected])
            /\ draft' = FALSE
    /\ EndFrame
    /\ UNCHANGED history

(* The profile screen: ResetIdentity, and what each peer's buttons offer. *)
ProfileClick ==
    /\ pc = "shown" /\ view = "Profile"
    /\ \/ SendCommand([kind |-> "ResetIdentity"])
       \/ \E p \in Verified : SendCommand([kind |-> "UntrustPeer", peer |-> p])
       \/ \E p \in Peers \ Verified : SendCommand([kind |-> "TrustPeer", peer |-> p])
    /\ EndFrame
    /\ UNCHANGED <<draft, history>>

(* The settings screen: one setting differs from the copy, and all three   *)
(* are sent.                                                               *)
ChangeSetting ==
    /\ pc = "shown" /\ view = "Settings"
    /\ \/ /\ SendCommand([kind |-> "UpdateSettings",
                          new |-> [copy.settings EXCEPT !.dark = ~@]])
          /\ wanted' = [wanted EXCEPT !.dark = ~copy.settings.dark]
       \/ /\ SendCommand([kind |-> "UpdateSettings",
                          new |-> [copy.settings EXCEPT !.notify = ~@]])
          /\ wanted' = [wanted EXCEPT !.notify = ~copy.settings.notify]
       \/ \E t \in Timeouts \ {copy.settings.timeout} :
          /\ SendCommand([kind |-> "UpdateSettings",
                          new |-> [copy.settings EXCEPT !.timeout = t]])
          /\ wanted' = [wanted EXCEPT !.timeout = t]
    /\ stale' = (stale \/ ~copy.current)
    /\ EndFrame
    /\ UNCHANGED <<draft, clicked>>

(* on_exit, after which no frame is rendered; then main returns and drops  *)
(* the runtime with every task that is left.                               *)
OnExit ==
    /\ pc = "out"
    /\ pc' = "exited"
    /\ issued' = issued + 1
    /\ commands' = IF worker = "up" THEN Append(commands, [kind |-> "Shutdown"]) ELSE commands
    /\ UNCHANGED <<stateVars, view, copy, worker, answers, drainVars, handled, history>>

RuntimeDropped ==
    /\ pc = "exited"
    /\ pc' = "ended" /\ worker' = "gone" /\ commands' = <<>>
    /\ drains' = 0 /\ draining' = FALSE
    /\ UNCHANGED <<stateVars, view, copy, answers, issued, handled, history>>

-----------------------------------------------------------------------------
(* The worker *)

\* Mutants: the timeout is forgotten; a choice does not replace another.
ApplyFlags(c) ==
    /\ selected' = IF c.kind = "SelectPeer" THEN c.peer ELSE selected
    /\ screen' = IF c.kind = "SelectPeer" THEN "Chat" ELSE screen
    /\ settings' = IF c.kind = "UpdateSettings"
                   THEN [c.new EXCEPT !.timeout = settings.timeout] ELSE settings
    /\ UNCHANGED draft

ApplyFirst(c) ==
    /\ selected' = IF c.kind = "SelectPeer" /\ selected = None THEN c.peer ELSE selected
    /\ screen' = IF c.kind = "SelectPeer" THEN "Chat" ELSE screen
    /\ settings' = IF c.kind = "UpdateSettings" THEN c.new ELSE settings
    /\ UNCHANGED draft

(* What a command changes in the state. *)
Apply(c) ==
    /\ selected' = IF c.kind = "SelectPeer" THEN c.peer ELSE selected
    /\ screen' = IF c.kind = "SelectPeer" THEN "Chat" ELSE screen
    /\ settings' = IF c.kind = "UpdateSettings" THEN c.new ELSE settings
    /\ UNCHANGED draft

(* What it answers; the commands that are not wired up yet answer nothing. *)
Answer(c) ==
    CASE c.kind = "SendMessage" -> <<"MessageSent">>
      [] c.kind = "DiscoverPeers" -> <<"Loading">>
      [] c.kind = "SelectPeer" -> <<"LoadMessages">>
      [] c.kind = "Shutdown" -> <<"Shutdown">>
      [] OTHER -> <<>>

\* Mutant: ResetIdentity ends the loop as well.
HandleUntilReset ==
    /\ worker = "up" /\ commands # <<>>
    /\ LET c == Head(commands) IN
       /\ Apply(c)
       /\ answers' = answers \o Answer(c)
       /\ worker' = IF c.kind \in {"Shutdown", "ResetIdentity"} THEN "gone" ELSE "up"
       /\ commands' = IF c.kind \in {"Shutdown", "ResetIdentity"} THEN <<>> ELSE Tail(commands)
    /\ handled' = handled + 1
    /\ UNCHANGED <<thread, drainVars, issued, history>>

Handle ==
    /\ worker = "up" /\ commands # <<>>
    /\ LET c == Head(commands) IN
       /\ Apply(c)
       /\ answers' = answers \o Answer(c)
       /\ worker' = IF c.kind = "Shutdown" THEN "gone" ELSE "up"
       /\ commands' = IF c.kind = "Shutdown" THEN <<>> ELSE Tail(commands)
    /\ handled' = handled + 1
    /\ UNCHANGED <<thread, drainVars, issued, history>>

-----------------------------------------------------------------------------
(* process_messages, in a task of its own: it waits for the receiver, and  *)
(* lets go of it when there is nothing left to take.                       *)

DrainLock ==
    /\ drains > 0 /\ ~draining
    /\ drains' = drains - 1 /\ draining' = TRUE
    /\ UNCHANGED <<stateVars, thread, commands, worker, answers, issued, handled, history>>

DrainTake ==
    /\ draining
    /\ answers' = IF answers = <<>> THEN answers ELSE Tail(answers)
    /\ draining' = (answers # <<>>)
    /\ UNCHANGED <<stateVars, thread, commands, worker, drains, issued, handled, history>>

UiNext ==
    \/ Frame \/ Sidebar \/ RenderContent \/ Render \/ Nothing
    \/ \E p \in Peers : ClickPeer(p)
    \/ Discover \/ ChatInput \/ ProfileClick \/ ChangeSetting
    \/ OnExit \/ RuntimeDropped \/ Handle \/ DrainLock \/ DrainTake

UiThread ==
    \/ Frame \/ Sidebar \/ RenderContent \/ Render \/ Nothing
    \/ \E p \in Peers : ClickPeer(p)
    \/ Discover \/ ChatInput \/ ProfileClick \/ ChangeSetting

(* The runtime runs the worker and the tasks it holds, and every frame     *)
(* asks for the next one.                                                  *)
UiSpec ==
    /\ UiInit /\ [][UiNext]_uiVars
    /\ WF_uiVars(UiThread) /\ WF_uiVars(Handle) /\ WF_uiVars(DrainLock) /\ WF_uiVars(DrainTake)

-----------------------------------------------------------------------------
(* When no change of settings is on its way to the worker, the state holds *)
(* what the user asked for, although every command carries all three       *)
(* settings of a copy made earlier in the frame; unless a setting was      *)
(* changed on a copy made while another change was still queued, which the *)
(* second command then undoes.                                             *)
SettingsKept ==
    ~stale /\ ~Queued("UpdateSettings") /\ worker = "up" => settings = wanted

(* A message goes to the peer the user chose last, whatever the worker     *)
(* does between the copy and the send, unless the choice was still queued  *)
(* when the screen was copied.                                             *)
SendsGoToChosen ==
    [][Len(commands') > Len(commands) /\ commands'[Len(commands')].kind = "SendMessage" /\ copy.settled
        => commands'[Len(commands')].peer = clicked]_uiVars

(* Until the window is closed, every command is handled and everything the *)
(* worker answers is taken off the channel, whatever tasks wait for it.    *)
CommandsAnswered ==
    (handled < issued \/ answers # <<>>)
        ~> (handled = issued /\ answers = <<>>) \/ pc \in {"exited", "ended"}
=============================================================================
