------------------------------ MODULE Selection ------------------------------
(***************************************************************************)
(* The clipboard of a seat: its DataDevice, the DataDeviceManager with the *)
(* data it retains, and the data sources of the clients.                   *)
(*                                                                         *)
(* When the compositor retains the selection, it reads the data of each    *)
(* mime type from the client in turn, through a pipe.  A pipe is named by  *)
(* the descriptor the compositor reads from, which the system reuses when  *)
(* it has been closed; what a client writes is named by the source and the *)
(* mime type it was asked for.  Mime types are numbered in the order in    *)
(* which every source offers them.                                         *)
(*                                                                         *)
(* Which client has the keyboard focus is the business of KeyboardFocus,   *)
(* and the code has two notions of it: DataDevice::setFocus is called for  *)
(* the client of the surface with the focus, whether it has a wl_keyboard  *)
(* or not, and set_selection looks for the client of the wl_keyboard that  *)
(* keys are sent to.  The actions take the one or the other; offered is    *)
(* what the client of the surface with the focus was last offered since    *)
(* the focus came to it.                                                   *)
(***************************************************************************)
EXTENDS Integers, ClientObjects

CONSTANTS
  Sources, Pipes,
  Compositor,      \* the compositor's own data, as a source
  Times,           \* bound: the values of m_time
  MaxMimes,        \* bound: mime types of a source
  Retain           \* retainedSelectionEnabled()

ASSUME SelectionAssumption ==
  /\ None \notin Sources \cup Pipes /\ Compositor \notin Sources \cup {None}
  /\ Times \subseteq Nat /\ MaxMimes \in Nat /\ Retain \in BOOLEAN

VARIABLES
  devices,         \* the clients that have a wl_data_device
  source, time, mimes, \* per source, its life, m_time and number of mime types
  selection,       \* the DataDevice's m_selectionSource
  current,         \* the manager's m_current_selection_source
  owns,            \* m_compositorOwnsSelection
  notifier,        \* the pipe of m_retainedReadNotifier
  obsolete,        \* those of m_obsoleteRetainedReadNotifiers
  readIndex, readBuf, \* m_retainedReadIndex; what m_retainedReadBuf holds
  retained,        \* m_retainedData: what it holds of each of its mime types
  pipe,            \* per pipe, whether it is open, and its content
  offered,         \* what the client of the surface with the focus was offered
  unheard          \* history: it has not been told of the latest set_selection

sourceVars == <<source, time, mimes>>
readVars == <<notifier, obsolete, readIndex, readBuf, retained, pipe>>
offerVars == <<offered, unheard>>
selectionVars == <<devices, sourceVars, selection, current, owns, readVars, offerVars>>

Mimes == 1..MaxMimes
Data == Sources \X Mimes
\* A pipe whose write end a client holds, or has closed; or no pipe.
OpenPipes == [of : Data, unread : BOOLEAN, writer : BOOLEAN]
ASSUME PipeAssumption == None \notin OpenPipes

SelectionTypeOK ==
  /\ devices \subseteq Clients
  /\ source \in [Sources -> {"unborn", "live", "dead"}]
  /\ time \in [Sources -> Times \cup {0}] /\ mimes \in [Sources -> 0..MaxMimes]
  /\ selection \in Sources \cup {None} /\ current \in Sources \cup {None}
  /\ owns \in BOOLEAN
  /\ notifier \in Pipes \cup {None} /\ obsolete \subseteq Pipes
  /\ readIndex \in 0..MaxMimes
  /\ readBuf \subseteq Data
  /\ DOMAIN retained \subseteq Mimes
  /\ \A m \in DOMAIN retained : retained[m] \subseteq Data \cup {Compositor}
  /\ pipe \in [Pipes -> OpenPipes \cup {None}]
  /\ offered \in Sources \cup {Compositor, None} /\ unheard \in BOOLEAN

NoData == [m \in {} |-> {}]

SelectionInit ==
  /\ devices = {} /\ selection = None /\ current = None
  /\ source = [d \in Sources |-> "unborn"]
  /\ time = [d \in Sources |-> 0] /\ mimes = [d \in Sources |-> 0]
  /\ owns = FALSE /\ offered = None /\ unheard = FALSE
  /\ notifier = None /\ obsolete = {} /\ readIndex = 0 /\ readBuf = {}
  /\ retained = NoData
  /\ pipe = [p \in Pipes |-> None]

Live(d) == d # None /\ source[d] = "live"
-----------------------------------------------------------------------------
(* Data sources and data devices.                                          *)

GetDataDevice(c) ==
  /\ devices' = devices \cup {c}
  /\ UNCHANGED <<sourceVars, selection, current, owns, readVars, offerVars>>

\* create_data_source, in the millisecond of the latest source or later.
CreateDataSource(d, t) ==
  /\ source[d] = "unborn"
  /\ \A e \in Sources : time[e] <= t
  /\ source' = [source EXCEPT ![d] = "live"]
  /\ time' = [time EXCEPT ![d] = t]
  /\ UNCHANGED <<devices, mimes, selection, current, owns, readVars, offerVars>>

\* data_source_offer, at any time in the life of the source.
Offer(d) ==
  /\ Live(d) /\ mimes[d] < MaxMimes
  /\ mimes' = [mimes EXCEPT ![d] = @ + 1]
  /\ UNCHANGED <<devices, source, time, selection, current, owns, readVars, offerVars>>

\* ~DataSource: the device forgets the source; the manager keeps its pointer
\* but stops reading (finishReadFromClient), without closing the pipe.
DestroyKeepsReading(d) ==
  /\ Live(d)
  /\ source' = [source EXCEPT ![d] = "dead"]
  /\ selection' = IF selection = d THEN None ELSE selection
  /\ UNCHANGED <<devices, time, mimes, current, owns, readVars, offerVars>>
DestroyDataSource(d) ==
  /\ Live(d)
  /\ source' = [source EXCEPT ![d] = "dead"]
  /\ selection' = IF selection = d THEN None ELSE selection
  /\ obsolete' = IF current = d THEN obsolete \cup ({notifier} \ {None}) ELSE obsolete
  /\ notifier' = IF current = d THEN None ELSE notifier
  /\ UNCHANGED <<devices, time, mimes, current, owns, readIndex, readBuf, retained, pipe, offerVars>>
-----------------------------------------------------------------------------
(* Reading what is to be retained.                                         *)

\* retain(): the next mime type is asked for, if there is one; pipe() fails if
\* every descriptor is in use.  pipes are those as finishReadFromClient leaves
\* them.
RetainedKeepsBuf(d, index, pipes) ==
  /\ readIndex' = index /\ readBuf' = readBuf
  /\ IF index >= mimes[d]
     THEN notifier' = None /\ pipe' = pipes
     ELSE \E p \in Pipes :
            /\ pipes[p] = None
            /\ notifier' = p
            /\ pipe' = [pipes EXCEPT ![p] =
                 [of |-> <<d, index + 1>>, unread |-> FALSE, writer |-> TRUE]]
RetainedPastEnd(d, index, pipes) ==
  /\ readIndex' = index /\ readBuf' = {}
  /\ \E p \in Pipes :
       /\ pipes[p] = None
       /\ notifier' = p
       /\ pipe' = [pipes EXCEPT ![p] =
            [of |-> <<d, index + 1>>, unread |-> FALSE, writer |-> TRUE]]
Retained(d, index, pipes) ==
  /\ readIndex' = index
  /\ IF index >= mimes[d]
     THEN notifier' = None /\ pipe' = pipes /\ readBuf' = readBuf
     ELSE /\ readBuf' = {}
          /\ \/ /\ \A p \in Pipes : pipes[p] # None
                /\ notifier' = None /\ pipe' = pipes
             \/ \E p \in Pipes :
                  /\ pipes[p] = None
                  /\ notifier' = p
                  /\ pipe' = [pipes EXCEPT ![p] =
                       [of |-> <<d, index + 1>>, unread |-> FALSE, writer |-> TRUE]]

\* readFromClient, for the pipe that is read: data, or the end of it.
ReadData ==
  /\ notifier # None /\ pipe[notifier].unread
  /\ readBuf' = readBuf \cup {pipe[notifier].of}
  /\ pipe' = [pipe EXCEPT ![notifier].unread = FALSE]
  /\ UNCHANGED <<devices, sourceVars, selection, current, owns, notifier, obsolete, readIndex, retained, offerVars>>
ReadEnd ==
  /\ notifier # None /\ ~pipe[notifier].unread /\ ~pipe[notifier].writer
  /\ retained' = [m \in DOMAIN retained \cup {readIndex + 1} |->
                    IF m = readIndex + 1 THEN readBuf ELSE retained[m]]
  /\ Retained(current, readIndex + 1, [pipe EXCEPT ![notifier] = None])
  /\ UNCHANGED <<devices, sourceVars, selection, current, owns, obsolete, offerVars>>

\* readFromClient, for a pipe that is obsolete: what it holds is dropped.
ReadObsolete(p) ==
  /\ p \in obsolete
  /\ pipe[p].unread \/ ~pipe[p].writer
  /\ IF pipe[p].writer
     THEN pipe' = [pipe EXCEPT ![p].unread = FALSE] /\ obsolete' = obsolete
     ELSE pipe' = [pipe EXCEPT ![p] = None] /\ obsolete' = obsolete \ {p}
  /\ UNCHANGED <<devices, sourceVars, selection, current, owns, notifier, readIndex, readBuf, retained, offerVars>>

\* The client that was asked writes, or closes its end.
ClientWrites(p) ==
  /\ pipe[p] # None /\ pipe[p].writer
  /\ pipe' = [pipe EXCEPT ![p].unread = TRUE]
  /\ UNCHANGED <<devices, sourceVars, selection, current, owns, notifier, obsolete, readIndex, readBuf, retained, offerVars>>
ClientCloses(p) ==
  /\ pipe[p] # None /\ pipe[p].writer
  /\ pipe' = [pipe EXCEPT ![p].writer = FALSE]
  /\ UNCHANGED <<devices, sourceVars, selection, current, owns, notifier, obsolete, readIndex, readBuf, retained, offerVars>>
-----------------------------------------------------------------------------
(* The selection.                                                          *)

\* setCurrentSelectionSource, when it takes the source, and when it does not
\* because it has a newer one.  The newer one may be gone: what the code reads
\* of it then is undefined.
Accepted(d) ==
  /\ current' = d
  /\ owns' = FALSE
  /\ obsolete' = obsolete \cup ({notifier} \ {None})
  /\ IF d # None /\ Retain
     THEN /\ retained' = NoData
          /\ Retained(d, 0, pipe)
     ELSE notifier' = None /\ UNCHANGED <<readIndex, readBuf, retained, pipe>>
SetCurrentSelectionSource(d) ==
  IF current = None \/ d = None THEN Accepted(d)
  ELSE \/ /\ Live(current) => time[current] <= time[d]
          /\ Accepted(d)
       \/ /\ Live(current) => time[current] > time[d]
          /\ UNCHANGED <<current, owns, readVars>>

\* What set_selection offers to focusClient, the client keys are sent to.
OffersOnlySource(d, focusClient) == IF focusClient \in devices /\ d # None THEN d ELSE offered
NewlyOffered(d, focusClient) == IF focusClient \in devices THEN d ELSE offered

\* data_device_set_selection, by whichever client; the client that keys are
\* sent to is told, if there is one and it has a data device.
SetSelection(d, focusClient) ==
  /\ d # None => Live(d)
  /\ selection' = d
  /\ SetCurrentSelectionSource(d)
  /\ offered' = NewlyOffered(d, focusClient)
  /\ unheard' = (focusClient \notin devices)
  /\ UNCHANGED <<devices, sourceVars>>

\* DataDevice::setFocus for the client told, or a change of the focus without
\* a call of it, if told is None: the focus goes from a surface of oldClient to
\* one of newClient.
Tells(told) == told \in devices /\ selection # None
SetFocus(told, oldClient, newClient) ==
  /\ offered' = IF Tells(told) THEN selection
                ELSE IF newClient = oldClient THEN offered ELSE None
  /\ unheard' = (unheard /\ newClient = oldClient /\ ~Tells(told))

\* overrideSelection.  The client c of the surface with the focus gets the new
\* data; the code takes it for granted that it has a data device.
OverrideSelection(c) ==
  /\ c # None => c \in devices
  /\ \E formats \in SUBSET Mimes \ {{}} : retained' = [m \in formats |-> {Compositor}]
  /\ owns' = TRUE
  /\ offered' = IF c # None THEN Compositor ELSE offered
  /\ unheard' = (unheard /\ c = None)
  /\ UNCHANGED <<devices, sourceVars, selection, current, notifier, obsolete, readIndex, readBuf, pipe>>

\* WaylandSurface::updateSelection: offerRetainedSelection to the client of
\* some surface; focused is that of the one with the focus.
UpdateSelection(c, focused) ==
  /\ c \in devices
  /\ DOMAIN retained # {}
  /\ owns' = TRUE
  /\ offered' = IF c = focused THEN Compositor ELSE offered
  /\ unheard' = (unheard /\ c # focused)
  /\ UNCHANGED <<devices, sourceVars, selection, current, readVars>>
-----------------------------------------------------------------------------
(* Properties.                                                             *)

\* The data device's m_selectionSource is not a source that is gone, and what
\* the manager reads to be retained is the answer of the current selection to
\* the request made last, through a pipe that is not one of those to be
\* drained: whenever the client destroys the source, replaces it, or leaves
\* its pipe open.  (m_dragDataSource is not cleared, and may be one that is
\* gone.)
NoDeadSource ==
  /\ selection # None => Live(selection)
  /\ notifier # None =>
       /\ Live(current) /\ notifier \notin obsolete
       /\ pipe[notifier] # None /\ pipe[notifier].of = <<current, readIndex + 1>>

\* What is retained in place of the current selection is its data, each under
\* its mime type: what a client writes late, for a selection that has been
\* replaced, is never part of it.
RetainedOfCurrent ==
  Retain /\ ~owns /\ current # None =>
    \A m \in DOMAIN retained : retained[m] \subseteq {<<current, m>>}

\* A client that pastes gets the selection: the source offered last to the
\* client of the surface with the focus is the selection of the data device,
\* or gone, unless the selection was set while that client had no wl_keyboard
\* (or no data device), and nobody told it since.
PastesCurrent == ~unheard /\ offered \in Sources /\ Live(offered) => offered = selection
=============================================================================
