-------------------------------- MODULE Mux --------------------------------
(***************************************************************************)
(* What a relay session promises its client, with no channel, task or      *)
(* suspended handler in sight: numbered byte pipes, one per connection.    *)
(* Upward a pipe carries the client's DATA in order until the stream is    *)
(* closed; downward it carries the backend's chunks in order and reports   *)
(* the end once, after the last chunk if the backend ended cleanly.        *)
(*                                                                         *)
(* The promise is stated from the header of src/src/session.rs (lines 3-9) *)
(* and is what Session.tla implements.                                     *)
(***************************************************************************)
EXTENDS Integers, FiniteSets

CONSTANTS Ids, MaxStreams, Pipes

VARIABLES
  open,   \* stream -> its pipe, or 0
  made,   \* number of pipes made
  pipe,   \* the pipes
  over,   \* the session has ended
  gone    \* the client cannot be reached any more

mvars == <<open, made, pipe, over, gone>>

Closed == [i \in Ids |-> 0]
Fresh == [id |-> 0, up |-> 0, peer |-> "open", sent |-> 0, down |-> 0,
          reported |-> FALSE]
Used == {i \in Ids : open[i] # 0}

Init ==
  /\ open = Closed
  /\ made = 0
  /\ pipe = [c \in Pipes |-> Fresh]
  /\ over = FALSE
  /\ gone = FALSE

\* A stream that maps to no connection is given a new one.
Open(i) ==
  /\ ~over
  /\ open[i] = 0
  /\ Cardinality(Used) < MaxStreams
  /\ made' = made + 1
  /\ open' = [open EXCEPT ![i] = made + 1]
  /\ pipe' = [pipe EXCEPT ![made + 1] = [Fresh EXCEPT !.id = i]]
  /\ UNCHANGED <<over, gone>>

\* The next DATA of the stream reaches the backend.
Up(i) ==
  /\ open[i] # 0
  /\ pipe' = [pipe EXCEPT ![open[i]].up = @ + 1]
  /\ UNCHANGED <<open, made, over, gone>>

Close(i) ==
  /\ open[i] # 0
  /\ open' = [open EXCEPT ![i] = 0]
  /\ UNCHANGED <<made, pipe, over, gone>>

\* The session ends once and leaves no stream open.
End ==
  /\ ~over
  /\ over' = TRUE
  /\ open' = Closed
  /\ UNCHANGED <<made, pipe, gone>>

Backend(c) ==
  /\ c <= made
  /\ \/ /\ pipe[c].peer = "open"
        /\ pipe' = [pipe EXCEPT ![c].sent = @ + 1]
     \/ /\ pipe[c].peer = "open"
        /\ pipe' = [pipe EXCEPT ![c].peer = "fin"]
     \/ /\ pipe[c].peer # "reset"
        /\ pipe' = [pipe EXCEPT ![c].peer = "reset"]
  /\ UNCHANGED <<open, made, over, gone>>

\* The next chunk of the backend reaches the client.
Down(c) ==
  /\ ~gone
  /\ ~pipe[c].reported
  /\ pipe[c].down < pipe[c].sent
  /\ pipe' = [pipe EXCEPT ![c].down = @ + 1]
  /\ UNCHANGED <<open, made, over, gone>>

\* The client learns that the backend has ended.
Report(c) ==
  /\ ~gone
  /\ ~pipe[c].reported
  /\ \/ pipe[c].peer = "fin" /\ pipe[c].down = pipe[c].sent
     \/ pipe[c].peer = "reset"
  /\ pipe' = [pipe EXCEPT ![c].reported = TRUE]
  /\ UNCHANGED <<open, made, over, gone>>

Leave ==
  /\ ~gone
  /\ gone' = TRUE
  /\ UNCHANGED <<open, made, pipe, over>>

Next ==
  \/ \E i \in Ids : Open(i) \/ Up(i) \/ Close(i)
  \/ \E c \in Pipes : Backend(c) \/ Down(c) \/ Report(c)
  \/ End
  \/ Leave

Spec == Init /\ [][Next]_mvars

\* Every backend's end is reported to a client that stays.
Reported ==
  \A c \in Pipes : (c <= made /\ pipe[c].peer # "open")
                     ~> (pipe[c].reported \/ gone)
=============================================================================
