----------------------------- MODULE Resumption -----------------------------
(***************************************************************************)
(* An EventSource and a server that resumes.  The server, which is no part *)
(* of sseer, keeps a log of events; to a request it answers with those     *)
(* after the one that the last-event-id header names, or with all of them  *)
(* if it names none.  The connection may break between any two lines, and  *)
(* what the server has sent of an event is lost with it.                   *)
(***************************************************************************)
EXTENDS EventSource

CONSTANT Logs    \* the logs the server may have

Entry == [id : Option(Str), data : Str]

\* A field as servers write it, with a space after the colon.
WrittenField(name, value) == name \o <<Colon, Space>> \o value

EntryLines(entry) ==
  (IF entry.id = None THEN <<>> ELSE <<WrittenField(IdName, entry.id)>>)
    \o <<WrittenField(DataName, entry.data), <<>>>>

(***************************************************************************)
(* The server sends UTF-8, no two of its events have the same data, and no *)
(* two of them the same id, but some may have none.                        *)
(***************************************************************************)
ASSUME LogAssumption ==
  /\ Logs \subseteq Seq(Entry)
  /\ \A l \in Logs : \A k \in 1..Len(l) :
       /\ \A j \in 1..Len(EntryLines(l[k])) : EntryLines(l[k])[j] \in Lines
       /\ l[k].id # None => ValidUtf8(l[k].id)
       /\ ValidUtf8(l[k].data)
       /\ \A j \in 1..Len(l) :
            \/ j = k
            \/ l[j].data # l[k].data /\ (l[k].id = None \/ l[j].id # l[k].id)

\* The names of these fields are not empty, and no colon is in them.
ASSUME FieldAssumption ==
  \A name \in {IdName, DataName} :
    name # <<>> /\ \A i \in 1..Len(name) : name[i] # Colon

VARIABLES
  log,       \* the events of the server
  cursor,    \* the one it is sending over the open connection
  part,      \* the line of it that comes next
  seen       \* history: the data of the events handed out

serverVars == <<log, cursor, part, seen>>
allVars == <<vars, serverVars>>

ResumeInit ==
  /\ Init
  /\ log \in Logs
  /\ cursor = 1
  /\ part = 1
  /\ seen = <<>>

-----------------------------------------------------------------------------
\* Where the server goes on for a request with this header, or with none.
After(l, id) ==
  IF id \notin {None, <<>>} /\ \E k \in 1..Len(l) : l[k].id = id
  THEN (CHOOSE k \in 1..Len(l) : l[k].id = id) + 1
  ELSE 1

ServerAnswers ==
  /\ ConnectOk
  /\ cursor' = After(log, sent)
  /\ part' = 1
  /\ UNCHANGED <<log, seen>>

\* The next line of the log, and what the source makes of it.
ServerSends ==
  /\ cursor <= Len(log)
  /\ LET lines == EntryLines(log[cursor])
         item == ParseStep(builder, lines[part]).item
     IN  /\ StreamLine(lines[part])
         /\ IF part < Len(lines)
            THEN part' = part + 1 /\ UNCHANGED cursor
            ELSE part' = 1 /\ cursor' = cursor + 1
         /\ seen' = IF item \in {None, Utf8Error} THEN seen ELSE Append(seen, item.data)
  /\ UNCHANGED log

\* What goes on without the server, or fails on the way to it.
Elsewhere ==
  /\ \/ ConnectBadResponse
     \/ ConnectFails
     \/ PollCompleted
     \/ StreamStops
     \/ DelayFires
     \/ PollClosed
  /\ UNCHANGED serverVars

ResumeNext == ServerAnswers \/ ServerSends \/ Elsewhere

ResumeSpec == ResumeInit /\ [][ResumeNext]_allVars

-----------------------------------------------------------------------------
ResumeTypeOK ==
  /\ TypeOK
  /\ log \in Logs
  /\ cursor \in 1..(Len(log) + 1)
  /\ part \in 1..3
  /\ conn = "Open" /\ cursor <= Len(log) => part <= Len(EntryLines(log[cursor]))
  /\ seen \in Seq(Str)

(***************************************************************************)
(* No event is skipped, whatever its id and however often the connection   *)
(* breaks: an event is handed out only after all before it in the log.     *)
(* The id of an event that was cut off is not sent (reqwest.rs:183), nor   *)
(* one that was never the id of an event.                                  *)
(***************************************************************************)
Seen(k) == \E i \in 1..Len(seen) : seen[i] = log[k].data

NoGap == \A k \in 1..Len(log) : Seen(k) => \A j \in 1..(k - 1) : Seen(j)

(***************************************************************************)
(* Where every event has an id of its own that is not empty and has no NUL *)
(* in it, each is handed out once and in the order of the log, over        *)
(* however many connections (reqwest.rs:116, 151, 183): none is skipped,   *)
(* repeated, or made of two halves.                                        *)
(***************************************************************************)
Identified == \A k \in 1..Len(log) : log[k].id \notin {None, <<>>} /\ ~HasNul(log[k].id)

ExactlyOnce ==
  Identified =>
    Len(seen) <= Len(log) /\ \A i \in 1..Len(seen) : seen[i] = log[i].data
=============================================================================
