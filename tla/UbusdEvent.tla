----------------------------- MODULE UbusdEvent -----------------------------
(***************************************************************************)
(* The daemon's events: patterns, kept in a tree sorted by their text, and *)
(* the search that stops as soon as a pattern has less in common with the  *)
(* event's name than the one before.  Names are sequences of letters, the  *)
(* letters numbers in the order of strcmp.                                 *)
(***************************************************************************)
EXTENDS Integers, Sequences, SequencesExt, FiniteSets

CONSTANTS EvObjects,      \* objects that may register patterns
          EvClient,       \* EvObjects -> their clients
          Keys,           \* texts of patterns, the trailing '*' taken off
          EventNames,     \* names of events
          SystemPrefix,   \* the letters of "ubus."
          MaxPatterns,    \* bound: patterns registered
          MaxEvents       \* bound: events sent

ASSUME EvAssumption == \A text \in Keys \union EventNames : text \in Seq(Int)

VARIABLES patterns,       \* the tree in its order: [obj, key, partial]
          evAlive,        \* objects the daemon has
          eventSeen,      \* obj->event_seen
          objEventSeq,    \* obj_event_seq
          lastEvent       \* the last event: [name, from, to (in order)]

evVars == <<patterns, evAlive, eventSeen, objEventSeq, lastEvent>>

NoClient == "ubusd"       \* the daemon's own events come from no client
NoEvent == [name |-> <<>>, from |-> NoClient, to |-> <<>>]

EvInit ==
  /\ patterns = <<>> /\ evAlive = EvObjects /\ objEventSeq = 1
  /\ eventSeen = [o \in EvObjects |-> 0]
  /\ lastEvent = NoEvent

-----------------------------------------------------------------------------
\* How many letters two texts have in common, and whether they are the same.
MatchLen(s, t) ==
  LET same == {n \in 0..Len(s) : n <= Len(t) /\ \A i \in 1..n : s[i] = t[i]}
  IN  CHOOSE n \in same : \A k \in same : k <= n
strmatch_len(s, t) == [len |-> MatchLen(s, t), full |-> s = t]

\* strcmp(s, t) <= 0
NotAfter(s, t) ==
  LET n == MatchLen(s, t)
  IN  n = Len(s) \/ (n < Len(t) /\ s[n + 1] < t[n + 1])

\* avl_insert with duplicates allowed: after the last entry that is not greater.
Inserted(e) ==
  LET n == Cardinality({i \in DOMAIN patterns : NotAfter(patterns[i].key, e.key)})
  IN  InsertAt(patterns, n + 1, e)

ubusd_alloc_event_pattern(o, k, partial) ==
  /\ o \in evAlive /\ Len(patterns) < MaxPatterns
  /\ patterns' = Inserted([obj |-> o, key |-> k, partial |-> partial])
  /\ UNCHANGED <<evAlive, eventSeen, objEventSeq, lastEvent>>

\* The tree without the patterns of o.
Without(o) ==
  LET upto[n \in 0..Len(patterns)] ==
        IF n = 0 THEN <<>>
        ELSE IF patterns[n].obj = o THEN upto[n - 1] ELSE Append(upto[n - 1], patterns[n])
  IN  upto[Len(patterns)]

\* The object is freed and its patterns with it.
ubusd_event_cleanup_object(o) ==
  /\ o \in evAlive
  /\ evAlive' = evAlive \ {o}
  /\ patterns' = Without(o)
  /\ UNCHANGED <<eventSeen, objEventSeq, lastEvent>>

-----------------------------------------------------------------------------
\* Not back to the sender, and once per object.
ubusd_send_event_msg(s, o, from, seq) ==
  IF EvClient[o] = from \/ s.seen[o] = seq THEN s
  ELSE [s EXCEPT !.seen[o] = seq, !.to = Append(@, o)]

\* Fault: a pattern with nothing more in common ends the search.
Shorter_OrEqual(len, best) == len <= best

Shorter(len, best) == len < best

\* One round of the loop of ubusd_send_event: s is [best, done, seen, to].
Visit(s, e, name, from, seq) ==
  LET m == strmatch_len(name, e.key)
      s1 == [s EXCEPT !.best = m.len]
  IN  CASE s.done -> s
        [] ~s.done /\ Shorter(m.len, s.best) -> [s EXCEPT !.done = TRUE]
        [] OTHER -> IF m.full \/ (e.partial /\ m.len = Len(e.key))
                    THEN ubusd_send_event_msg(s1, e.obj, from, seq) ELSE s1

\* The loop over the tree, from the first pattern on.
Visited(name, from, seq) ==
  LET upto[n \in 0..Len(patterns)] ==
        IF n = 0 THEN [best |-> 0, done |-> FALSE, seen |-> eventSeen, to |-> <<>>]
        ELSE Visit(upto[n - 1], patterns[n], name, from, seq)
  IN  upto[Len(patterns)]

ubusd_send_event(name, from) ==
  LET seq == objEventSeq + 1
      s == Visited(name, from, seq)
  IN  /\ objEventSeq' = seq
      /\ eventSeen' = s.seen
      /\ lastEvent' = [name |-> name, from |-> from, to |-> s.to]
      /\ UNCHANGED <<patterns, evAlive>>

\* A client's event; the names of the daemon's own are refused.
ubusd_forward_event(c, name) ==
  /\ ~IsPrefix(SystemPrefix, name)
  /\ ubusd_send_event(name, c)

\* The daemon's own events, of objects that come and go.
ubusd_send_obj_event(name) ==
  /\ IsPrefix(SystemPrefix, name)
  /\ ubusd_send_event(name, NoClient)

EvSends ==
  /\ objEventSeq <= MaxEvents
  /\ \E name \in EventNames : \/ \E c \in Range(EvClient) : ubusd_forward_event(c, name)
                              \/ ubusd_send_obj_event(name)

EvNext ==
  \/ \E o \in EvObjects, k \in Keys, p \in BOOLEAN : ubusd_alloc_event_pattern(o, k, p)
  \/ \E o \in EvObjects : ubusd_event_cleanup_object(o)
  \/ EvSends

EvSpec == EvInit /\ [][EvNext]_evVars

-----------------------------------------------------------------------------
(* Properties. *)

Wanted(e, name) == e.key = name \/ (e.partial /\ IsPrefix(e.key, name))

\* Stopping early misses nobody: an event reaches every object that has a pattern
\* for it and is not the sender's own, each once, and nobody else; no pattern
\* outlives its object, so it is never sent to one that is gone.
EventReaches ==
  [][lastEvent' # lastEvent =>
       /\ Range(lastEvent'.to) = {o \in evAlive : EvClient[o] # lastEvent'.from
            /\ \E i \in DOMAIN patterns : patterns[i].obj = o /\ Wanted(patterns[i], lastEvent'.name)}
       /\ Len(lastEvent'.to) = Cardinality(Range(lastEvent'.to))]_evVars
=============================================================================
