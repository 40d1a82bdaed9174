--------------------------- MODULE Backends_proofs ---------------------------
(***************************************************************************)
(* Proofs about the ways to the module: the AT port that many callers      *)
(* share, the received SMS that are read through it, and the MBIM channel. *)
(***************************************************************************)
EXTENDS ATManager, ATMessages, MBIMDevice, ConfigFile, Integers, FiniteSetTheorems, TLAPS

-----------------------------------------------------------------------------
(* The AT manager.                                                         *)

Owned == AllChannels \cup {NoChannel}
RequestsOf(callersOf) == [of : callersOf, chan : Owned]
WireLines == [kind : {"data", "ok", "error", "prompt", "failure"}, of : ATCallers \cup {Lost}]
WireCommands == [of : ATCallers \cup {Lost}, stage : {"run", "end", "cmgs", "editor", "text"}]

ATTypes ==
  /\ callers \in [ATCallers -> {"idle", "send", "wait"}]
  /\ held \in [ATCallers -> Owned]
  /\ \A c \in ATCallers : callers[c] = "idle" <=> held[c] = NoChannel
  /\ \A c \in ATCallers : held[c] \in (IF c \in Texters THEN {c} ELSE Channels) \cup {NoChannel}
  /\ content = [k \in AllChannels |-> content[k]]
  /\ cmdChan \in Seq(RequestsOf(Normal)) /\ cmdChanHigh \in Seq(RequestsOf(Urgent \cup Texters))
  /\ current \in RequestsOf(ATCallers) \cup {NoRequest}
  /\ loop # "busy" => current = NoRequest /\ collected = {}
  /\ rxChan \in Seq(WireLines) /\ module \in Seq(WireCommands)

(* What is on the wire is about the command that runs, or one that is over. *)
AboutCurrent(q, c) == \A n \in DOMAIN q : q[n].of \in {c, Lost}
WireInv ==
  /\ AboutCurrent(rxChan, current.of) /\ AboutCurrent(module, current.of)
  /\ collected \subseteq {current.of, Lost}

(* A channel is in the hands of one caller, in one request until its answer *)
(* is there, and empty in nobody's.                                        *)
Awaited(r) ==
  r.chan # NoChannel => held[r.of] = r.chan /\ callers[r.of] = "wait" /\ content[r.chan] = <<>>
OncePerChannel(q) ==
  \A n, m \in DOMAIN q : q[n].chan = q[m].chan /\ q[n].chan # NoChannel => n = m
ChannelsInv ==
  /\ \A c, d \in ATCallers : held[c] = held[d] /\ held[c] # NoChannel => c = d
  /\ \A k \in AllChannels :
       content[k] # <<>> => \E c \in ATCallers : held[c] = k /\ callers[c] = "wait"
RequestsInv ==
  /\ \A n \in DOMAIN cmdChan : Awaited(cmdChan[n])
  /\ \A n \in DOMAIN cmdChanHigh : Awaited(cmdChanHigh[n])
  /\ Awaited(current)
  /\ OncePerChannel(cmdChan) /\ OncePerChannel(cmdChanHigh)
  /\ current.chan # NoChannel =>
       /\ \A n \in DOMAIN cmdChan : cmdChan[n].chan # current.chan
       /\ \A n \in DOMAIN cmdChanHigh : cmdChanHigh[n].chan # current.chan
Own == \A c \in ATCallers :
  callers[c] = "wait" /\ content[held[c]] # <<>> => content[held[c]][1] \subseteq {c, Lost}

ATInv == stopClosed \/ (ATTypes /\ WireInv /\ ChannelsInv /\ RequestsInv /\ Own)

LEMMA ATInitially == ATInit => ATInv
  BY PoolAssumption DEF ATInit, ATInv, ATTypes, WireInv, ChannelsInv, RequestsInv, Own, Awaited,
     AboutCurrent, OncePerChannel, NoRequest, Owned, ATCallers, AllChannels, Pooled

(* What forgetting does to the requests of a queue.                        *)
LEMMA Forgotten ==
  ASSUME NEW c \in ATCallers, NEW O \in SUBSET ATCallers, NEW q \in Seq(RequestsOf(O))
  PROVE  /\ Forgets(c, q) \in Seq(RequestsOf(O)) /\ DOMAIN Forgets(c, q) = DOMAIN q
         /\ \A n \in DOMAIN q :
              /\ Forgets(c, q)[n].of = q[n].of
              /\ Forgets(c, q)[n].chan = IF c \in Texters /\ q[n].of = c THEN NoChannel ELSE q[n].chan
  <1>1. \A n \in DOMAIN q : q[n] \in RequestsOf(O)
    OBVIOUS
  <1> QED
    BY <1>1 DEF Forgets, OwnsChannels, RequestsOf, Owned

LEMMA CurrentForgotten ==
  ASSUME NEW c \in ATCallers, NEW r \in RequestsOf(ATCallers) \cup {NoRequest}
  PROVE  /\ Forgets(c, <<r>>)[1] \in RequestsOf(ATCallers) \cup {NoRequest}
         /\ r = NoRequest => Forgets(c, <<r>>)[1] = NoRequest
         /\ Forgets(c, <<r>>)[1].of = r.of
         /\ Forgets(c, <<r>>)[1].chan = IF c \in Texters /\ r.of = c THEN NoChannel ELSE r.chan
  BY PoolAssumption DEF Forgets, OwnsChannels, RequestsOf, Owned, NoRequest

(* Once a command is over nothing on the wire is about it.                 *)
LEMMA OrphanedLines ==
  ASSUME NEW q \in Seq(WireLines), NEW c
  PROVE  /\ Orphans(c, q) \in Seq(WireLines)
         /\ AboutCurrent(q, c) => AboutCurrent(Orphans(c, q), Lost)
  <1>1. \A n \in DOMAIN q : q[n] \in WireLines /\ [q[n] EXCEPT !.of = Lost] \in WireLines
    <2>1. ASSUME NEW x \in WireLines PROVE [x EXCEPT !.of = Lost] \in WireLines
      BY DEF WireLines
    <2> QED
      BY <2>1
  <1>2. \A n \in DOMAIN q : Orphans(c, q)[n] \in WireLines
    BY <1>1 DEF Orphans
  <1>3. Orphans(c, q) \in Seq(WireLines)
    BY <1>2 DEF Orphans
  <1>4. \A n \in DOMAIN q : Orphans(c, q)[n].of = IF q[n].of = c THEN Lost ELSE q[n].of
    BY <1>1 DEF Orphans, WireLines
  <1> QED
    BY <1>3, <1>4 DEF Orphans, AboutCurrent

LEMMA OrphanedCommands ==
  ASSUME NEW q \in Seq(WireCommands), NEW c
  PROVE  /\ Orphans(c, q) \in Seq(WireCommands)
         /\ AboutCurrent(q, c) => AboutCurrent(Orphans(c, q), Lost)
  <1>1. \A n \in DOMAIN q : q[n] \in WireCommands /\ [q[n] EXCEPT !.of = Lost] \in WireCommands
    <2>1. ASSUME NEW x \in WireCommands PROVE [x EXCEPT !.of = Lost] \in WireCommands
      BY DEF WireCommands
    <2> QED
      BY <2>1
  <1>2. \A n \in DOMAIN q : Orphans(c, q)[n] \in WireCommands
    BY <1>1 DEF Orphans
  <1>3. Orphans(c, q) \in Seq(WireCommands)
    BY <1>2 DEF Orphans
  <1>4. \A n \in DOMAIN q : Orphans(c, q)[n].of = IF q[n].of = c THEN Lost ELSE q[n].of
    BY <1>1 DEF Orphans, WireCommands
  <1> QED
    BY <1>3, <1>4 DEF Orphans, AboutCurrent

(* A caller that returns gives its channel back, empty, and no request      *)
(* with a channel is left of it.                                           *)
LEMMA ReturnStep ==
  ASSUME ATTypes, WireInv, ChannelsInv, RequestsInv, Own,
         NEW c \in ATCallers, callers[c] # "idle", Return(c),
         c \in Texters \/ callers[c] = "send" \/ content[held[c]] # <<>>
  PROVE  ATTypes' /\ WireInv' /\ ChannelsInv' /\ RequestsInv' /\ Own'
  <1>0. /\ held[c] \in AllChannels /\ held[c] # NoChannel
        /\ callers' = [callers EXCEPT ![c] = "idle"] /\ held' = [held EXCEPT ![c] = NoChannel]
        /\ content' = [content EXCEPT ![held[c]] = <<>>]
        /\ UNCHANGED <<cmdChan, loop, collected, rxChan, module>>
    BY PoolAssumption DEF Return, Move, ATTypes, Owned, wireVars
  <1>1. /\ cmdChanHigh' \in Seq(RequestsOf(Urgent \cup Texters)) /\ DOMAIN cmdChanHigh' = DOMAIN cmdChanHigh
        /\ \A n \in DOMAIN cmdChanHigh :
             /\ cmdChanHigh'[n].of = cmdChanHigh[n].of
             /\ cmdChanHigh'[n].chan = IF c \in Texters /\ cmdChanHigh[n].of = c THEN NoChannel
                                       ELSE cmdChanHigh[n].chan
    <2>1. Urgent \cup Texters \in SUBSET ATCallers
      BY DEF ATCallers, Pooled
    <2>2. cmdChanHigh' = Forgets(c, cmdChanHigh) /\ cmdChanHigh \in Seq(RequestsOf(Urgent \cup Texters))
      BY DEF Return, ATTypes
    <2> QED
      BY <2>1, <2>2, Forgotten
  <1>2. /\ current' \in RequestsOf(ATCallers) \cup {NoRequest}
        /\ current = NoRequest => current' = NoRequest
        /\ current'.of = current.of
        /\ current'.chan = IF c \in Texters /\ current.of = c THEN NoChannel ELSE current.chan
    BY CurrentForgotten DEF Return, ATTypes
  <1>3. ATTypes'
    BY <1>0, <1>1, <1>2, PoolAssumption DEF ATTypes, Owned
  <1>4. WireInv'
    BY <1>0, <1>2 DEF WireInv, AboutCurrent
  <1>5. ChannelsInv'
    BY <1>0 DEF ChannelsInv, ATTypes, Owned
  <1>6. ASSUME NEW r, NEW s, Awaited(r), s.of = r.of, r.of \in ATCallers \/ r = NoRequest, r.chan \in Owned,
               s.chan = IF c \in Texters /\ r.of = c THEN NoChannel ELSE r.chan
        PROVE  s.chan # NoChannel =>
                 held'[s.of] = s.chan /\ callers'[s.of] = "wait" /\ content'[s.chan] = <<>>
    BY <1>0, <1>6 DEF Awaited, ChannelsInv, ATTypes, Owned, NoRequest
  <1>7. RequestsInv'
    <2>1. \A n \in DOMAIN cmdChan' : Awaited(cmdChan[n])'
      <3> SUFFICES ASSUME NEW n \in DOMAIN cmdChan PROVE Awaited(cmdChan[n])'
        BY <1>0
      <3>1. cmdChan[n] \in RequestsOf(Normal)
        BY DEF ATTypes
      <3>2. cmdChan[n].of \in ATCallers /\ cmdChan[n].of \notin Texters /\ cmdChan[n].chan \in Owned
        BY <3>1, PoolAssumption DEF RequestsOf, ATCallers, Pooled
      <3>3. Awaited(cmdChan[n])
        BY DEF RequestsInv
      <3> QED
        BY <1>0, <1>6, <3>2, <3>3 DEF Awaited
    <2>2. \A n \in DOMAIN cmdChanHigh' : Awaited(cmdChanHigh[n])'
      <3> SUFFICES ASSUME NEW n \in DOMAIN cmdChanHigh PROVE Awaited(cmdChanHigh[n])'
        BY <1>1
      <3>1. cmdChanHigh[n] \in RequestsOf(Urgent \cup Texters)
        BY DEF ATTypes
      <3>2. cmdChanHigh[n].of \in ATCallers /\ cmdChanHigh[n].chan \in Owned
        BY <3>1 DEF RequestsOf, ATCallers, Pooled
      <3>3. Awaited(cmdChanHigh[n])
        BY DEF RequestsInv
      <3> QED
        BY <1>1, <1>6, <3>2, <3>3 DEF Awaited
    <2>3. Awaited(current)'
      <3>1. current.of \in ATCallers \/ current = NoRequest
        BY DEF ATTypes, RequestsOf
      <3>2. current.chan \in Owned
        BY DEF ATTypes, RequestsOf, NoRequest, Owned
      <3>3. Awaited(current)
        BY DEF RequestsInv
      <3> QED
        BY <1>2, <1>6, <3>1, <3>2, <3>3 DEF Awaited
    <2>4. OncePerChannel(cmdChan)' /\ OncePerChannel(cmdChanHigh)'
      BY <1>0, <1>1 DEF RequestsInv, OncePerChannel
    <2>5. current'.chan # NoChannel =>
            /\ \A n \in DOMAIN cmdChan' : cmdChan'[n].chan # current'.chan
            /\ \A n \in DOMAIN cmdChanHigh' : cmdChanHigh'[n].chan # current'.chan
      BY <1>0, <1>1, <1>2 DEF RequestsInv
    <2> QED
      BY <2>1, <2>2, <2>3, <2>4, <2>5 DEF RequestsInv
  <1>8. Own'
    <2> SUFFICES ASSUME NEW d \in ATCallers, callers'[d] = "wait", content'[held'[d]] # <<>>
                 PROVE  content'[held'[d]][1] \subseteq {d, Lost}
      BY DEF Own
    <2>1. d # c /\ callers[d] = "wait" /\ held'[d] = held[d] /\ held[d] \in AllChannels
      BY <1>0 DEF ATTypes, Owned
    <2>2. held[d] # held[c]
      BY <1>0, <2>1 DEF ChannelsInv
    <2>3. content'[held[d]] = content[held[d]]
      BY <1>0, <2>1, <2>2 DEF ATTypes
    <2> QED
      BY <2>1, <2>3 DEF Own
  <1> QED
    BY <1>3, <1>4, <1>5, <1>7, <1>8


LEMMA ChannelOfRequest ==
  ASSUME NEW O, NEW q \in Seq(RequestsOf(O)), NEW n \in DOMAIN q
  PROVE  q[n].of \in O /\ q[n].chan \in AllChannels \cup {NoChannel}
  <1>1. q[n] \in RequestsOf(O)
    OBVIOUS
  <1> QED
    BY <1>1 DEF RequestsOf, Owned

(* The first request of a queue leaves it.                                 *)
LEMMA FirstLeaves ==
  ASSUME NEW O \in SUBSET ATCallers, NEW q \in Seq(RequestsOf(O)), q # <<>>, OncePerChannel(q)
  PROVE  /\ Head(q) \in RequestsOf(O) /\ 1 \in DOMAIN q /\ Head(q) = q[1]
         /\ Tail(q) \in Seq(RequestsOf(O)) /\ OncePerChannel(Tail(q))
         /\ \A n \in DOMAIN Tail(q) :
              /\ Tail(q)[n] = q[n + 1] /\ n + 1 \in DOMAIN q
              /\ Head(q).chan # NoChannel => Tail(q)[n].chan # Head(q).chan
  BY DEF OncePerChannel

(* The loop takes a request and begins with it, or refuses it when the port *)
(* is broken.                                                              *)
LEMMA BeginStep ==
  ASSUME ATTypes, WireInv, ChannelsInv, RequestsInv, Own, ~stopClosed, loop # "busy",
         NEW r \in RequestsOf(ATCallers), Awaited(r), Begins(r),
         UNCHANGED <<callers, held, collected, rxChan>>,
         cmdChan' \in Seq(RequestsOf(Normal)), cmdChanHigh' \in Seq(RequestsOf(Urgent \cup Texters)),
         \A n \in DOMAIN cmdChan' : Awaited(cmdChan'[n]),
         \A n \in DOMAIN cmdChanHigh' : Awaited(cmdChanHigh'[n]),
         OncePerChannel(cmdChan'), OncePerChannel(cmdChanHigh'),
         r.chan # NoChannel =>
           /\ \A n \in DOMAIN cmdChan' : cmdChan'[n].chan # r.chan
           /\ \A n \in DOMAIN cmdChanHigh' : cmdChanHigh'[n].chan # r.chan
  PROVE  ATTypes' /\ WireInv' /\ ChannelsInv' /\ RequestsInv' /\ Own'
  <1>0. current = NoRequest /\ collected = {} /\ r.of \in ATCallers /\ r.chan \in Owned
    BY DEF ATTypes, RequestsOf
  <1>1. CASE atPort = "broken"
    <2>0. /\ content' = IF r.chan = NoChannel THEN content ELSE [content EXCEPT ![r.chan] = <<{}>>]
          /\ loop' = "look" /\ UNCHANGED <<current, module>>
      BY <1>1 DEF Begins
    <2>1. ATTypes'
      BY <1>0, <2>0 DEF ATTypes, Owned
    <2>2. WireInv'
      BY <2>0 DEF WireInv, AboutCurrent
    <2>3. ChannelsInv'
      BY <1>0, <2>0 DEF ChannelsInv, ATTypes, Awaited, Owned
    <2>4. \A k \in AllChannels : k # r.chan => content'[k] = content[k]
      BY <2>0 DEF ATTypes
    <2>5. /\ \A n \in DOMAIN cmdChan' : Awaited(cmdChan[n])'
          /\ \A n \in DOMAIN cmdChanHigh' : Awaited(cmdChanHigh[n])'
      <3>1. /\ \A n \in DOMAIN cmdChan' : cmdChan'[n].chan \in AllChannels \cup {NoChannel}
            /\ \A n \in DOMAIN cmdChanHigh' : cmdChanHigh'[n].chan \in AllChannels \cup {NoChannel}
        BY ChannelOfRequest
      <3> QED
        BY <2>0, <2>4, <3>1 DEF Awaited
    <2>6. RequestsInv'
      BY <1>0, <2>0, <2>5 DEF RequestsInv, Awaited, NoRequest
    <2>7. Own'
      BY <1>0, <2>0 DEF Own, ATTypes, Owned
    <2> QED
      BY <2>1, <2>2, <2>3, <2>6, <2>7
  <1>2. CASE atPort # "broken"
    <2>0. /\ loop' = "busy" /\ current' = r /\ UNCHANGED content
          /\ \/ UNCHANGED module
             \/ \E stage \in {"cmgs", "run"} : module' = Append(module, [of |-> r.of, stage |-> stage])
      BY <1>2 DEF Begins
    <2>1. module' \in Seq(WireCommands) /\ AboutCurrent(module', r.of)
      <3>1. module \in Seq(WireCommands) /\ \A n \in DOMAIN module : module[n].of = Lost
        BY <1>0 DEF ATTypes, WireInv, AboutCurrent, NoRequest
      <3>2. ASSUME NEW stage \in {"cmgs", "run"} PROVE [of |-> r.of, stage |-> stage] \in WireCommands
        BY <1>0 DEF WireCommands
      <3>3. ASSUME NEW x \in WireCommands, x.of = r.of, module' = Append(module, x)
            PROVE  module' \in Seq(WireCommands) /\ AboutCurrent(module', r.of)
        BY <3>1, <3>3 DEF AboutCurrent
      <3>4. UNCHANGED module => module' \in Seq(WireCommands) /\ AboutCurrent(module', r.of)
        BY <3>1 DEF AboutCurrent
      <3> QED
        BY <2>0, <3>2, <3>3, <3>4
    <2>2. ATTypes'
      BY <1>0, <2>0, <2>1 DEF ATTypes
    <2>3. WireInv'
      BY <1>0, <2>0, <2>1 DEF WireInv, AboutCurrent, NoRequest
    <2>4. ChannelsInv' /\ Own'
      BY <2>0 DEF ChannelsInv, Own
    <2>5. RequestsInv'
      BY <2>0 DEF RequestsInv, Awaited, OncePerChannel
    <2> QED
      BY <2>2, <2>3, <2>4, <2>5
  <1> QED
    BY <1>1, <1>2

(* A command is over: its answer goes to its channel.                      *)
LEMMA OverStep ==
  ASSUME ATTypes, WireInv, ChannelsInv, RequestsInv, Own,
         NEW a \in SUBSET {current.of, Lost}, Answer(a),
         NEW lines \in Seq(WireLines), AboutCurrent(lines, current.of),
         NEW commands \in Seq(WireCommands), AboutCurrent(commands, current.of),
         Over(lines, commands), UNCHANGED <<callers, held, cmdChan, cmdChanHigh>>
  PROVE  ATTypes' /\ WireInv' /\ ChannelsInv' /\ RequestsInv' /\ Own'
  <1>0. /\ current.chan \in Owned /\ (current.chan # NoChannel => current.of \in ATCallers)
        /\ Awaited(current)
    BY DEF ATTypes, RequestsInv, RequestsOf, NoRequest, Owned
  <1>1. /\ rxChan' \in Seq(WireLines) /\ AboutCurrent(rxChan', Lost)
        /\ module' \in Seq(WireCommands) /\ AboutCurrent(module', Lost)
        /\ loop' = "look" /\ current' = NoRequest /\ collected' = {}
    BY OrphanedLines, OrphanedCommands DEF Over
  <1>2. content' = IF current.chan = NoChannel THEN content ELSE [content EXCEPT ![current.chan] = <<a>>]
    BY DEF Answer
  <1>3. ATTypes'
    BY <1>0, <1>1, <1>2 DEF ATTypes, Owned
  <1>4. WireInv'
    BY <1>1 DEF WireInv, NoRequest
  <1>5. ChannelsInv'
    BY <1>0, <1>2 DEF ChannelsInv, ATTypes, Awaited, Owned
  <1>6. RequestsInv'
    <2>1. \A k \in AllChannels : k # current.chan => content'[k] = content[k]
      BY <1>2 DEF ATTypes
    <2>2. /\ \A n \in DOMAIN cmdChan : cmdChan[n].chan \in AllChannels \cup {NoChannel}
          /\ \A n \in DOMAIN cmdChanHigh : cmdChanHigh[n].chan \in AllChannels \cup {NoChannel}
      BY ChannelOfRequest DEF ATTypes
    <2> QED
      BY <1>1, <1>2, <2>1, <2>2 DEF RequestsInv, Awaited, OncePerChannel, NoRequest
  <1>7. Own'
    <2> SUFFICES ASSUME NEW d \in ATCallers, callers[d] = "wait", content'[held[d]] # <<>>
                 PROVE  content'[held[d]][1] \subseteq {d, Lost}
      BY DEF Own
    <2>1. held[d] \in AllChannels
      BY DEF ATTypes, Owned
    <2>2. CASE held[d] = current.chan
      <3>1. d = current.of
        BY <1>0, <2>1, <2>2, PoolAssumption DEF Awaited, ChannelsInv
      <3>2. content'[held[d]] = <<a>>
        BY <1>2, <2>1, <2>2, PoolAssumption DEF ATTypes
      <3> QED
        BY <3>1, <3>2
    <2>3. CASE held[d] # current.chan
      BY <1>2, <2>1, <2>3 DEF ATTypes, Own
    <2> QED
      BY <2>2, <2>3
  <1> QED
    BY <1>3, <1>4, <1>5, <1>6, <1>7


(* Lines and commands come and go at the ends of their queues.             *)
LEMMA WireMoves ==
  ASSUME NEW T, NEW q \in Seq(T), NEW c, AboutCurrent(q, c)
  PROVE  /\ q # <<>> => /\ Tail(q) \in Seq(T) /\ AboutCurrent(Tail(q), c)
                        /\ Head(q) \in T /\ Head(q).of \in {c, Lost}
         /\ \A x \in T : x.of \in {c, Lost} => Append(q, x) \in Seq(T) /\ AboutCurrent(Append(q, x), c)
  <1>1. ASSUME q # <<>>
        PROVE  Tail(q) \in Seq(T) /\ Head(q) \in T /\ Head(q) = q[1] /\ 1 \in DOMAIN q
               /\ \A n \in DOMAIN Tail(q) : Tail(q)[n] = q[n + 1] /\ n + 1 \in DOMAIN q
    BY <1>1
  <1>2. ASSUME NEW x \in T
        PROVE  Append(q, x) \in Seq(T)
               /\ \A n \in DOMAIN Append(q, x) :
                    (n \in DOMAIN q /\ Append(q, x)[n] = q[n]) \/ Append(q, x)[n] = x
    BY <1>2
  <1>3. q # <<>> => AboutCurrent(Tail(q), c) /\ Head(q).of \in {c, Lost}
    BY <1>1 DEF AboutCurrent
  <1>4. ASSUME NEW x \in T, x.of \in {c, Lost} PROVE AboutCurrent(Append(q, x), c)
    BY <1>2, <1>4 DEF AboutCurrent
  <1> QED
    BY <1>1, <1>2, <1>3, <1>4

(* Where only the wire moves, what is on it stays about the command.       *)
LEMMA WireStep ==
  ASSUME ATTypes, WireInv, ChannelsInv, RequestsInv, Own,
         UNCHANGED <<callers, held, content, cmdChan, cmdChanHigh, current>>,
         rxChan' \in Seq(WireLines), AboutCurrent(rxChan', current.of),
         module' \in Seq(WireCommands), AboutCurrent(module', current.of),
         loop' = loop \/ (loop # "busy" /\ loop' # "busy"),
         collected' \subseteq {current.of, Lost}, loop' # "busy" => collected' = {}
  PROVE  ATTypes' /\ WireInv' /\ ChannelsInv' /\ RequestsInv' /\ Own'
  <1>1. ATTypes' /\ WireInv'
    BY DEF ATTypes, WireInv
  <1>2. ChannelsInv' /\ Own'
    BY DEF ChannelsInv, Own
  <1>3. RequestsInv'
    BY DEF RequestsInv, Awaited, OncePerChannel
  <1> QED
    BY <1>1, <1>2, <1>3

LEMMA ATModuleStep ==
  ASSUME ATTypes, WireInv, ChannelsInv, RequestsInv, Own,
         ModuleAnswers \/ ModuleKeepsSilent \/ StrangeNotice \/ LosePort \/ ReaderEnds
  PROVE  ATTypes' /\ WireInv' /\ ChannelsInv' /\ RequestsInv' /\ Own'
  <1>0. /\ UNCHANGED <<callers, held, content, cmdChan, cmdChanHigh, current, loop, collected>>
    BY DEF ModuleAnswers, ModuleKeepsSilent, StrangeNotice, LosePort, ReaderEnds, Emits,
       HostOnly, callerVars
  <1>1. rxChan \in Seq(WireLines) /\ module \in Seq(WireCommands)
        /\ AboutCurrent(rxChan, current.of) /\ AboutCurrent(module, current.of)
    BY DEF ATTypes, WireInv
  <1>2. ASSUME NEW kind \in {"data", "ok", "error", "prompt", "failure"}, NEW c \in {current.of, Lost}
        PROVE  /\ Append(rxChan, Line(kind, c)) \in Seq(WireLines)
               /\ AboutCurrent(Append(rxChan, Line(kind, c)), current.of)
    <2>1. Line(kind, c) \in WireLines /\ Line(kind, c).of \in {current.of, Lost}
      BY DEF Line, WireLines, ATTypes, RequestsOf, NoRequest
    <2> QED
      BY <1>1, <2>1, WireMoves
  <1>3. ASSUME module # <<>>
        PROVE  /\ Tail(module) \in Seq(WireCommands) /\ AboutCurrent(Tail(module), current.of)
               /\ Head(module).of \in {current.of, Lost}
               /\ \A stage \in {"end", "editor"} :
                    /\ [module EXCEPT ![1].stage = stage] \in Seq(WireCommands)
                    /\ AboutCurrent([module EXCEPT ![1].stage = stage], current.of)
    <2>1. /\ Tail(module) \in Seq(WireCommands) /\ AboutCurrent(Tail(module), current.of)
          /\ Head(module).of \in {current.of, Lost}
      BY <1>1, <1>3, WireMoves
    <2>2. ASSUME NEW stage \in {"end", "editor"}
          PROVE  /\ [module EXCEPT ![1].stage = stage] \in Seq(WireCommands)
                 /\ AboutCurrent([module EXCEPT ![1].stage = stage], current.of)
      <3>1. PICK x \in WireCommands : x = module[1]
        BY <1>1, <1>3
      <3>2. [x EXCEPT !.stage = stage] \in WireCommands /\ [x EXCEPT !.stage = stage].of = x.of
        BY DEF WireCommands
      <3>3. PICK y \in WireCommands : y = [x EXCEPT !.stage = stage] /\ y.of = x.of
        BY <3>2
      <3>4. [module EXCEPT ![1].stage = stage] = [module EXCEPT ![1] = y]
        BY <3>1, <3>3
      <3>5. [module EXCEPT ![1] = y] \in Seq(WireCommands)
            /\ \A n \in DOMAIN module : [module EXCEPT ![1] = y][n].of = module[n].of
        BY <1>1, <1>3, <3>1, <3>3
      <3>6. DOMAIN [module EXCEPT ![1] = y] = DOMAIN module
        OBVIOUS
      <3> QED
        BY <1>1, <3>4, <3>5, <3>6 DEF AboutCurrent
    <2> QED
      BY <2>1, <2>2
  <1>4. /\ rxChan' \in Seq(WireLines) /\ AboutCurrent(rxChan', current.of)
        /\ module' \in Seq(WireCommands) /\ AboutCurrent(module', current.of)
    <2>1. CASE ModuleAnswers
      BY <2>1, <1>1, <1>2, <1>3 DEF ModuleAnswers, Emits
    <2>2. CASE ModuleKeepsSilent
      BY <2>2, <1>1, <1>3 DEF ModuleKeepsSilent
    <2>3. CASE StrangeNotice
      BY <2>3, <1>1, <1>2 DEF StrangeNotice, Emits
    <2>4. CASE LosePort
      BY <2>4, <1>1 DEF LosePort, AboutCurrent
    <2>5. CASE ReaderEnds
      BY <2>5, <1>1, <1>2 DEF ReaderEnds
    <2> QED
      BY <2>1, <2>2, <2>3, <2>4, <2>5
  <1>5. collected' \subseteq {current.of, Lost} /\ (loop' # "busy" => collected' = {})
    BY <1>0 DEF WireInv, ATTypes
  <1> QED
    BY <1>0, <1>4, <1>5, WireStep

LEMMA ATStep == ATInv /\ [ATNext]_atVars => ATInv'
  <1> SUFFICES ASSUME ~stopClosed, ATTypes, WireInv, ChannelsInv, RequestsInv, Own, [ATNext]_atVars
               PROVE  stopClosed' \/ (ATTypes' /\ WireInv' /\ ChannelsInv' /\ RequestsInv' /\ Own')
    <2>1. stopClosed /\ [ATNext]_atVars => stopClosed'
      BY DEF ATNext, atVars, Stop, ClosesStop, StopEnds, Loops, LookAgain, LoopEnds, TakeHigh,
         TakeNormal,
         IdleLine, Begins, Condemned, lifeVars, Handles, CommandLine, CommandEnds, WriteText, CommandFails,
         CommandTimesOut, ModuleAnswers, ModuleKeepsSilent, StrangeNotice, LosePort, ReaderEnds, Emits,
         HostOnly, Call, Waits, Enqueue, Receive, QueueFull, ReturnStopped, SendTimesOut, Return
    <2> QED
      BY <2>1 DEF ATInv
  <1>0. /\ rxChan \in Seq(WireLines) /\ AboutCurrent(rxChan, current.of)
        /\ module \in Seq(WireCommands) /\ AboutCurrent(module, current.of)
    BY DEF ATTypes, WireInv
  <1>1. ASSUME UNCHANGED <<callers, held, content, cmdChan, cmdChanHigh, loop, current, collected,
                           rxChan, module>>
        PROVE  ATTypes' /\ WireInv' /\ ChannelsInv' /\ RequestsInv' /\ Own'
    BY <1>0, <1>1, WireStep DEF WireInv, ATTypes
  <1>2. CASE UNCHANGED atVars
    BY <1>1, <1>2 DEF atVars
  <1>3. CASE Stop \/ LoopEnds
    BY <1>3 DEF Stop, ClosesStop, LoopEnds
  <1>4. CASE StopEnds
    BY <1>4 DEF StopEnds
  <1>5. CASE LookAgain
    <2>1. UNCHANGED <<callers, held, content, cmdChan, cmdChanHigh, current, collected, rxChan, module>>
          /\ loop # "busy" /\ loop' # "busy"
      BY <1>5 DEF LookAgain, callerVars, wireVars
    <2> QED
      BY <1>0, <2>1, WireStep DEF WireInv, ATTypes
  <1>6. CASE TakeHigh
    <2>1. /\ cmdChanHigh \in Seq(RequestsOf(Urgent \cup Texters)) /\ OncePerChannel(cmdChanHigh)
          /\ cmdChanHigh # <<>> /\ cmdChanHigh' = Tail(cmdChanHigh) /\ Begins(Head(cmdChanHigh))
          /\ loop # "busy" /\ UNCHANGED <<callers, held, collected, rxChan, cmdChan>>
          /\ Urgent \cup Texters \in SUBSET ATCallers
      BY <1>6 DEF TakeHigh, ATTypes, RequestsInv, callerVars, ATCallers, Pooled
    <2>2. PICK r : r = Head(cmdChanHigh)
      OBVIOUS
    <2>3. /\ r \in RequestsOf(Urgent \cup Texters) /\ 1 \in DOMAIN cmdChanHigh /\ r = cmdChanHigh[1]
          /\ cmdChanHigh' \in Seq(RequestsOf(Urgent \cup Texters)) /\ OncePerChannel(cmdChanHigh')
          /\ \A n \in DOMAIN cmdChanHigh' :
               /\ cmdChanHigh'[n] = cmdChanHigh[n + 1] /\ n + 1 \in DOMAIN cmdChanHigh
               /\ r.chan # NoChannel => cmdChanHigh'[n].chan # r.chan
      BY <2>1, <2>2, FirstLeaves
    <2>4. r \in RequestsOf(ATCallers) /\ Awaited(r) /\ r.of \in Urgent \cup Texters
      BY <2>1, <2>3 DEF RequestsInv, RequestsOf
    <2>5. \A n \in DOMAIN cmdChanHigh' : Awaited(cmdChanHigh'[n])
      BY <2>3 DEF RequestsInv
    <2>6. ASSUME NEW n \in DOMAIN cmdChan, r.chan # NoChannel PROVE cmdChan[n].chan # r.chan
      <3>1. cmdChan[n].of \in Normal /\ Awaited(cmdChan[n])
        BY ChannelOfRequest DEF ATTypes, RequestsInv
      <3>2. cmdChan[n].of \in ATCallers /\ cmdChan[n].of # r.of
        BY <3>1, <2>4, PoolAssumption DEF ATCallers, Pooled
      <3> QED
        BY <2>1, <2>4, <2>6, <3>1, <3>2 DEF Awaited, ChannelsInv
    <2>7. cmdChan \in Seq(RequestsOf(Normal)) /\ OncePerChannel(cmdChan)
          /\ \A n \in DOMAIN cmdChan : Awaited(cmdChan[n])
      BY DEF ATTypes, RequestsInv
    <2> HIDE DEF TakeHigh
    <2> QED
      BY <2>1, <2>2, <2>3, <2>4, <2>5, <2>6, <2>7, BeginStep
  <1>7. CASE TakeNormal
    <2>1. /\ cmdChan \in Seq(RequestsOf(Normal)) /\ OncePerChannel(cmdChan)
          /\ cmdChan # <<>> /\ cmdChan' = Tail(cmdChan) /\ Begins(Head(cmdChan))
          /\ loop # "busy" /\ UNCHANGED <<callers, held, collected, rxChan, cmdChanHigh>>
          /\ Normal \in SUBSET ATCallers
      BY <1>7 DEF TakeNormal, ATTypes, RequestsInv, callerVars, ATCallers, Pooled
    <2>2. PICK r : r = Head(cmdChan)
      OBVIOUS
    <2>3. /\ r \in RequestsOf(Normal) /\ 1 \in DOMAIN cmdChan /\ r = cmdChan[1]
          /\ cmdChan' \in Seq(RequestsOf(Normal)) /\ OncePerChannel(cmdChan')
          /\ \A n \in DOMAIN cmdChan' :
               /\ cmdChan'[n] = cmdChan[n + 1] /\ n + 1 \in DOMAIN cmdChan
               /\ r.chan # NoChannel => cmdChan'[n].chan # r.chan
      BY <2>1, <2>2, FirstLeaves
    <2>4. r \in RequestsOf(ATCallers) /\ Awaited(r) /\ r.of \in Normal
      BY <2>1, <2>3 DEF RequestsInv, RequestsOf
    <2>5. \A n \in DOMAIN cmdChan' : Awaited(cmdChan'[n])
      BY <2>3 DEF RequestsInv
    <2>6. ASSUME NEW n \in DOMAIN cmdChanHigh, r.chan # NoChannel PROVE cmdChanHigh[n].chan # r.chan
      <3>1. cmdChanHigh[n].of \in Urgent \cup Texters /\ Awaited(cmdChanHigh[n])
        BY ChannelOfRequest DEF ATTypes, RequestsInv
      <3>2. cmdChanHigh[n].of \in ATCallers /\ cmdChanHigh[n].of # r.of /\ r.of \in ATCallers
        BY <3>1, <2>4, PoolAssumption DEF ATCallers, Pooled
      <3> QED
        BY <2>4, <2>6, <3>1, <3>2 DEF Awaited, ChannelsInv
    <2>7. cmdChanHigh \in Seq(RequestsOf(Urgent \cup Texters)) /\ OncePerChannel(cmdChanHigh)
          /\ \A n \in DOMAIN cmdChanHigh : Awaited(cmdChanHigh[n])
      BY DEF ATTypes, RequestsInv
    <2> QED
      BY <2>1, <2>2, <2>3, <2>4, <2>5, <2>6, <2>7, BeginStep
  <1>8. CASE IdleLine
    <2>1. /\ UNCHANGED <<callers, held, content, cmdChan, cmdChanHigh, current, collected, module>>
          /\ loop # "busy" /\ loop' # "busy" /\ rxChan # <<>> /\ rxChan' = Tail(rxChan)
      BY <1>8 DEF IdleLine, callerVars
    <2>2. rxChan' \in Seq(WireLines) /\ AboutCurrent(rxChan', current.of)
      BY <1>0, <2>1, WireMoves
    <2> QED
      BY <1>0, <2>1, <2>2, WireStep DEF WireInv, ATTypes
  <1>9. CASE CommandLine
    <2>1. /\ UNCHANGED <<callers, held, content, cmdChan, cmdChanHigh, current, loop, module>>
          /\ loop = "busy" /\ rxChan # <<>> /\ rxChan' = Tail(rxChan)
          /\ collected' = collected \cup {Head(rxChan).of}
      BY <1>9 DEF CommandLine, callerVars
    <2>2. rxChan' \in Seq(WireLines) /\ AboutCurrent(rxChan', current.of)
          /\ Head(rxChan).of \in {current.of, Lost}
      BY <1>0, <2>1, WireMoves
    <2> QED
      BY <1>0, <2>1, <2>2, WireStep DEF WireInv
  <1>10. CASE CommandEnds
    <2>1. PICK a : a = IF Head(rxChan).kind = "error" THEN {} ELSE collected \cup {Head(rxChan).of}
      OBVIOUS
    <2>2. /\ rxChan # <<>> /\ Answer(a) /\ Over(Tail(rxChan), module)
          /\ UNCHANGED <<callers, held, cmdChan, cmdChanHigh>>
      BY <1>10, <2>1 DEF CommandEnds, callerVars
    <2>3. Tail(rxChan) \in Seq(WireLines) /\ AboutCurrent(Tail(rxChan), current.of)
          /\ Head(rxChan).of \in {current.of, Lost}
      BY <1>0, <2>2, WireMoves
    <2>4. a \in SUBSET {current.of, Lost}
      BY <2>1, <2>3 DEF WireInv
    <2> QED
      BY <1>0, <2>2, <2>3, <2>4, OverStep
  <1>11. CASE WriteText
    <2>1. /\ UNCHANGED <<callers, held, content, cmdChan, cmdChanHigh, current, loop, collected>>
          /\ rxChan # <<>> /\ rxChan' = Tail(rxChan)
          /\ module' = [n \in DOMAIN module |->
                          IF module[n].stage = "editor" THEN [module[n] EXCEPT !.stage = "text"]
                          ELSE module[n]]
      BY <1>11 DEF WriteText, callerVars
    <2>2. rxChan' \in Seq(WireLines) /\ AboutCurrent(rxChan', current.of)
      BY <1>0, <2>1, WireMoves
    <2>3. ASSUME NEW x \in WireCommands
          PROVE  [x EXCEPT !.stage = "text"] \in WireCommands /\ [x EXCEPT !.stage = "text"].of = x.of
      BY DEF WireCommands
    <2>4. \A n \in DOMAIN module : module'[n] \in WireCommands /\ module'[n].of = module[n].of
      BY <1>0, <2>1, <2>3
    <2>5. module' \in Seq(WireCommands) /\ DOMAIN module' = DOMAIN module
      BY <1>0, <2>1, <2>4
    <2>6. AboutCurrent(module', current.of)
      BY <1>0, <2>4, <2>5 DEF AboutCurrent
    <2> QED
      BY <1>0, <2>1, <2>2, <2>5, <2>6, WireStep DEF WireInv, ATTypes
  <1>12. CASE CommandFails
    <2>1. /\ rxChan # <<>> /\ Answer({}) /\ Over(Tail(rxChan), module)
          /\ UNCHANGED <<callers, held, cmdChan, cmdChanHigh>>
      BY <1>12 DEF CommandFails, callerVars
    <2>2. Tail(rxChan) \in Seq(WireLines) /\ AboutCurrent(Tail(rxChan), current.of)
      BY <1>0, <2>1, WireMoves
    <2> QED
      BY <1>0, <2>1, <2>2, OverStep
  <1>13. CASE CommandTimesOut
    <2>1. PICK q : q = IF module # <<>> /\ Head(module).stage = "editor" THEN Tail(module) ELSE module
      OBVIOUS
    <2>2. Answer({}) /\ Over(rxChan, q) /\ UNCHANGED <<callers, held, cmdChan, cmdChanHigh>>
      BY <1>13, <2>1 DEF CommandTimesOut, callerVars
    <2>3. q \in Seq(WireCommands) /\ AboutCurrent(q, current.of)
      BY <1>0, <2>1, WireMoves
    <2> QED
      BY <1>0, <2>2, <2>3, OverStep
  <1>14. CASE ModuleAnswers \/ ModuleKeepsSilent \/ StrangeNotice \/ LosePort \/ ReaderEnds
    BY <1>14, ATModuleStep
  <1>15. ASSUME NEW c \in ATCallers, Call(c)
         PROVE  ATTypes' /\ WireInv' /\ ChannelsInv' /\ RequestsInv' /\ Own'
    <2>0. PICK k \in IF c \in Texters THEN {c} ELSE {k \in Channels : \A d \in ATCallers : held[d] # k} :
            held' = [held EXCEPT ![c] = k]
      BY <1>15 DEF Call, OwnsChannels
    <2>1. /\ callers[c] = "idle" /\ callers' = [callers EXCEPT ![c] = "send"]
          /\ held[c] = NoChannel /\ k \in AllChannels /\ k # NoChannel
          /\ UNCHANGED <<content, cmdChan, cmdChanHigh, loop, current, collected, rxChan, module>>
      BY <1>15, <2>0, PoolAssumption DEF Call, Move, ATTypes, AllChannels, wireVars
    <2>2. \A d \in ATCallers : held[d] # k
      BY <2>0, <2>1, PoolAssumption DEF ATTypes, AllChannels
    <2>3. ATTypes'
      BY <2>0, <2>1, PoolAssumption DEF ATTypes, Owned
    <2>4. WireInv'
      BY <2>1 DEF WireInv
    <2>5. ChannelsInv'
      BY <2>0, <2>1, <2>2 DEF ChannelsInv, ATTypes
    <2>6. ASSUME NEW r, r.of \in ATCallers \/ r = NoRequest, Awaited(r), r.chan # NoChannel
          PROVE  held'[r.of] = r.chan /\ callers'[r.of] = "wait" /\ content'[r.chan] = <<>>
      BY <2>0, <2>1, <2>6 DEF Awaited, ATTypes, NoRequest
    <2>7. /\ \A n \in DOMAIN cmdChan : cmdChan[n].of \in ATCallers
          /\ \A n \in DOMAIN cmdChanHigh : cmdChanHigh[n].of \in ATCallers
          /\ current.of \in ATCallers \/ current = NoRequest
      <3>1. /\ \A n \in DOMAIN cmdChan : cmdChan[n].of \in Normal
            /\ \A n \in DOMAIN cmdChanHigh : cmdChanHigh[n].of \in Urgent \cup Texters
        BY ChannelOfRequest DEF ATTypes
      <3>2. current.of \in ATCallers \/ current = NoRequest
        BY DEF ATTypes, RequestsOf
      <3> QED
        BY <3>1, <3>2 DEF ATCallers, Pooled
    <2>8. RequestsInv'
      BY <2>1, <2>6, <2>7 DEF RequestsInv, Awaited, OncePerChannel
    <2>9. Own'
      BY <2>0, <2>1 DEF Own, ATTypes
    <2> QED
      BY <2>3, <2>4, <2>5, <2>8, <2>9
  <1>16. ASSUME NEW c \in ATCallers, Enqueue(c)
         PROVE  ATTypes' /\ WireInv' /\ ChannelsInv' /\ RequestsInv' /\ Own'
    <2>0. /\ callers[c] = "send" /\ callers' = [callers EXCEPT ![c] = "wait"]
          /\ UNCHANGED <<held, content, loop, current, collected, rxChan, module>>
          /\ held[c] \in AllChannels /\ held[c] # NoChannel /\ content[held[c]] = <<>>
      BY <1>16, PoolAssumption DEF Enqueue, Move, wireVars, ATTypes, Owned, ChannelsInv
    <2>1. PICK r : r = Request(c)
      OBVIOUS
    <2>2. r.of = c /\ r.chan = held[c] /\ \A O : c \in O => r \in RequestsOf(O)
      BY <2>0, <2>1 DEF Request, RequestsOf, Owned
    <2>3. \/ c \in Normal /\ cmdChan' = Append(cmdChan, r) /\ UNCHANGED cmdChanHigh
          \/ c \in Urgent \cup Texters /\ cmdChanHigh' = Append(cmdChanHigh, r) /\ UNCHANGED cmdChan
      BY <1>16, <2>1 DEF Enqueue, ATCallers, Pooled
    <2>4. /\ cmdChan \in Seq(RequestsOf(Normal)) /\ cmdChanHigh \in Seq(RequestsOf(Urgent \cup Texters))
          /\ cmdChan' \in Seq(RequestsOf(Normal)) /\ cmdChanHigh' \in Seq(RequestsOf(Urgent \cup Texters))
          /\ \A n \in DOMAIN cmdChan' : (n \in DOMAIN cmdChan /\ cmdChan'[n] = cmdChan[n])
                                         \/ (n = Len(cmdChan) + 1 /\ cmdChan'[n] = r)
          /\ \A n \in DOMAIN cmdChanHigh' : (n \in DOMAIN cmdChanHigh /\ cmdChanHigh'[n] = cmdChanHigh[n])
                                             \/ (n = Len(cmdChanHigh) + 1 /\ cmdChanHigh'[n] = r)
      <3>1. cmdChan \in Seq(RequestsOf(Normal)) /\ cmdChanHigh \in Seq(RequestsOf(Urgent \cup Texters))
        BY DEF ATTypes
      <3>2. ASSUME NEW O, c \in O, NEW q \in Seq(RequestsOf(O))
            PROVE  /\ Append(q, r) \in Seq(RequestsOf(O))
                   /\ \A n \in DOMAIN Append(q, r) : (n \in DOMAIN q /\ Append(q, r)[n] = q[n])
                                                     \/ (n = Len(q) + 1 /\ Append(q, r)[n] = r)
        <4>1. r \in RequestsOf(O)
          BY <2>2, <3>2
        <4> QED
          BY <3>2, <4>1
      <3> QED
        BY <2>3, <3>1, <3>2
    <2>5. ATTypes'
      BY <2>0, <2>4 DEF ATTypes
    <2>6. WireInv' /\ ChannelsInv' /\ Own'
      BY <2>0 DEF WireInv, ChannelsInv, Own, ATTypes
    <2>7. ASSUME NEW x, x.of \in ATCallers \/ x = NoRequest, Awaited(x), x.chan # NoChannel
          PROVE  /\ held'[x.of] = x.chan /\ callers'[x.of] = "wait" /\ content'[x.chan] = <<>>
                 /\ x.chan # r.chan
      BY <2>0, <2>2, <2>7 DEF Awaited, ATTypes, NoRequest, ChannelsInv
    <2>8. /\ \A n \in DOMAIN cmdChan : cmdChan[n].of \in ATCallers
          /\ \A n \in DOMAIN cmdChanHigh : cmdChanHigh[n].of \in ATCallers
          /\ current.of \in ATCallers \/ current = NoRequest
      <3>1. /\ \A n \in DOMAIN cmdChan : cmdChan[n].of \in Normal
            /\ \A n \in DOMAIN cmdChanHigh : cmdChanHigh[n].of \in Urgent \cup Texters
        BY ChannelOfRequest DEF ATTypes
      <3>2. current.of \in ATCallers \/ current = NoRequest
        BY DEF ATTypes, RequestsOf
      <3> QED
        BY <3>1, <3>2 DEF ATCallers, Pooled
    <2>9. held'[r.of] = r.chan /\ callers'[r.of] = "wait" /\ content'[r.chan] = <<>>
      BY <2>0, <2>2 DEF ATTypes
    <2>10. /\ \A n \in DOMAIN cmdChan' : Awaited(cmdChan[n])'
           /\ \A n \in DOMAIN cmdChanHigh' : Awaited(cmdChanHigh[n])'
           /\ Awaited(current)'
      BY <2>0, <2>4, <2>7, <2>8, <2>9 DEF RequestsInv, Awaited
    <2>11. OncePerChannel(cmdChan)' /\ OncePerChannel(cmdChanHigh)'
      BY <2>4, <2>7, <2>8 DEF RequestsInv, OncePerChannel
    <2>12. current'.chan # NoChannel =>
             /\ \A n \in DOMAIN cmdChan' : cmdChan'[n].chan # current'.chan
             /\ \A n \in DOMAIN cmdChanHigh' : cmdChanHigh'[n].chan # current'.chan
      BY <2>0, <2>4, <2>7, <2>8 DEF RequestsInv
    <2> QED
      BY <2>5, <2>6, <2>10, <2>11, <2>12 DEF RequestsInv
  <1>17. ASSUME NEW c \in ATCallers, Receive(c) \/ QueueFull(c) \/ ReturnStopped(c) \/ SendTimesOut(c)
         PROVE  ATTypes' /\ WireInv' /\ ChannelsInv' /\ RequestsInv' /\ Own'
    <2>1. /\ callers[c] # "idle" /\ Return(c)
          /\ c \in Texters \/ callers[c] = "send" \/ content[held[c]] # <<>>
      BY <1>17 DEF Receive, QueueFull, ReturnStopped, SendTimesOut
    <2> QED
      BY <2>1, ReturnStep
  <1> QED
    BY <1>1, <1>2, <1>3, <1>4, <1>5, <1>6, <1>7, <1>8, <1>9, <1>10, <1>11, <1>12, <1>13, <1>14,
       <1>15,
       <1>16, <1>17 DEF ATNext, Loops, Handles, Waits


(* Late lines, lost ports and reused requests give no caller the answer of  *)
(* a command that another one waits for, until the manager is stopped, for *)
(* any number of callers, channels and commands on their way (executeAT,   *)
(* handleCommand, reqPool).                                                *)
THEOREM AnswersStayOwn == ATSpec => []AnswersAreOwn
  <1>1. ATInv => AnswersAreOwn
    BY DEF ATInv, Own, AnswersAreOwn
  <1> QED
    BY <1>1, ATInitially, ATStep, PTL DEF ATSpec

-----------------------------------------------------------------------------
(* Reading received SMS.                                                   *)

UnderWay(a) == place[a] \in {"select", "read", "delete", "restore", "clear"}

MessagesTypes ==
  /\ MessagesTypeOK
  /\ \A a \in Actors : place[a] \in {"query", "select", "read", "delete", "restore"} => a \in Received
  /\ \A a \in Actors : place[a] = "clear" => a \in Sweepers

(* One that is alone finds at its deletion what it has read.               *)
Separate ==
  /\ deletedUnread = {}
  /\ \A a, b \in Actors : UnderWay(a) /\ UnderWay(b) => a = b
  /\ \A m \in Received : place[m] = "delete" => mem[atStorage][slot[m]] \in read
  /\ \A w \in Sweepers : place[w] = "clear" =>
       \A i \in Indices : mem[atStorage][i] \in read \cup {NoMessage}

MessagesInv == MessagesTypes /\ (~overlapped => Separate)

LEMMA MessagesInitially == MessagesInit => MessagesInv
  <1> SUFFICES ASSUME MessagesInit PROVE MessagesInv
    OBVIOUS
  <1>1. ASSUME NEW m \in Received PROVE 1 \in Indices
    <2>1. Cardinality(Received) \in Nat /\ Cardinality(Received) # 0
      BY ArrivingAssumption, FS_CardinalityType, FS_EmptySet
    <2> QED
      BY <2>1 DEF Indices
  <1>2. MessagesTypes
    BY <1>1 DEF MessagesInit, MessagesTypes, MessagesTypeOK, Actors
  <1>3. Separate
    BY <1>2 DEF MessagesInit, Separate, UnderWay, Actors
  <1> QED
    BY <1>2, <1>3 DEF MessagesInv

LEMMA MessagesStep == MessagesInv /\ [MessagesNext]_messageVars => MessagesInv'
  <1> SUFFICES ASSUME MessagesInv, [MessagesNext]_messageVars PROVE MessagesInv'
    OBVIOUS
  <1> USE ArrivingAssumption DEF Proceeds, Works, Fails, MessagesTypeOK, Actors
  <1>1. ASSUME NEW m \in Received, Deposit(m) PROVE MessagesInv'
    <2>0. PICK i \in Indices :
            /\ mem[Arriving[m]][i] = NoMessage
            /\ mem' = [mem EXCEPT ![Arriving[m]][i] = m] /\ slot' = [slot EXCEPT ![m] = i]
      BY <1>1 DEF Deposit
    <2>1. MessagesTypes'
      BY <1>1, <2>0 DEF Deposit, MessagesInv, MessagesTypes
    <2>2. ASSUME ~overlapped' PROVE Separate'
      <3>1. /\ Separate /\ UNCHANGED <<atStorage, deletedUnread, read>>
            /\ place[m] = "away" /\ place' = [place EXCEPT ![m] = "query"]
            /\ \A w \in Sweepers : place[w] # "clear"
        BY <1>1, <2>2 DEF Deposit, MessagesInv
      <3>2. \A a, b \in Actors : UnderWay(a)' /\ UnderWay(b)' => a = b
        BY <3>1 DEF MessagesInv, MessagesTypes, Separate, UnderWay
      <3>3. \A q \in Received : place'[q] = "delete" => mem'[atStorage'][slot'[q]] \in read'
        <4> SUFFICES ASSUME NEW q \in Received, place'[q] = "delete"
                     PROVE  mem'[atStorage'][slot'[q]] \in read'
          OBVIOUS
        <4>1. q # m /\ place[q] = "delete" /\ mem[atStorage][slot[q]] \in read /\ slot'[q] = slot[q]
          BY <3>1, <2>0 DEF MessagesInv, MessagesTypes, Separate
        <4>2. mem[atStorage][slot[q]] # NoMessage
          BY <4>1 DEF MessagesInv, MessagesTypes
        <4>3. mem'[atStorage][slot[q]] = mem[atStorage][slot[q]]
          BY <2>0, <4>2 DEF MessagesInv, MessagesTypes
        <4> QED
          BY <3>1, <4>1, <4>3
      <3>4. \A w \in Sweepers : place'[w] # "clear"
        BY <3>1 DEF MessagesInv, MessagesTypes
      <3> QED
        BY <3>1, <3>2, <3>3, <3>4 DEF Separate
    <2> QED
      BY <2>1, <2>2 DEF MessagesInv
  <1>2. ASSUME NEW m \in Received, Query(m) PROVE MessagesInv'
    <2>1. MessagesTypes'
      BY <1>2 DEF Query, MessagesInv, MessagesTypes
    <2>2. ASSUME ~overlapped' PROVE Separate'
      BY <1>2, <2>2 DEF Query, OpensWith, MessagesInv, MessagesTypes, Separate, UnderWay
    <2> QED
      BY <2>1, <2>2 DEF MessagesInv
  <1>3. ASSUME NEW m \in Received, Select(m) PROVE MessagesInv'
    <2>1. MessagesTypes'
      BY <1>3 DEF Select, MessagesInv, MessagesTypes
    <2>2. ASSUME ~overlapped' PROVE Separate'
      BY <1>3, <2>2 DEF Select, MessagesInv, MessagesTypes, Separate, UnderWay
    <2> QED
      BY <2>1, <2>2 DEF MessagesInv
  <1>4. ASSUME NEW m \in Received, ReadStored(m) PROVE MessagesInv'
    <2>1. MessagesTypes'
      BY <1>4 DEF ReadStored, Decodes, MessagesInv, MessagesTypes
    <2>2. ASSUME ~overlapped' PROVE Separate'
      BY <1>4, <2>2 DEF ReadStored, Decodes, MessagesInv, MessagesTypes, Separate, UnderWay
    <2> QED
      BY <2>1, <2>2 DEF MessagesInv
  <1>5. ASSUME NEW m \in Received, Delete(m) PROVE MessagesInv'
    <2>1. MessagesTypes'
      BY <1>5 DEF Delete, Deletes, MessagesInv, MessagesTypes
    <2>2. ASSUME ~overlapped' PROVE Separate'
      BY <1>5, <2>2 DEF Delete, Deletes, MessagesInv, MessagesTypes, Separate, UnderWay
    <2> QED
      BY <2>1, <2>2 DEF MessagesInv
  <1>6. ASSUME NEW m \in Received, Restore(m) PROVE MessagesInv'
    <2>1. MessagesTypes'
      BY <1>6 DEF Restore, MessagesInv, MessagesTypes
    <2>2. ASSUME ~overlapped' PROVE Separate'
      BY <1>6, <2>2 DEF Restore, MessagesInv, MessagesTypes, Separate, UnderWay
    <2> QED
      BY <2>1, <2>2 DEF MessagesInv
  <1>7. ASSUME NEW w \in Sweepers, Sweep(w) PROVE MessagesInv'
    <2>1. MessagesTypes'
      BY <1>7 DEF Sweep, Stored, Decodes, MessagesInv, MessagesTypes
    <2>2. ASSUME ~overlapped' PROVE Separate'
      <3>1. Separate /\ \A b \in Actors \ {w} : ~UnderWay(b)
        BY <1>7, <2>2 DEF Sweep, OpensWith, MessagesInv, UnderWay
      <3>2. \A b \in Actors \ {w} : place'[b] = place[b] /\ ~UnderWay(b)'
        BY <1>7, <3>1 DEF Sweep, MessagesInv, MessagesTypes, UnderWay
      <3>3. place'[w] \in {"clear", "done"} /\ UNCHANGED <<mem, atStorage, slot, deletedUnread>>
        BY <1>7 DEF Sweep, MessagesInv, MessagesTypes
      <3>4. place'[w] = "clear" => Stored(atStorage) \subseteq read'
        BY <1>7 DEF Sweep, Decodes, MessagesInv, MessagesTypes
      <3>5. \A m \in Received : place'[m] # "delete"
        BY <3>2, <3>3 DEF UnderWay
      <3>6. \A x \in Sweepers : place'[x] = "clear" =>
              \A i \in Indices : mem'[atStorage'][i] \in read' \cup {NoMessage}
        <4> SUFFICES ASSUME NEW x \in Sweepers, place'[x] = "clear", NEW i \in Indices
                     PROVE  mem[atStorage][i] \in read' \cup {NoMessage}
          BY <3>3
        <4>1. x = w
          BY <3>2 DEF UnderWay
        <4> QED
          BY <4>1, <3>4 DEF Stored
      <3> QED
        BY <3>1, <3>2, <3>3, <3>5, <3>6 DEF Separate
    <2> QED
      BY <2>1, <2>2 DEF MessagesInv
  <1>8. ASSUME NEW w \in Sweepers, Clear(w) PROVE MessagesInv'
    <2>1. MessagesTypes'
      BY <1>8 DEF Clear, Deletes, MessagesInv, MessagesTypes
    <2>2. ASSUME ~overlapped' PROVE Separate'
      BY <1>8, <2>2 DEF Clear, Deletes, MessagesInv, MessagesTypes, Separate, UnderWay
    <2> QED
      BY <2>1, <2>2 DEF MessagesInv
  <1>9. CASE CleanupOldFragments
    BY <1>9 DEF CleanupOldFragments, MessagesInv, MessagesTypes, Separate, UnderWay
  <1>10. CASE UNCHANGED messageVars
    BY <1>10 DEF messageVars, MessagesInv, MessagesTypes, Separate, UnderWay
  <1> QED
    BY <1>1, <1>2, <1>3, <1>4, <1>5, <1>6, <1>7, <1>8, <1>9, <1>10 DEF MessagesNext

(* Readers that do not overlap delete only what has been read, for any      *)
(* number of messages, memories, sweeps and failing commands               *)
(* (readAndProcessSMSFromStorage, switchSMSStorageForRead, CheckAllSMS).   *)
THEOREM SeparateReaders == MessagesSpec => []SeparateReadsLoseNothing
  <1>1. MessagesInv => SeparateReadsLoseNothing
    BY DEF MessagesInv, Separate, SeparateReadsLoseNothing
  <1> QED
    BY <1>1, MessagesInitially, MessagesStep, PTL DEF MessagesSpec

-----------------------------------------------------------------------------
(* The MBIM channel.                                                       *)

Whats == {"nothing", "command", "config", "open"}
LineParts(total) ==
  [type : {"command", "indicate"}, tx : Nat, of : Nat, current : Nat, total : {total}, short : BOOLEAN]
LineMessages == LineParts(AnswerPieces) \cup [type : {"done"}, tx : Nat, kind : {"opened", "refused"}]
MBIMRequests == [MBIMUsers -> [what : Whats, step : {"idle", "lock", "send", "wait", "done"}, tx : Nat, sent : Nat]]
Started == {c \in MBIMCallers : request[c] # Resting}

CallTypes ==
  /\ nextTx \in Nat /\ pending \subseteq 1 .. nextTx
  /\ request \in MBIMRequests
  /\ mbimTold = [c \in MBIMUsers |-> mbimTold[c]]
  /\ resultOf = [tx \in Transactions |-> resultOf[tx]]
  /\ opened \in {"no", "busy", "yes", "failed"} /\ deviceClosed \in BOOLEAN
  /\ opened = "no" => readLoop = "none"
LineTypes ==
  /\ accepted \in [Transactions -> Whats]
  /\ collector = [tx \in Transactions \cup {0} |-> collector[tx]]
  /\ \A tx \in Transactions \cup {0} : collector[tx] \in Seq(LineParts(AnswerPieces)) /\ Len(collector[tx]) < AnswerPieces
  /\ line \in Seq(LineMessages) /\ version \in Nat
  /\ indicationQueue \in Seq(Seq(LineParts(AnswerPieces)))

(* Each number is used once, and there are enough.                         *)
NumbersInv ==
  /\ nextTx <= Cardinality(Started) + (IF opened = "no" THEN 0
                                       ELSE IF request[Opener].what = "config" THEN 1 ELSE 2)
                 + (IF deviceClosed THEN 1 ELSE 0)
  /\ \A c \in MBIMUsers : IF request[c].step = "idle" THEN request[c] = Resting
                          ELSE request[c].tx \in 1 .. nextTx
  /\ \A c, d \in MBIMUsers : request[c].tx = request[d].tx /\ request[c].tx # 0 => c = d

(* Only Open writes until it has succeeded, and then who has the mutex.    *)
WritersInv ==
  /\ request[Opener].what # "command"
  /\ request[Opener].step \in {"lock", "send", "wait"} => opened = "busy"
  /\ \A c \in MBIMUsers : request[c].step = "lock" \/ (c = Opener /\ request[c].step = "send") =>
       request[c].sent = 0
  /\ \A c \in MBIMCallers :
       /\ request[c] # Resting => opened = "yes"
       /\ request[c].step = "send" =>
            /\ writeMu = c
            /\ request[c].sent > 0 => assembling = [tx |-> request[c].tx, next |-> request[c].sent]
  /\ ~garbled

(* A number has one answer, in fragments that are all of one kind.         *)
AnswerTo(tx, short) == Fragments("command", tx, tx, short)
Answering(tx, short) ==
  /\ \A n \in DOMAIN line : line[n].type = "command" /\ line[n].tx = tx =>
       \E i \in 1 .. AnswerPieces : line[n] = AnswerTo(tx, short)[i]
  /\ \A i \in DOMAIN collector[tx] : collector[tx][i] = AnswerTo(tx, short)[i]
Quiet(tx) == collector[tx] = <<>> /\ \A n \in DOMAIN line : line[n].tx # tx
Unwritten(tx) == tx > nextTx \/ \E c \in MBIMUsers : request[c].tx = tx /\ request[c].step \in {"lock", "send"}
AnswersInv ==
  /\ \A tx \in Transactions :
       /\ \E short \in BOOLEAN : Answering(tx, short)
       /\ Unwritten(tx) => accepted[tx] = "nothing" /\ Quiet(tx)
       /\ accepted[tx] # "nothing" => Quiet(tx)

(* What is handed over is the answer, whole.                               *)
IsWhole(what, tx) == what.kind = "answer" => what.pieces = WholeAnswer(tx)
ResultsInv ==
  /\ \A tx \in Transactions :
       resultOf[tx] # <<>> => /\ tx \notin pending /\ tx <= nextTx
                              /\ Len(resultOf[tx]) = 1 /\ IsWhole(resultOf[tx][1], tx)
  /\ \A c \in MBIMCallers : IF request[c] = Resting THEN mbimTold[c] = NoAnswer
                            ELSE IsWhole(mbimTold[c], request[c].tx)

(* The indications are on the line in order and without a gap, except for  *)
(* what the collector has and repetitions of what it has completed.        *)
Notice(of, i) == Fragments("indicate", 0, of, FALSE)[i]
NoticesOn(l) == {n \in DOMAIN l : l[n].type = "indicate"}
MayCome(m, last) ==
  /\ m.tx = 0 <=> m.type = "indicate"
  /\ m.type = "indicate" => m.of \in 1 .. last /\ m.current < AnswerPieces /\ m = Notice(m.of, m.current + 1)
AreNotices(l, last) == \A n \in DOMAIN l : MayCome(l[n], last)
Precedes(m, n) == m.of = n.of /\ n.current = m.current + 1
NoticesInOrder(l) ==
  \A i, j \in NoticesOn(l) : i < j =>
    l[i].of < l[j].of \/ (l[i].of = l[j].of /\ l[i].current <= l[j].current)
Grounded(l, got) ==
  \A j \in NoticesOn(l) : l[j].current > 0 =>
    \/ \E i \in NoticesOn(l) : i < j /\ Precedes(l[i], l[j])
    \/ got # <<>> /\ got[1].of = l[j].of
    \/ /\ got = <<>> /\ l[j].current = AnswerPieces - 1
       /\ \A i \in NoticesOn(l) : i < j => l[i].of = l[j].of /\ l[i].current = l[j].current
NoticesGoOn(l) ==
  \A j \in NoticesOn(l) : l[j].current < AnswerPieces - 1 =>
    \E k \in NoticesOn(l) : j < k /\ Precedes(l[j], l[k])
Collects(l, got) ==
  /\ \A n \in DOMAIN got : got[n].of = got[1].of
  /\ got # <<>> =>
       /\ \A j \in NoticesOn(l) : l[j].of >= got[1].of
       /\ \E j \in NoticesOn(l) : l[j].of = got[1].of /\ l[j].current = Len(got)
Stream(l, got) == NoticesInOrder(l) /\ Grounded(l, got) /\ NoticesGoOn(l) /\ Collects(l, got)
StreamInv == readLoop # "ended" /\ ~indicationLost => Stream(line, collector[0])
ShownInv ==
  ~indicationLost => ~Mixed(snapshot) /\ \A n \in DOMAIN indicationQueue : ~Mixed(indicationQueue[n])

MBIMInv ==
  /\ CallTypes /\ LineTypes /\ NumbersInv /\ WritersInv /\ AnswersInv /\ ResultsInv
  /\ AreNotices(line, version) /\ StreamInv
  /\ ShownInv

(* What a fragment is.                                                     *)
LEMMA AFragment ==
  ASSUME NEW type \in {"command", "indicate"}, NEW tx \in Nat, NEW of \in Nat, NEW short \in BOOLEAN
  PROVE  LET F == Fragments(type, tx, of, short)
         IN  /\ F \in Seq(LineMessages) /\ Len(F) = AnswerPieces /\ DOMAIN F = 1 .. AnswerPieces
             /\ \A i \in 1 .. AnswerPieces :
                  /\ F[i].type = type /\ F[i].tx = tx /\ F[i].of = of /\ F[i].short = short
                  /\ F[i].current = i - 1 /\ F[i].total = AnswerPieces
  <1> DEFINE F == Fragments(type, tx, of, short)
  <1>1. AnswerPieces \in Nat
    BY MBIMAssumption
  <1>2. ASSUME NEW i \in 1 .. AnswerPieces
        PROVE  /\ F[i] = [type |-> type, tx |-> tx, of |-> of, current |-> i - 1,
                          total |-> AnswerPieces, short |-> short]
               /\ F[i] \in LineMessages
    <2>1. F[i] = [type |-> type, tx |-> tx, of |-> of, current |-> i - 1,
                  total |-> AnswerPieces, short |-> short]
      BY <1>2 DEF Fragments
    <2>2. i - 1 \in Nat
      BY <1>1, <1>2
    <2> QED
      BY <2>1, <2>2 DEF LineMessages, LineParts
  <1>3. F = [i \in 1 .. AnswerPieces |-> F[i]]
    BY DEF Fragments
  <1> HIDE DEF F
  <1>4. F \in Seq(LineMessages) /\ Len(F) = AnswerPieces /\ DOMAIN F = 1 .. AnswerPieces
    <2>1. F \in [1 .. AnswerPieces -> LineMessages]
      BY <1>2, <1>3
    <2> QED
      BY <1>1, <2>1
  <1> QED
    BY <1>2, <1>4 DEF F

(* The first and the other messages of the line.                           *)
LEMMA TailOf ==
  ASSUME NEW S, NEW l \in Seq(S), l # <<>>
  PROVE  /\ Head(l) = l[1] /\ 1 \in DOMAIN l /\ l[1] \in S /\ Tail(l) \in Seq(S)
         /\ Len(l) \in Nat /\ Len(l) > 0 /\ DOMAIN l = 1 .. Len(l)
         /\ Len(Tail(l)) = Len(l) - 1 /\ DOMAIN Tail(l) = 1 .. Len(l) - 1
         /\ \A n \in DOMAIN Tail(l) : n + 1 \in DOMAIN l /\ Tail(l)[n] = l[n + 1]
         /\ \A n \in DOMAIN l : n > 1 => n - 1 \in DOMAIN Tail(l) /\ Tail(l)[n - 1] = l[n]
  OBVIOUS

LEMMA TwiceOf ==
  ASSUME NEW S, NEW l \in Seq(S), l # <<>>
  PROVE  LET d == <<Head(l)>> \o l
         IN  /\ d \in Seq(S) /\ Len(d) = Len(l) + 1 /\ DOMAIN d = 1 .. Len(l) + 1 /\ d[1] = l[1]
             /\ \A n \in DOMAIN l : n + 1 \in DOMAIN d /\ d[n + 1] = l[n]
             /\ \A n \in DOMAIN d : n > 1 => n - 1 \in DOMAIN l /\ d[n] = l[n - 1]
  OBVIOUS

LEMMA JoinOf ==
  ASSUME NEW S, NEW l \in Seq(S), NEW f \in Seq(S)
  PROVE  LET j == l \o f
         IN  /\ j \in Seq(S) /\ Len(j) = Len(l) + Len(f)
             /\ \A n \in DOMAIN l : n \in DOMAIN j /\ j[n] = l[n]
             /\ \A n \in DOMAIN f : Len(l) + n \in DOMAIN j /\ j[Len(l) + n] = f[n]
             /\ \A n \in DOMAIN j : n \in DOMAIN l \/ (n - Len(l) \in DOMAIN f /\ j[n] = f[n - Len(l)])
  OBVIOUS

-----------------------------------------------------------------------------
(* What moves on the line keeps the indications in order.                  *)

LEMMA NoticesOfTail ==
  ASSUME NEW l \in Seq(LineMessages), l # <<>>
  PROVE  /\ \A n \in NoticesOn(Tail(l)) : n \in Nat /\ n + 1 \in NoticesOn(l) /\ Tail(l)[n] = l[n + 1]
         /\ \A n \in NoticesOn(l) : n > 1 => n - 1 \in NoticesOn(Tail(l)) /\ Tail(l)[n - 1] = l[n]
         /\ \A n \in NoticesOn(l) : n \in Nat /\ n > 0
  BY TailOf DEF NoticesOn

LEMMA OrderOfTail ==
  ASSUME NEW l \in Seq(LineMessages), l # <<>>, NoticesInOrder(l)
  PROVE  NoticesInOrder(Tail(l))
  <1> DEFINE t == Tail(l)
  <1> SUFFICES ASSUME NEW i \in NoticesOn(t), NEW j \in NoticesOn(t), i < j
               PROVE  t[i].of < t[j].of \/ (t[i].of = t[j].of /\ t[i].current <= t[j].current)
    BY DEF NoticesInOrder
  <1>1. /\ i \in Nat /\ i + 1 \in NoticesOn(l) /\ t[i] = l[i + 1]
        /\ j \in Nat /\ j + 1 \in NoticesOn(l) /\ t[j] = l[j + 1]
    BY NoticesOfTail
  <1> HIDE DEF t
  <1>2. i + 1 < j + 1
    BY <1>1
  <1> QED
    BY <1>1, <1>2 DEF NoticesInOrder

LEMMA StreamSkips ==
  ASSUME NEW l \in Seq(LineMessages), l # <<>>, Head(l).type # "indicate", NEW got, Stream(l, got)
  PROVE  Stream(Tail(l), got)
  <1> DEFINE t == Tail(l)
  <1>1. /\ \A n \in NoticesOn(t) : n \in Nat /\ n + 1 \in NoticesOn(l) /\ t[n] = l[n + 1]
        /\ \A n \in NoticesOn(l) : n \in Nat /\ n - 1 \in Nat /\ n - 1 \in NoticesOn(t) /\ t[n - 1] = l[n]
    <2>1. 1 \notin NoticesOn(l)
      BY TailOf DEF NoticesOn
    <2>2. /\ \A n \in NoticesOn(t) : n \in Nat /\ n + 1 \in NoticesOn(l) /\ t[n] = l[n + 1]
          /\ \A n \in NoticesOn(l) : n > 1 => n - 1 \in NoticesOn(t) /\ t[n - 1] = l[n]
          /\ \A n \in NoticesOn(l) : n \in Nat /\ n > 0
      BY NoticesOfTail
    <2> HIDE DEF t
    <2>3. ASSUME NEW n \in NoticesOn(l) PROVE n \in Nat /\ n > 1 /\ n - 1 \in Nat
      BY <2>1, <2>2
    <2> QED
      BY <2>2, <2>3
  <1> HIDE DEF t
  <1>2. NoticesInOrder(t)
    BY OrderOfTail DEF Stream, t
  <1>3. Grounded(t, got)
    <2> SUFFICES ASSUME NEW j \in NoticesOn(t), t[j].current > 0
                 PROVE  \/ \E i \in NoticesOn(t) : i < j /\ Precedes(t[i], t[j])
                        \/ got # <<>> /\ got[1].of = t[j].of
                        \/ /\ got = <<>> /\ t[j].current = AnswerPieces - 1
                           /\ \A i \in NoticesOn(t) : i < j => t[i].of = t[j].of /\ t[i].current = t[j].current
      BY DEF Grounded
    <2>1. j + 1 \in NoticesOn(l) /\ t[j] = l[j + 1] /\ j \in Nat
      BY <1>1
    <2>2. CASE \E i \in NoticesOn(l) : i < j + 1 /\ Precedes(l[i], l[j + 1])
      BY <1>1, <2>1, <2>2
    <2>3. CASE got # <<>> /\ got[1].of = l[j + 1].of
      BY <2>1, <2>3
    <2>4. CASE /\ got = <<>> /\ l[j + 1].current = AnswerPieces - 1
               /\ \A i \in NoticesOn(l) : i < j + 1 =>
                    l[i].of = l[j + 1].of /\ l[i].current = l[j + 1].current
      BY <1>1, <2>1, <2>4
    <2> QED
      BY <2>1, <2>2, <2>3, <2>4 DEF Stream, Grounded
  <1>4. NoticesGoOn(t)
    BY <1>1 DEF Stream, NoticesGoOn
  <1>5. Collects(t, got)
    BY <1>1 DEF Stream, Collects
  <1> QED
    BY <1>2, <1>3, <1>4, <1>5 DEF Stream, t

LEMMA StreamRepeats ==
  ASSUME NEW l \in Seq(LineMessages), l # <<>>, NEW got, Stream(l, got),
         \A n \in NoticesOn(l) : l[n].of \in Nat /\ l[n].current \in Nat
  PROVE  Stream(<<Head(l)>> \o l, got)
  <1> DEFINE d == <<Head(l)>> \o l
  <1>1. /\ \A n \in NoticesOn(l) : n \in Nat /\ n > 0 /\ n + 1 \in NoticesOn(d) /\ d[n + 1] = l[n]
        /\ \A n \in NoticesOn(d) : n \in Nat /\ n > 0
        /\ \A n \in NoticesOn(d) : n > 1 => n - 1 \in NoticesOn(l) /\ d[n] = l[n - 1]
        /\ 1 \in NoticesOn(d) => 1 \in NoticesOn(l)
        /\ d[1] = l[1]
    BY TwiceOf, TailOf DEF NoticesOn
  <1> HIDE DEF d
  <1>2. PICK at \in [NoticesOn(d) -> NoticesOn(l)] :
          \A n \in NoticesOn(d) : d[n] = l[at[n]] /\ at[n] = IF n = 1 THEN 1 ELSE n - 1
    <2> DEFINE h == [n \in NoticesOn(d) |-> IF n = 1 THEN 1 ELSE n - 1]
    <2>1. \A n \in NoticesOn(d) : h[n] \in NoticesOn(l) /\ d[n] = l[h[n]]
      BY <1>1
    <2>2. h \in [NoticesOn(d) -> NoticesOn(l)]
      BY <2>1
    <2>3. \A n \in NoticesOn(d) : h[n] = IF n = 1 THEN 1 ELSE n - 1
      OBVIOUS
    <2> HIDE DEF h
    <2> QED
      BY <2>1, <2>2, <2>3
  <1>3. NoticesInOrder(d)
    <2> SUFFICES ASSUME NEW i \in NoticesOn(d), NEW j \in NoticesOn(d), i < j
                 PROVE  d[i].of < d[j].of \/ (d[i].of = d[j].of /\ d[i].current <= d[j].current)
      BY DEF NoticesInOrder
    <2>1. at[i] \in NoticesOn(l) /\ at[j] \in NoticesOn(l) /\ (at[i] < at[j] \/ at[i] = at[j])
          /\ d[i] = l[at[i]] /\ d[j] = l[at[j]]
      <3>1. i \in Nat /\ j \in Nat /\ i > 0 /\ j > 0
        BY <1>1
      <3>2. at[i] = (IF i = 1 THEN 1 ELSE i - 1) /\ at[j] = (IF j = 1 THEN 1 ELSE j - 1)
            /\ at[i] \in NoticesOn(l) /\ d[i] = l[at[i]] /\ at[j] \in NoticesOn(l) /\ d[j] = l[at[j]]
        BY <1>2
      <3> QED
        BY <3>1, <3>2
    <2>2. CASE at[i] < at[j]
      BY <2>1, <2>2 DEF Stream, NoticesInOrder
    <2>3. CASE at[i] = at[j]
      BY <2>1, <2>3
    <2> QED
      BY <2>1, <2>2, <2>3
  <1>4. Grounded(d, got)
    <2> SUFFICES ASSUME NEW j \in NoticesOn(d), d[j].current > 0
                 PROVE  \/ \E i \in NoticesOn(d) : i < j /\ Precedes(d[i], d[j])
                        \/ got # <<>> /\ got[1].of = d[j].of
                        \/ /\ got = <<>> /\ d[j].current = AnswerPieces - 1
                           /\ \A i \in NoticesOn(d) : i < j => d[i].of = d[j].of /\ d[i].current = d[j].current
      BY DEF Grounded
    <2>1. at[j] \in NoticesOn(l) /\ d[j] = l[at[j]] /\ j \in Nat
      BY <1>1, <1>2
    <2>2. CASE \E i \in NoticesOn(l) : i < at[j] /\ Precedes(l[i], l[at[j]])
      <3>1. PICK i \in NoticesOn(l) : i < at[j] /\ Precedes(l[i], l[at[j]])
        BY <2>2
      <3>2. i + 1 \in NoticesOn(d) /\ d[i + 1] = l[i] /\ i + 1 < j
        <4>1. i \in Nat /\ i > 0 /\ i + 1 \in NoticesOn(d) /\ d[i + 1] = l[i] /\ j > 0
          BY <1>1
        <4>2. at[j] = (IF j = 1 THEN 1 ELSE j - 1)
          BY <1>2
        <4> QED
          BY <2>1, <3>1, <4>1, <4>2
      <3> QED
        BY <2>1, <3>1, <3>2
    <2>3. CASE got # <<>> /\ got[1].of = l[at[j]].of
      BY <2>1, <2>3
    <2>4. CASE /\ got = <<>> /\ l[at[j]].current = AnswerPieces - 1
               /\ \A i \in NoticesOn(l) : i < at[j] =>
                    l[i].of = l[at[j]].of /\ l[i].current = l[at[j]].current
      <3>1. ASSUME NEW i \in NoticesOn(d), i < j PROVE d[i].of = d[j].of /\ d[i].current = d[j].current
        <4>1. i \in Nat /\ j \in Nat /\ i > 0 /\ j > 0
          BY <1>1
        <4>2. at[i] = (IF i = 1 THEN 1 ELSE i - 1) /\ at[j] = (IF j = 1 THEN 1 ELSE j - 1)
              /\ at[i] \in NoticesOn(l) /\ d[i] = l[at[i]]
          BY <1>2
        <4>3. at[i] < at[j] \/ at[i] = at[j]
          BY <3>1, <4>1, <4>2
        <4> QED
          BY <2>1, <2>4, <4>2, <4>3
      <3> QED
        BY <2>1, <2>4, <3>1
    <2> QED
      BY <2>1, <2>2, <2>3, <2>4 DEF Stream, Grounded
  <1>5. NoticesGoOn(d)
    <2> SUFFICES ASSUME NEW j \in NoticesOn(d), d[j].current < AnswerPieces - 1
                 PROVE  \E k \in NoticesOn(d) : j < k /\ Precedes(d[j], d[k])
      BY DEF NoticesGoOn
    <2>1. PICK k \in NoticesOn(l) : at[j] < k /\ Precedes(l[at[j]], l[k])
      BY <1>2 DEF Stream, NoticesGoOn
    <2>2. k + 1 \in NoticesOn(d) /\ d[k + 1] = l[k] /\ j < k + 1
      <3>1. k \in Nat /\ k + 1 \in NoticesOn(d) /\ d[k + 1] = l[k] /\ j \in Nat /\ j > 0
        BY <1>1
      <3>2. at[j] = (IF j = 1 THEN 1 ELSE j - 1)
        BY <1>2
      <3> QED
        BY <2>1, <3>1, <3>2
    <2> QED
      BY <1>2, <2>1, <2>2
  <1>6. Collects(d, got)
    <2>1. \A n \in NoticesOn(l) : n + 1 \in NoticesOn(d) /\ d[n + 1] = l[n]
      BY <1>1
    <2>2. \A n \in NoticesOn(d) : \E k \in NoticesOn(l) : d[n] = l[k]
      BY <1>2
    <2> QED
      BY <2>1, <2>2 DEF Stream, Collects
  <1> QED
    BY <1>3, <1>4, <1>5, <1>6 DEF Stream, d

(* Answers and status messages that follow change nothing.                 *)
LEMMA StreamJoins ==
  ASSUME NEW l \in Seq(LineMessages), NEW f \in Seq(LineMessages), NEW got, Stream(l, got),
         \A n \in DOMAIN f : f[n].type # "indicate"
  PROVE  Stream(l \o f, got)
  <1> DEFINE d == l \o f
  <1>1. NoticesOn(d) = NoticesOn(l) /\ \A n \in NoticesOn(l) : d[n] = l[n]
    <2>1. /\ \A n \in DOMAIN l : n \in DOMAIN d /\ d[n] = l[n]
          /\ \A n \in DOMAIN d : n \in DOMAIN l \/ (n - Len(l) \in DOMAIN f /\ d[n] = f[n - Len(l)])
      BY JoinOf
    <2> HIDE DEF d
    <2>2. \A n \in DOMAIN l : n \in DOMAIN d /\ d[n] = l[n]
      BY <2>1
    <2>3. \A n \in DOMAIN d : n \in DOMAIN l \/ d[n].type # "indicate"
      BY <2>1
    <2> QED
      BY <2>2, <2>3 DEF NoticesOn
  <1> HIDE DEF d
  <1>2. NoticesInOrder(d)
    BY <1>1 DEF Stream, NoticesInOrder
  <1>3. Grounded(d, got)
    BY <1>1 DEF Stream, Grounded
  <1>4. NoticesGoOn(d)
    BY <1>1 DEF Stream, NoticesGoOn
  <1>5. Collects(d, got)
    BY <1>1 DEF Stream, Collects
  <1> QED
    BY <1>2, <1>3, <1>4, <1>5 DEF Stream, d

(* A new indication comes whole, behind the earlier ones.                  *)
LEMMA StreamGrows ==
  ASSUME NEW l \in Seq(LineMessages), NEW last \in Nat, AreNotices(l, last), NEW got, Stream(l, got)
  PROVE  Stream(l \o Fragments("indicate", 0, last + 1, FALSE), got)
  <1> DEFINE f == Fragments("indicate", 0, last + 1, FALSE)
             d == l \o f
             L == Len(l)
             A == AnswerPieces
  <1>1. /\ f \in Seq(LineMessages) /\ A \in Nat /\ A > 0 /\ L \in Nat /\ DOMAIN f = 1 .. A
        /\ \A i \in 1 .. A : f[i].type = "indicate" /\ f[i].of = last + 1 /\ f[i].current = i - 1
    <2>1. last + 1 \in Nat
      OBVIOUS
    <2>2. A \in Nat /\ A > 0 /\ L \in Nat
      BY MBIMAssumption
    <2>3. /\ f \in Seq(LineMessages) /\ DOMAIN f = 1 .. A
          /\ \A i \in 1 .. A : f[i].type = "indicate" /\ f[i].of = last + 1 /\ f[i].current = i - 1
      <3>1. "indicate" \in {"command", "indicate"} /\ 0 \in Nat /\ FALSE \in BOOLEAN
        OBVIOUS
      <3>2. PICK k \in Nat, no \in BOOLEAN : k = last + 1 /\ no = FALSE
        BY <2>1
      <3>3. f = Fragments("indicate", 0, k, no)
        BY <3>2
      <3>4. LET F == Fragments("indicate", 0, k, no)
            IN  /\ F \in Seq(LineMessages) /\ DOMAIN F = 1 .. AnswerPieces
                /\ \A i \in 1 .. AnswerPieces : F[i].type = "indicate" /\ F[i].of = k /\ F[i].current = i - 1
        BY AFragment
      <3> HIDE DEF f
      <3> QED
        BY <3>2, <3>3, <3>4
    <2> QED
      BY <2>2, <2>3
  <1> HIDE DEF f
  <1>2. /\ \A n \in DOMAIN l : n \in DOMAIN d /\ d[n] = l[n] /\ n \in Nat /\ n <= L
        /\ \A n \in 1 .. A : L + n \in DOMAIN d /\ d[L + n] = f[n]
        /\ \A n \in DOMAIN d : n \in DOMAIN l \/ (n - L \in 1 .. A /\ d[n] = f[n - L])
        /\ DOMAIN d \subseteq Nat
    BY <1>1, JoinOf
  <1> HIDE DEF d, L, A
  <1>3. /\ \A n \in NoticesOn(l) : n \in NoticesOn(d) /\ d[n] = l[n] /\ n \in Nat /\ n <= L
        /\ \A n \in NoticesOn(l) : l[n].of \in Nat /\ l[n].of <= last /\ l[n].current \in Nat
        /\ \A n \in NoticesOn(d) : n \in NoticesOn(l) \/ (n - L \in 1 .. A /\ d[n] = f[n - L])
        /\ \A n \in 1 .. A : L + n \in NoticesOn(d) /\ d[L + n] = f[n]
        /\ NoticesOn(d) \subseteq Nat
    <2>1. \A n \in NoticesOn(l) : l[n].of \in 1 .. last /\ l[n] \in LineMessages
      BY DEF AreNotices, MayCome, NoticesOn
    <2>2. \A n \in NoticesOn(l) : l[n].of \in Nat /\ l[n].of <= last /\ l[n].current \in Nat
      BY <2>1 DEF NoticesOn, LineMessages, LineParts
    <2> QED
      BY <1>1, <1>2, <2>2 DEF NoticesOn
  <1>4. NoticesInOrder(d)
    <2> SUFFICES ASSUME NEW i \in NoticesOn(d), NEW j \in NoticesOn(d), i < j
                 PROVE  d[i].of < d[j].of \/ (d[i].of = d[j].of /\ d[i].current <= d[j].current)
      BY DEF NoticesInOrder
    <2>0. i \in Nat /\ j \in Nat
      BY <1>3
    <2>1. CASE i \in NoticesOn(l) /\ j \in NoticesOn(l)
      BY <1>3, <2>1 DEF Stream, NoticesInOrder
    <2>2. CASE i \in NoticesOn(l) /\ j \notin NoticesOn(l)
      <3>1. d[i].of \in Nat /\ d[i].of <= last
        BY <1>3, <2>2
      <3>2. d[j].of = last + 1
        <4>1. j - L \in 1 .. A /\ d[j] = f[j - L]
          BY <1>3, <2>2
        <4> QED
          BY <1>1, <4>1
      <3> QED
        BY <3>1, <3>2
    <2>3. CASE i \notin NoticesOn(l)
      <3>1. i - L \in 1 .. A /\ d[i] = f[i - L]
        BY <1>3, <2>3
      <3>2. j \notin NoticesOn(l)
        BY <1>1, <1>3, <2>0, <3>1
      <3>3. j - L \in 1 .. A /\ d[j] = f[j - L]
        BY <1>3, <3>2
      <3>4. d[i].of = d[j].of /\ d[i].current = i - L - 1 /\ d[j].current = j - L - 1
        BY <1>1, <3>1, <3>3
      <3> QED
        BY <1>1, <2>0, <3>4
    <2> QED
      BY <2>1, <2>2, <2>3
  <1>5. Grounded(d, got)
    <2> SUFFICES ASSUME NEW j \in NoticesOn(d), d[j].current > 0
                 PROVE  \/ \E i \in NoticesOn(d) : i < j /\ Precedes(d[i], d[j])
                        \/ got # <<>> /\ got[1].of = d[j].of
                        \/ /\ got = <<>> /\ d[j].current = AnswerPieces - 1
                           /\ \A i \in NoticesOn(d) : i < j => d[i].of = d[j].of /\ d[i].current = d[j].current
      BY DEF Grounded
    <2>0. j \in Nat
      BY <1>3
    <2>1. CASE j \in NoticesOn(l)
      <3>1. ASSUME NEW i \in NoticesOn(d), i < j PROVE i \in NoticesOn(l)
        BY <1>1, <1>3, <2>0, <2>1, <3>1
      <3>2. d[j] = l[j]
        BY <1>3, <2>1
      <3>3. \/ \E i \in NoticesOn(l) : i < j /\ Precedes(l[i], l[j])
            \/ got # <<>> /\ got[1].of = l[j].of
            \/ /\ got = <<>> /\ l[j].current = AnswerPieces - 1
               /\ \A i \in NoticesOn(l) : i < j => l[i].of = l[j].of /\ l[i].current = l[j].current
        BY <2>1, <3>2 DEF Stream, Grounded
      <3> QED
        BY <1>3, <3>1, <3>2, <3>3
    <2>2. CASE j \notin NoticesOn(l)
      <3>1. j - L \in 1 .. A /\ d[j] = f[j - L]
        BY <1>3, <2>2
      <3>2. PICK n \in 1 .. A : n + 1 \in 1 .. A /\ j = L + (n + 1)
        <4>1. j - L - 1 > 0
          BY <1>1, <3>1
        <4>2. j - L - 1 \in 1 .. A /\ j = L + ((j - L - 1) + 1)
          BY <1>1, <2>0, <3>1, <4>1
        <4> QED
          BY <3>1, <4>2
      <3>3. L + n \in NoticesOn(d) /\ L + n < j /\ Precedes(d[L + n], d[j])
        <4>1. L + n \in NoticesOn(d) /\ d[L + n] = f[n] /\ d[j] = f[n + 1]
          BY <1>3, <3>2
        <4>2. L + n < j
          BY <1>1, <3>2
        <4>3. (n + 1) - 1 = (n - 1) + 1
          BY <3>2
        <4> QED
          BY <1>1, <3>2, <4>1, <4>2, <4>3 DEF Precedes
      <3> QED
        BY <3>3
    <2> QED
      BY <2>1, <2>2
  <1>6. NoticesGoOn(d)
    <2> SUFFICES ASSUME NEW j \in NoticesOn(d), d[j].current < AnswerPieces - 1
                 PROVE  \E k \in NoticesOn(d) : j < k /\ Precedes(d[j], d[k])
      BY DEF NoticesGoOn
    <2>0. j \in Nat
      BY <1>3
    <2>1. CASE j \in NoticesOn(l)
      BY <1>3, <2>1 DEF Stream, NoticesGoOn
    <2>2. CASE j \notin NoticesOn(l)
      <3>1. j - L \in 1 .. A /\ d[j] = f[j - L]
        BY <1>3, <2>2
      <3>2. PICK n \in 1 .. A : j = L + n /\ d[j] = f[n]
        BY <1>1, <2>0, <3>1
      <3>3. n + 1 \in 1 .. A
        BY <1>1, <3>2 DEF A
      <3>4. L + (n + 1) \in NoticesOn(d) /\ d[L + (n + 1)] = f[n + 1]
        BY <1>3, <3>3
      <3>5. j < L + (n + 1) /\ (n + 1) - 1 = (n - 1) + 1
        BY <1>1, <3>2
      <3>6. Precedes(d[j], d[L + (n + 1)])
        BY <1>1, <3>2, <3>3, <3>4, <3>5 DEF Precedes
      <3> QED
        BY <3>4, <3>5, <3>6
    <2> QED
      BY <2>1, <2>2
  <1>7. Collects(d, got)
    <2>1. CASE got = <<>>
      BY <2>1 DEF Stream, Collects
    <2>2. CASE got # <<>>
      <3>1. PICK j \in NoticesOn(l) : l[j].of = got[1].of /\ l[j].current = Len(got)
        BY <2>2 DEF Stream, Collects
      <3>2. ASSUME NEW k \in NoticesOn(d) PROVE d[k].of >= got[1].of
        <4>1. CASE k \in NoticesOn(l)
          BY <1>3, <2>2, <4>1 DEF Stream, Collects
        <4>2. CASE k - L \in 1 .. A /\ d[k] = f[k - L]
          <5>1. d[k].of = last + 1
            BY <1>1, <4>2
          <5>2. l[j].of \in Nat /\ l[j].of <= last
            BY <1>3, <3>1
          <5> QED
            BY <3>1, <5>1, <5>2
        <4> QED
          BY <1>3, <4>1, <4>2
      <3> QED
        BY <1>3, <3>1, <3>2 DEF Stream, Collects
    <2> QED
      BY <2>1, <2>2
  <1> QED
    BY <1>4, <1>5, <1>6, <1>7 DEF Stream, d, f

(* The next indication read is of what the collector has begun with, ...   *)
LEMMA FirstIsOwn ==
  ASSUME NEW l \in Seq(LineMessages), 1 \in NoticesOn(l), NEW got \in Seq(LineMessages), Stream(l, got),
         \A n \in NoticesOn(l) : n \in Nat /\ l[n].of \in Nat /\ l[n].current \in Nat /\ n > 0
  PROVE  /\ got # <<>> => l[1].of = got[1].of
         /\ got = <<>> /\ l[1].current > 0 => l[1].current = AnswerPieces - 1
  <1>1. l[1].current > 0 => \/ got # <<>> /\ got[1].of = l[1].of
                            \/ got = <<>> /\ l[1].current = AnswerPieces - 1
    BY DEF Stream, Grounded
  <1>2. ASSUME got # <<>>, ~(l[1].current > 0) PROVE l[1].of = got[1].of
    <2>1. PICK j \in NoticesOn(l) : l[j].of = got[1].of /\ l[j].current = Len(got)
      BY <1>2 DEF Stream, Collects
    <2>2. l[1].of >= got[1].of
      BY <1>2 DEF Stream, Collects
    <2>3. Len(got) > 0 /\ Len(got) \in Nat
      BY <1>2
    <2>4. 1 < j
      BY <1>2, <2>1, <2>3
    <2>5. l[1].of <= l[j].of
      BY <2>4 DEF Stream, NoticesInOrder
    <2> QED
      BY <2>1, <2>2, <2>5
  <1> QED
    BY <1>1, <1>2

(* ... so it stays in order.                                               *)
LEMMA StreamReads ==
  ASSUME NEW l \in Seq(LineMessages), NEW last \in Nat, AreNotices(l, last), 1 \in NoticesOn(l),
         NEW got \in Seq(LineMessages), Len(got) < AnswerPieces, Stream(l, got), NEW new,
         \/ l[1].current = Len(got) /\ Len(got) + 1 >= AnswerPieces /\ new = <<>>
         \/ l[1].current = Len(got) /\ Len(got) + 1 < AnswerPieces /\ new = Append(got, l[1])
         \/ l[1].current # Len(got) /\ new = got
  PROVE  Stream(Tail(l), new)
  <1> DEFINE t == Tail(l)
             h == l[1]
             A == AnswerPieces
  <1>1. /\ \A n \in NoticesOn(t) : n \in Nat /\ n + 1 \in NoticesOn(l) /\ t[n] = l[n + 1]
        /\ \A n \in NoticesOn(l) : n > 1 => n - 1 \in NoticesOn(t) /\ t[n - 1] = l[n]
        /\ \A n \in NoticesOn(l) : n \in Nat /\ n > 0
        /\ l # <<>> /\ h \in LineMessages
    <2>1. l # <<>>
      BY DEF NoticesOn
    <2> QED
      BY <2>1, NoticesOfTail, TailOf
  <1>2. A \in Nat /\ A > 0 /\ Len(got) \in Nat
    BY MBIMAssumption
  <1>3. \A n \in NoticesOn(l) : l[n].of \in Nat /\ l[n].current \in Nat /\ l[n].current < A
    <2>1. \A n \in NoticesOn(l) : l[n].of \in 1 .. last /\ l[n].current < A /\ l[n] \in LineMessages
      BY DEF AreNotices, MayCome, NoticesOn
    <2> QED
      BY <2>1 DEF NoticesOn, LineMessages, LineParts
  <1>4. /\ got # <<>> => h.of = got[1].of
        /\ got = <<>> /\ h.current > 0 => h.current = A - 1
    BY <1>1, <1>3, FirstIsOwn
  <1>5. NoticesInOrder(t)
    BY <1>1, OrderOfTail DEF Stream
  <1> HIDE DEF t, A
  <1>6. NoticesGoOn(t)
    <2> SUFFICES ASSUME NEW j \in NoticesOn(t), t[j].current < AnswerPieces - 1
                 PROVE  \E k \in NoticesOn(t) : j < k /\ Precedes(t[j], t[k])
      BY DEF NoticesGoOn
    <2>1. j \in Nat /\ j + 1 \in NoticesOn(l) /\ t[j] = l[j + 1]
      BY <1>1
    <2>2. PICK k \in NoticesOn(l) : j + 1 < k /\ Precedes(l[j + 1], l[k])
      BY <2>1 DEF Stream, NoticesGoOn
    <2>3. k \in Nat /\ k > 1
      BY <1>1, <2>1, <2>2
    <2>4. k - 1 \in NoticesOn(t) /\ t[k - 1] = l[k] /\ j < k - 1
      BY <1>1, <2>1, <2>2, <2>3
    <2> QED
      BY <2>1, <2>2, <2>4
  <1>7. Grounded(t, new)
    <2> SUFFICES ASSUME NEW j \in NoticesOn(t), t[j].current > 0
                 PROVE  \/ \E i \in NoticesOn(t) : i < j /\ Precedes(t[i], t[j])
                        \/ new # <<>> /\ new[1].of = t[j].of
                        \/ /\ new = <<>> /\ t[j].current = AnswerPieces - 1
                           /\ \A i \in NoticesOn(t) : i < j => t[i].of = t[j].of /\ t[i].current = t[j].current
      BY DEF Grounded
    <2>1. PICK e \in LineMessages, k \in Nat :
            k = j + 1 /\ k \in NoticesOn(l) /\ t[j] = l[k] /\ e = l[k] /\ j \in Nat /\ k > 1
      <3>1. j \in Nat /\ j + 1 \in NoticesOn(l) /\ t[j] = l[j + 1]
        BY <1>1
      <3>2. j + 1 > 1 /\ j + 1 \in Nat
        <4>1. j > 0
          BY DEF NoticesOn, t
        <4> QED
          BY <3>1, <4>1
      <3>3. l[j + 1] \in LineMessages
        BY <3>1 DEF NoticesOn
      <3> QED
        BY <3>1, <3>2, <3>3
    <2>2. /\ e.of \in Nat /\ e.current \in Nat /\ e.current < A
          /\ h.of \in Nat /\ h.current \in Nat /\ h.current < A
      BY <1>3, <2>1
    <2>3. h.of < e.of \/ (h.of = e.of /\ h.current <= e.current)
      BY <2>1 DEF Stream, NoticesInOrder
    <2>4. CASE \E i \in NoticesOn(l) : i < k /\ Precedes(l[i], l[k])
      <3>1. PICK i \in NoticesOn(l) : i < k /\ Precedes(l[i], e)
        BY <2>1, <2>4
      <3>2. CASE i > 1
        <4>1. i - 1 \in NoticesOn(t) /\ t[i - 1] = l[i] /\ i \in Nat
          BY <1>1, <3>2
        <4>2. i - 1 < j
          BY <2>1, <3>1, <4>1
        <4> QED
          BY <2>1, <3>1, <4>1, <4>2
      <3>3. CASE ~(i > 1)
        <4>1. i = 1
          BY <1>1, <3>3
        <4>2. e.of = h.of /\ e.current = h.current + 1
          BY <3>1, <4>1 DEF Precedes
        <4>3. ~(h.current = Len(got) /\ Len(got) + 1 >= AnswerPieces)
          BY <1>2, <2>2, <4>2 DEF A
        <4>4. CASE new = Append(got, l[1])
          <5>1. new # <<>> /\ new[1].of = h.of
            <6>1. CASE got = <<>>
              BY <4>4, <6>1
            <6>2. CASE got # <<>>
              BY <1>4, <4>4, <6>2
            <6> QED
              BY <6>1, <6>2
          <5> QED
            BY <2>1, <4>2, <5>1
        <4>5. CASE l[1].current # Len(got) /\ new = got
          <5>1. got # <<>>
            BY <1>2, <1>4, <2>2, <4>2, <4>5
          <5> QED
            BY <1>4, <2>1, <4>2, <4>5, <5>1
        <4> QED
          BY <4>3, <4>4, <4>5
      <3> QED
        BY <3>2, <3>3
    <2>5. CASE got # <<>> /\ got[1].of = e.of
      <3>1. h.of = e.of
        BY <1>4, <2>5
      <3>2. CASE new = Append(got, l[1])
        BY <2>1, <2>5, <3>2
      <3>3. CASE new = got
        BY <2>1, <2>5, <3>3
      <3>4. CASE h.current = Len(got) /\ Len(got) + 1 >= AnswerPieces /\ new = <<>>
        <4>1. h.current = A - 1 /\ e.current = A - 1
          BY <1>2, <2>2, <2>3, <3>1, <3>4 DEF A
        <4>2. ASSUME NEW i \in NoticesOn(t), i < j
              PROVE  t[i].of = t[j].of /\ t[i].current = t[j].current
          <5>1. i \in Nat /\ i + 1 \in NoticesOn(l) /\ t[i] = l[i + 1] /\ i > 0
            BY <1>1 DEF NoticesOn, t
          <5>2. PICK m \in LineMessages, q \in Nat : q = i + 1 /\ q \in NoticesOn(l) /\ m = l[q] /\ 1 < q /\ q < k
            <6>1. l[i + 1] \in LineMessages
              BY <5>1 DEF NoticesOn
            <6>2. 1 < i + 1 /\ i + 1 < k /\ i + 1 \in Nat
              BY <2>1, <4>2, <5>1
            <6> QED
              BY <5>1, <6>1, <6>2
          <5>3. h.of < m.of \/ (h.of = m.of /\ h.current <= m.current)
            BY <5>2 DEF Stream, NoticesInOrder
          <5>4. m.of < e.of \/ (m.of = e.of /\ m.current <= e.current)
            BY <2>1, <5>2 DEF Stream, NoticesInOrder
          <5>5. m.of \in Nat /\ m.current \in Nat
            BY <1>3, <5>2
          <5>6. m.of = e.of /\ m.current = e.current
            BY <2>2, <3>1, <4>1, <5>3, <5>4, <5>5
          <5> QED
            BY <2>1, <5>1, <5>2, <5>6
        <4> QED
          BY <2>1, <3>4, <4>1, <4>2 DEF A
      <3> QED
        BY <3>2, <3>3, <3>4
    <2>6. CASE /\ got = <<>> /\ e.current = AnswerPieces - 1
               /\ \A i \in NoticesOn(l) : i < k => l[i].of = e.of /\ l[i].current = e.current
      <3>1. h.current = e.current
        BY <2>1, <2>6
      <3>2. new = <<>>
        BY <2>1, <2>6, <3>1
      <3>3. ASSUME NEW i \in NoticesOn(t), i < j
            PROVE  t[i].of = t[j].of /\ t[i].current = t[j].current
        <4>1. i \in Nat /\ i + 1 \in NoticesOn(l) /\ t[i] = l[i + 1]
          BY <1>1
        <4>2. i + 1 < k
          BY <2>1, <3>3, <4>1
        <4> QED
          BY <2>1, <2>6, <4>1, <4>2
      <3> QED
        BY <2>1, <2>6, <3>2, <3>3
    <2> QED
      BY <2>1, <2>4, <2>5, <2>6 DEF Stream, Grounded
  <1>8. Collects(t, new)
    <2>1. CASE new = <<>>
      BY <2>1 DEF Collects
    <2>2. CASE got # <<>> /\ new = got /\ l[1].current # Len(got)
      <3>1. \A j \in NoticesOn(t) : t[j].of >= got[1].of
        BY <1>1, <2>2 DEF Stream, Collects
      <3>2. PICK j \in NoticesOn(l) : l[j].of = got[1].of /\ l[j].current = Len(got)
        BY <2>2 DEF Stream, Collects
      <3>3. j > 1
        BY <1>1, <2>2, <3>2
      <3>4. j - 1 \in NoticesOn(t) /\ t[j - 1] = l[j]
        BY <1>1, <3>3
      <3> QED
        BY <2>2, <3>1, <3>2, <3>4 DEF Stream, Collects
    <2>3. CASE /\ h.current = Len(got) /\ Len(got) + 1 < AnswerPieces /\ new = Append(got, l[1])
      <3>1. /\ new # <<>> /\ Len(new) = Len(got) + 1 /\ new[1].of = h.of
            /\ \A n \in DOMAIN new : new[n].of = h.of
        <4>1. \A n \in DOMAIN got : got[n].of = h.of
          <5>1. \A n \in DOMAIN got : got[n].of = got[1].of /\ got # <<>>
            BY DEF Stream, Collects
          <5> QED
            BY <1>4, <5>1
        <4>2. /\ DOMAIN new = 1 .. Len(got) + 1 /\ Len(new) = Len(got) + 1 /\ new # <<>>
              /\ \A n \in DOMAIN new : (n \in DOMAIN got /\ new[n] = got[n]) \/ new[n] = h
          BY <2>3
        <4>3. 1 \in DOMAIN new
          BY <1>2, <4>2
        <4> QED
          BY <4>1, <4>2, <4>3
      <3>2. ASSUME NEW j \in NoticesOn(t) PROVE t[j].of >= h.of
        <4>1. j \in Nat /\ j + 1 \in NoticesOn(l) /\ t[j] = l[j + 1] /\ j > 0
          BY <1>1 DEF NoticesOn, t
        <4>2. 1 < j + 1
          BY <4>1
        <4>3. h.of < l[j + 1].of \/ h.of = l[j + 1].of
          BY <4>1, <4>2 DEF Stream, NoticesInOrder
        <4>4. h.of \in Nat /\ l[j + 1].of \in Nat
          BY <1>3, <4>1
        <4> QED
          BY <4>1, <4>3, <4>4
      <3>3. PICK k \in NoticesOn(l) : 1 < k /\ Precedes(h, l[k])
        <4>1. h.current < AnswerPieces - 1
          BY <1>2, <2>3 DEF A
        <4> QED
          BY <4>1 DEF Stream, NoticesGoOn
      <3>4. k - 1 \in NoticesOn(t) /\ t[k - 1] = l[k]
        BY <1>1, <3>3
      <3>5. t[k - 1].of = h.of /\ t[k - 1].current = Len(got) + 1
        BY <2>3, <3>3, <3>4 DEF Precedes
      <3> QED
        BY <3>1, <3>2, <3>4, <3>5 DEF Collects
    <2> QED
      BY <2>1, <2>2, <2>3
  <1> QED
    BY <1>5, <1>6, <1>7, <1>8 DEF Stream, t

(***************************************************************************)
(* What a step does to the requests.                                       *)

(* A caller goes on, or returns; another number is given out.              *)
CallMoves(c) ==
  /\ request[c].step # "idle" /\ request' \in MBIMRequests /\ request'[c].step # "idle"
  /\ request'[c].tx = request[c].tx /\ request'[c].what = request[c].what
  /\ \A d \in MBIMUsers : d # c => request'[d] = request[d]
  /\ UNCHANGED <<nextTx, opened, deviceClosed>>
OnlyAsks(c) ==
  /\ nextTx' = nextTx + 1 /\ nextTx' \in Nat /\ request' \in MBIMRequests
  /\ request'[c].tx = nextTx' /\ request'[c].sent = 0 /\ request'[c].what # "nothing"
  /\ request'[c].step = IF request'[c].what = "open" THEN "send" ELSE "lock"
  /\ \A d \in MBIMUsers : d # c => request'[d] = request[d]

LEMMA InRange ==
  ASSUME CallTypes, NumbersInv
  PROVE  /\ nextTx \in Transactions \cup {0} /\ 1 .. nextTx \subseteq Transactions
         /\ IsFiniteSet(Started) /\ Cardinality(Started) \in Nat
  <1>1. Started \subseteq MBIMCallers /\ IsFiniteSet(MBIMCallers)
    BY MBIMAssumption DEF Started
  <1>2. IsFiniteSet(Started) /\ Cardinality(Started) <= Cardinality(MBIMCallers)
    BY <1>1, FS_Subset
  <1>3. Cardinality(Started) \in Nat /\ Cardinality(MBIMCallers) \in Nat
    BY <1>1, <1>2, FS_CardinalityType
  <1>4. nextTx <= Cardinality(MBIMCallers) + 3 /\ nextTx \in Nat
    BY <1>2, <1>3 DEF NumbersInv, CallTypes
  <1> QED
    BY <1>2, <1>3, <1>4 DEF Transactions

LEMMA NumbersMove ==
  ASSUME CallTypes, NumbersInv, NEW c \in MBIMUsers, CallMoves(c)
  PROVE  NumbersInv'
  <1>1. Started' = Started
    <2>1. \A d \in MBIMUsers : d # c => request'[d] = request[d]
      BY DEF CallMoves
    <2>2. request[c] # Resting /\ request'[c] # Resting
      BY DEF CallMoves, Resting
    <2> QED
      BY <2>1, <2>2 DEF Started, MBIMUsers
  <1>2. request'[Opener].what = request[Opener].what
    BY DEF CallMoves, MBIMUsers
  <1>3. \A d \in MBIMUsers : request'[d].tx = request[d].tx
    BY DEF CallMoves
  <1>4. UNCHANGED <<nextTx, opened, deviceClosed>>
    BY DEF CallMoves
  <1>5. \A d \in MBIMUsers : IF request'[d].step = "idle" THEN request'[d] = Resting
                             ELSE request'[d].tx \in 1 .. nextTx'
    BY <1>4 DEF CallMoves, NumbersInv
  <1> QED
    BY <1>1, <1>2, <1>3, <1>4, <1>5 DEF NumbersInv

LEMMA UniqueNumber ==
  ASSUME CallTypes, NumbersInv, NEW c \in MBIMUsers, OnlyAsks(c)
  PROVE  \A a, b \in MBIMUsers : request'[a].tx = request'[b].tx /\ request'[a].tx # 0 => a = b
  <1>1. \A a \in MBIMUsers : request[a].tx \in Nat /\ request[a].tx <= nextTx
    <2> SUFFICES ASSUME NEW a \in MBIMUsers PROVE request[a].tx \in Nat /\ request[a].tx <= nextTx
      OBVIOUS
    <2>1. CASE request[a].step = "idle"
      BY <2>1 DEF NumbersInv, Resting, CallTypes, MBIMRequests
    <2>2. CASE request[a].step # "idle"
      BY <2>2 DEF NumbersInv, CallTypes, MBIMRequests
    <2> QED
      BY <2>1, <2>2
  <1>2. nextTx \in Nat /\ request'[c].tx = nextTx + 1 /\ \A a \in MBIMUsers : a # c => request'[a] = request[a]
    BY DEF OnlyAsks, CallTypes
  <1> QED
    BY <1>1, <1>2 DEF NumbersInv

(* Which of the two each call is.                                          *)
LEMMA OtherCallsMove ==
  ASSUME CallTypes, NumbersInv, NEW c \in MBIMUsers,
         TakeWriteMu(c) \/ WriteMessage(c) \/ WriteFails(c) \/ ContextDone(c) \/ TakeAnswer(c)
  PROVE  CallMoves(c)
  <1>1. request \in MBIMRequests /\ request[c].sent + 1 \in Nat
    BY DEF CallTypes, MBIMRequests
  <1>2. CASE TakeWriteMu(c)
    BY <1>1, <1>2 DEF TakeWriteMu, CallMoves, MBIMRequests, deviceVars
  <1>3. CASE WriteMessage(c)
    <2> DEFINE s == IF request[c].sent + 1 = PiecesOf(c) THEN "wait" ELSE "send"
    <2>1. /\ request[c].step = "send" /\ s \in {"wait", "send"}
          /\ request' = [request EXCEPT ![c].sent = @ + 1, ![c].step = s]
          /\ UNCHANGED <<nextTx, opened, deviceClosed>>
      BY <1>3 DEF WriteMessage, deviceVars
    <2> HIDE DEF s
    <2>2. request'[c] = [request[c] EXCEPT !.sent = @ + 1, !.step = s]
      BY <1>1, <2>1 DEF MBIMRequests
    <2>3. request' \in MBIMRequests
      BY <1>1, <2>1 DEF MBIMRequests
    <2> QED
      BY <1>1, <2>1, <2>2, <2>3 DEF CallMoves, MBIMRequests
  <1>4. ASSUME NEW what, CallReturns(c, what), request[c].step # "idle" PROVE CallMoves(c)
    BY <1>1, <1>4 DEF CallReturns, CallMoves, MBIMRequests
  <1>5. CASE WriteFails(c)
    BY <1>4, <1>5 DEF WriteFails
  <1>6. CASE ContextDone(c)
    BY <1>4, <1>6 DEF ContextDone
  <1>7. CASE TakeAnswer(c)
    BY <1>4, <1>7 DEF TakeAnswer
  <1> QED
    BY <1>2, <1>3, <1>5, <1>6, <1>7

LEMMA RegisterAsks ==
  ASSUME CallTypes, NEW c \in MBIMUsers, NEW what \in {"command", "config", "open"}, Register(c, what)
  PROVE  OnlyAsks(c) /\ request'[c].what = what /\ pending' = pending \cup {nextTx + 1}
  <1>1. request \in MBIMRequests /\ nextTx \in Nat
    BY DEF CallTypes, MBIMRequests
  <1> DEFINE r == [what |-> what, step |-> IF what = "open" THEN "send" ELSE "lock", tx |-> nextTx + 1, sent |-> 0]
  <1>2. nextTx' = nextTx + 1 /\ nextTx' \in Nat /\ pending' = pending \cup {nextTx + 1}
        /\ request' = [request EXCEPT ![c] = r]
    BY <1>1 DEF Register
  <1>3. r \in [what : Whats, step : {"idle", "lock", "send", "wait", "done"}, tx : Nat, sent : Nat]
    BY <1>2 DEF Whats
  <1>4. /\ r.what = what /\ r.step = (IF what = "open" THEN "send" ELSE "lock")
        /\ r.tx = nextTx + 1 /\ r.sent = 0
    OBVIOUS
  <1> HIDE DEF r
  <1>5. request' \in MBIMRequests /\ request'[c] = r /\ \A d \in MBIMUsers : d # c => request'[d] = request[d]
    BY <1>1, <1>2, <1>3 DEF MBIMRequests
  <1> QED
    BY <1>2, <1>4, <1>5 DEF OnlyAsks

LEMMA NumbersStep ==
  ASSUME CallTypes, NumbersInv, WritersInv, MBIMNext
  PROVE  NumbersInv'
  <1> DEFINE used == IF opened = "no" THEN 0 ELSE IF request[Opener].what = "config" THEN 1 ELSE 2
             closing == IF deviceClosed THEN 1 ELSE 0
  <1>0. /\ nextTx \in Nat /\ Cardinality(Started) \in Nat /\ IsFiniteSet(Started)
        /\ nextTx <= Cardinality(Started) + used + closing
        /\ Opener \in MBIMUsers /\ Opener \notin MBIMCallers /\ MBIMCallers \subseteq MBIMUsers
    BY InRange, MBIMAssumption DEF NumbersInv, CallTypes, MBIMUsers
  <1>1. ASSUME UNCHANGED <<nextTx, request, opened, deviceClosed>> PROVE NumbersInv'
    BY <1>1 DEF NumbersInv, Started
  <1>2. ASSUME NEW c \in MBIMUsers, OnlyAsks(c),
               nextTx' <= Cardinality(Started)' + used' + closing'
        PROVE  NumbersInv'
    <2>1. \A a, b \in MBIMUsers : request'[a].tx = request'[b].tx /\ request'[a].tx # 0 => a = b
      BY <1>2, UniqueNumber
    <2>2. \A d \in MBIMUsers : IF request'[d].step = "idle" THEN request'[d] = Resting
                               ELSE request'[d].tx \in 1 .. nextTx'
      <3> SUFFICES ASSUME NEW d \in MBIMUsers
                   PROVE  IF request'[d].step = "idle" THEN request'[d] = Resting
                          ELSE request'[d].tx \in 1 .. nextTx'
        OBVIOUS
      <3>1. CASE d = c
        BY <1>0, <1>2, <3>1 DEF OnlyAsks
      <3>2. CASE d # c
        BY <1>0, <1>2, <3>2 DEF OnlyAsks, NumbersInv
      <3> QED
        BY <3>1, <3>2
    <2> QED
      BY <1>2, <2>1, <2>2 DEF NumbersInv
  <1>3. CASE Open
    <2>1. PICK what \in {"command", "config", "open"} :
            /\ what # "command" /\ Register(Opener, what) /\ opened = "no" /\ opened' = "busy"
            /\ deviceClosed' = deviceClosed
      BY <1>3 DEF Open
    <2>2. OnlyAsks(Opener) /\ request'[Opener].what = what
      BY <1>0, <2>1, RegisterAsks
    <2>3. Started' = Started
      BY <1>0, <2>2 DEF OnlyAsks, Started
    <2>4. used = 0 /\ (used' = 1 \/ used' = 2) /\ closing' = closing
      BY <2>1, <2>2
    <2>5. nextTx' = nextTx + 1 /\ (closing = 0 \/ closing = 1)
      BY <2>2 DEF OnlyAsks
    <2> HIDE DEF used, closing
    <2> QED
      BY <1>0, <1>2, <2>2, <2>3, <2>4, <2>5
  <1>4. CASE OpenGoesOn
    <2>1. CASE Register(Opener, "open") /\ request[Opener].what = "config" /\ UNCHANGED opened /\ opened = "busy"
               /\ deviceClosed' = deviceClosed
      <3>2. OnlyAsks(Opener) /\ request'[Opener].what = "open"
        BY <1>0, <2>1, RegisterAsks
      <3>3. Started' = Started
        BY <1>0, <3>2 DEF OnlyAsks, Started
      <3>4. used = 1 /\ used' = 2 /\ closing' = closing
        BY <2>1, <3>2
      <3>5. nextTx' = nextTx + 1 /\ (closing = 0 \/ closing = 1)
        BY <3>2 DEF OnlyAsks
      <3> HIDE DEF used, closing
      <3> QED
        BY <1>0, <1>2, <3>2, <3>3, <3>4, <3>5
    <2>2. CASE /\ opened = "busy" /\ opened' # "no" /\ UNCHANGED <<nextTx, request, deviceClosed>>
      BY <2>2 DEF NumbersInv, Started
    <2> QED
      BY <1>4, <2>1, <2>2 DEF OpenGoesOn
  <1>5. CASE CloseBegins
    <2>1. ~deviceClosed /\ deviceClosed' = TRUE /\ nextTx' = nextTx + 1 /\ UNCHANGED <<request, opened>>
      BY <1>5 DEF CloseBegins, callingVars
    <2>2. closing = 0 /\ closing' = 1 /\ used' = used /\ Started' = Started
      BY <2>1 DEF Started
    <2>3. nextTx' <= Cardinality(Started)' + used' + closing'
      <3>1. used \in {0, 1, 2}
        OBVIOUS
      <3> HIDE DEF used, closing
      <3> QED
        BY <1>0, <2>1, <2>2, <3>1
    <2>4. \A d \in MBIMUsers : IF request'[d].step = "idle" THEN request'[d] = Resting
                               ELSE request'[d].tx \in 1 .. nextTx'
      BY <1>0, <2>1 DEF NumbersInv
    <2> QED
      BY <2>1, <2>3, <2>4 DEF NumbersInv
  <1>6. ASSUME NEW c \in MBIMUsers, Command(c) PROVE NumbersInv'
    <2>1. /\ c \in MBIMCallers /\ Register(c, "command") /\ request[c] = Resting /\ UNCHANGED <<opened, deviceClosed>>
      BY <1>6 DEF Command
    <2>2. OnlyAsks(c)
      BY <2>1, RegisterAsks
    <2>3. Started' = Started \cup {c} /\ c \notin Started
      BY <1>0, <2>1, <2>2 DEF OnlyAsks, Started, Resting
    <2>4. Cardinality(Started)' = Cardinality(Started) + 1
      <3>1. Cardinality(Started \cup {c}) = Cardinality(Started) + 1
        BY <1>0, <2>3, FS_AddElement
      <3> QED
        BY <2>3, <3>1
    <2>5. used' = used /\ closing' = closing /\ nextTx' = nextTx + 1 /\ used \in {0, 1, 2} /\ closing \in {0, 1}
      BY <1>0, <2>1, <2>2 DEF OnlyAsks
    <2> HIDE DEF used, closing
    <2> QED
      BY <1>0, <1>2, <2>2, <2>4, <2>5
  <1>7. ASSUME NEW c \in MBIMUsers,
               TakeWriteMu(c) \/ WriteMessage(c) \/ WriteFails(c) \/ ContextDone(c) \/ TakeAnswer(c)
        PROVE  NumbersInv'
    BY <1>7, OtherCallsMove, NumbersMove
  <1>8. CASE \/ CloseEnds \/ \E tx \in Transactions : ModuleReplies(tx)
             \/ ModuleChanges \/ LosesMessage \/ RepeatsMessage \/ Reading \/ Run
    BY <1>1, <1>8 DEF CloseEnds, ModuleReplies, ModuleChanges, LosesMessage, RepeatsMessage,
       Reading, ReadDone,
       ReadCommandDone, ReadIndication, ReadFails, Run, callingVars, deviceVars
  <1> QED
    BY <1>3, <1>4, <1>5, <1>6, <1>7, <1>8 DEF MBIMNext, MBIMCall

-----------------------------------------------------------------------------
(* Types.                                                                  *)

LEMMA CallTypesStep ==
  ASSUME CallTypes, NumbersInv, WritersInv, MBIMNext
  PROVE  CallTypes'
  <1>0. nextTx \in Nat /\ pending \subseteq 1 .. nextTx /\ Opener \in MBIMUsers /\ MBIMCallers \subseteq MBIMUsers
    BY DEF CallTypes, MBIMUsers
  <1>1. ASSUME NEW c \in MBIMUsers, NEW what \in {"command", "config", "open"}, Register(c, what),
               UNCHANGED <<mbimTold, resultOf, deviceClosed>>, opened' \in {"busy", "yes"}
        PROVE  CallTypes'
    <2>1. OnlyAsks(c) /\ pending' = pending \cup {nextTx + 1}
      BY <1>1, RegisterAsks
    <2>2. pending' \subseteq 1 .. nextTx' /\ nextTx' \in Nat
      <3>1. nextTx' = nextTx + 1
        BY <2>1 DEF OnlyAsks
      <3>2. nextTx + 1 \in Nat /\ pending \cup {nextTx + 1} \subseteq 1 .. nextTx + 1
        BY <1>0
      <3> QED
        BY <2>1, <3>1, <3>2
    <2> QED
      BY <1>1, <2>1, <2>2 DEF CallTypes, OnlyAsks
  <1>2. ASSUME NEW c \in MBIMUsers, CallMoves(c), pending' \subseteq pending, resultOf' = resultOf,
               UNCHANGED readLoop, mbimTold' = [d \in MBIMUsers |-> mbimTold'[d]]
        PROVE  CallTypes'
    BY <1>0, <1>2 DEF CallTypes, CallMoves
  <1>3. ASSUME NEW c \in MBIMUsers, NEW what, CallReturns(c, what)
        PROVE  /\ pending' \subseteq pending /\ resultOf' = resultOf /\ UNCHANGED readLoop
               /\ mbimTold' = [d \in MBIMUsers |-> mbimTold'[d]]
    <2>1. mbimTold = [d \in MBIMUsers |-> mbimTold[d]] /\ mbimTold' = [mbimTold EXCEPT ![c] = what]
      BY <1>3 DEF CallTypes, CallReturns
    <2> QED
      BY <1>3, <2>1 DEF CallReturns
  <1>4. ASSUME NEW tx, NEW what, Wakes(tx, what)
        PROVE  pending' \subseteq pending /\ resultOf' = [t \in Transactions |-> resultOf'[t]]
    <2>1. resultOf = [t \in Transactions |-> resultOf[t]]
      BY DEF CallTypes
    <2> QED
      BY <1>4, <2>1 DEF Wakes
  <1>5. CASE Open
    BY <1>0, <1>1, <1>5 DEF Open
  <1>6. CASE OpenGoesOn
    <2>1. CASE Register(Opener, "open") /\ UNCHANGED opened
      BY <1>0, <1>1, <1>6, <2>1 DEF OpenGoesOn
    <2>2. CASE opened' \in {"yes", "failed"} /\ UNCHANGED <<nextTx, pending, request>>
      BY <1>6, <2>2 DEF OpenGoesOn, CallTypes, MBIMUsers
    <2> QED
      BY <1>6, <2>1, <2>2 DEF OpenGoesOn
  <1>7. CASE CloseBegins
    <2>1. nextTx' \in Nat /\ pending' \subseteq 1 .. nextTx'
      BY <1>0, <1>7 DEF CloseBegins
    <2> QED
      BY <1>7, <2>1 DEF CloseBegins, CallTypes, callingVars, MBIMUsers
  <1>8. ASSUME NEW c \in MBIMUsers, Command(c) PROVE CallTypes'
    BY <1>1, <1>8 DEF Command
  <1>9. ASSUME NEW c \in MBIMUsers, TakeWriteMu(c) \/ WriteMessage(c) PROVE CallTypes'
    <2>1. CallMoves(c)
      BY <1>9, OtherCallsMove
    <2>2. UNCHANGED <<pending, resultOf, readLoop, mbimTold>>
      BY <1>9 DEF TakeWriteMu, WriteMessage, deviceVars
    <2>3. mbimTold' = [d \in MBIMUsers |-> mbimTold'[d]]
      BY <2>2 DEF CallTypes
    <2> QED
      BY <1>2, <2>1, <2>2, <2>3
  <1>10. ASSUME NEW c \in MBIMUsers, WriteFails(c) \/ ContextDone(c) \/ TakeAnswer(c) PROVE CallTypes'
    <2>1. CallMoves(c)
      BY <1>10, OtherCallsMove
    <2>2. \E what : CallReturns(c, what)
      BY <1>10 DEF WriteFails, ContextDone, TakeAnswer
    <2> QED
      BY <1>2, <1>3, <2>1, <2>2
  <1>11. ASSUME pending' \subseteq pending, resultOf' = [t \in Transactions |-> resultOf'[t]],
                UNCHANGED <<nextTx, request, mbimTold, opened, deviceClosed>>,
                readLoop' = readLoop \/ readLoop = "running"
         PROVE  CallTypes'
    <2>1. mbimTold' = [c \in MBIMUsers |-> mbimTold'[c]]
      BY <1>11 DEF CallTypes
    <2> QED
      BY <1>11, <2>1 DEF CallTypes
  <1>12. CASE ReadDone
    BY <1>4, <1>11, <1>12 DEF ReadDone
  <1>13. CASE ReadCommandDone
    <2>1. pending' \subseteq pending /\ resultOf' = [t \in Transactions |-> resultOf'[t]]
      <3>1. CASE UNCHANGED <<pending, resultOf>>
        BY <3>1 DEF CallTypes
      <3>2. CASE \E tx, what : Wakes(tx, what)
        BY <1>4, <3>2
      <3> QED
        BY <1>13, <3>1, <3>2 DEF ReadCommandDone
    <2> QED
      BY <1>11, <1>13, <2>1 DEF ReadCommandDone
  <1>14. CASE ReadFails
    BY <1>11, <1>14 DEF ReadFails
  <1>15. CASE \/ CloseEnds \/ \E tx \in Transactions : ModuleReplies(tx)
              \/ ModuleChanges \/ LosesMessage \/ RepeatsMessage \/ ReadIndication \/ Run
    <2>1. UNCHANGED <<pending, resultOf, nextTx, request, mbimTold, opened, deviceClosed, readLoop>>
      BY <1>15 DEF CloseEnds, ModuleReplies, ModuleChanges, LosesMessage, RepeatsMessage,
         ReadIndication, Run, callingVars, deviceVars
    <2>2. resultOf' = [t \in Transactions |-> resultOf'[t]]
      BY <2>1 DEF CallTypes
    <2> QED
      BY <1>11, <2>1, <2>2
  <1> QED
    BY <1>5, <1>6, <1>7, <1>8, <1>9, <1>10, <1>12, <1>13, <1>14, <1>15 DEF MBIMNext, MBIMCall,
       Reading

(* The collector: a fragment that is next is added, another one is not.    *)
LEMMA Collected ==
  ASSUME NEW old \in Seq(LineParts(AnswerPieces)), Len(old) < AnswerPieces, NEW m \in LineParts(AnswerPieces)
  PROVE  /\ m.current # Len(old) => Adds(old, m) = old /\ ~Complete(old, m)
         /\ m.current = Len(old) =>
              /\ Adds(old, m) = Append(old, m) /\ Adds(old, m) \in Seq(LineParts(AnswerPieces))
              /\ Len(Adds(old, m)) = Len(old) + 1
              /\ Complete(old, m) <=> Len(old) + 1 = AnswerPieces
  <1> DEFINE P == LineParts(AnswerPieces)
             new == Append(old, m)
  <1>1. AnswerPieces \in Nat /\ Len(old) \in Nat
    BY MBIMAssumption
  <1>2. \A p \in P : p.total = AnswerPieces
    BY DEF LineParts
  <1> HIDE DEF P
  <1>3. new \in Seq(P) /\ Len(new) = Len(old) + 1 /\ new # old
    BY <1>1 DEF P
  <1>4. new[1] \in P
    BY <1>1, <1>3
  <1>5. CASE m.current # Len(old)
    BY <1>5 DEF Adds, Complete, Fits
  <1>6. CASE m.current = Len(old)
    <2>1. Adds(old, m) = new
      BY <1>6 DEF Adds
    <2>2. Complete(old, m) <=> Len(new) >= new[1].total
      BY <1>3, <2>1 DEF Complete, Fits
    <2> HIDE DEF new
    <2>3. Complete(old, m) <=> Len(old) + 1 >= AnswerPieces
      BY <1>2, <1>3, <1>4, <2>2
    <2>4. Len(old) + 1 >= AnswerPieces <=> Len(old) + 1 = AnswerPieces
      BY <1>1
    <2> QED
      BY <1>3, <1>6, <2>1, <2>3, <2>4 DEF P, new
  <1> QED
    BY <1>5, <1>6

LEMMA AMessage ==
  ASSUME NEW m \in LineMessages
  PROVE  /\ m.type # "done" => m \in LineParts(AnswerPieces)
         /\ m.type = "done" => m.kind \in {"opened", "refused"}
         /\ m.type \in {"done", "command", "indicate"} /\ m.tx \in Nat
  BY DEF LineMessages, LineParts

LEMMA CollectorTypes ==
  ASSUME LineTypes, NEW tx, NEW new,
         tx \in Transactions \cup {0} => new \in Seq(LineParts(AnswerPieces)) /\ Len(new) < AnswerPieces,
         collector' = [collector EXCEPT ![tx] = new]
  PROVE  /\ collector' = [t \in Transactions \cup {0} |-> collector'[t]]
         /\ \A t \in Transactions \cup {0} :
              collector'[t] \in Seq(LineParts(AnswerPieces)) /\ Len(collector'[t]) < AnswerPieces
         /\ \A t \in Transactions \cup {0} : collector'[t] = IF t = tx THEN new ELSE collector[t]
  <1> DEFINE T == Transactions \cup {0}
  <1>1. collector = [t \in T |-> collector[t]]
    BY DEF LineTypes
  <1>2. \A t \in T : collector[t] \in Seq(LineParts(AnswerPieces)) /\ Len(collector[t]) < AnswerPieces
    BY DEF LineTypes
  <1> HIDE DEF T
  <1>3. collector' = [t \in T |-> collector'[t]] /\ \A t \in T : collector'[t] = IF t = tx THEN new ELSE collector[t]
    BY <1>1
  <1>4. \A t \in T : collector'[t] \in Seq(LineParts(AnswerPieces)) /\ Len(collector'[t]) < AnswerPieces
    BY <1>2, <1>3 DEF T
  <1> QED
    BY <1>3, <1>4 DEF T

LEMMA LineTypesStep ==
  ASSUME CallTypes, LineTypes, NumbersInv, MBIMNext
  PROVE  LineTypes'
  <1> DEFINE T == Transactions \cup {0}
             P == LineParts(AnswerPieces)
             CT == /\ collector' = [tx \in T |-> collector'[tx]]
                   /\ \A tx \in T : collector'[tx] \in Seq(P) /\ Len(collector'[tx]) < AnswerPieces
  <1>0. /\ line \in Seq(LineMessages) /\ accepted \in [Transactions -> Whats] /\ version \in Nat
        /\ indicationQueue \in Seq(Seq(P)) /\ AnswerPieces \in Nat /\ AnswerPieces > 0
        /\ collector = [tx \in T |-> collector[tx]]
        /\ \A tx \in T : collector[tx] \in Seq(P) /\ Len(collector[tx]) < AnswerPieces
    <2>1. AnswerPieces \in Nat /\ AnswerPieces > 0
      BY MBIMAssumption
    <2> QED
      BY <2>1 DEF LineTypes
  <1>1. ASSUME CT, line' \in Seq(LineMessages), accepted' \in [Transactions -> Whats], version' \in Nat,
               indicationQueue' \in Seq(Seq(P))
        PROVE  LineTypes'
    BY <1>1 DEF LineTypes
  <1>2. ASSUME UNCHANGED collector PROVE CT
    BY <1>0, <1>2
  <1>3. line # <<>> => /\ Head(line) \in LineMessages /\ Tail(line) \in Seq(LineMessages)
                       /\ <<Head(line)>> \o line \in Seq(LineMessages)
    <2>1. line # <<>> => Head(line) \in LineMessages /\ Tail(line) \in Seq(LineMessages)
      BY <1>0
    <2> QED
      BY <1>0, <2>1
  <1>4. \A tx \in Transactions, short \in BOOLEAN : Fragments("command", tx, tx, short) \in Seq(LineMessages)
    <2> SUFFICES ASSUME NEW tx \in Transactions, NEW short \in BOOLEAN
                 PROVE  Fragments("command", tx, tx, short) \in Seq(LineMessages)
      OBVIOUS
    <2>1. tx \in Nat
      BY DEF Transactions
    <2>2. LET F == Fragments("command", tx, tx, short) IN F \in Seq(LineMessages)
      BY <2>1, AFragment
    <2> QED
      BY <2>2
  <1> HIDE DEF T, P, CT
  <1>5. ASSUME UNCHANGED <<collector, line, accepted, version, indicationQueue>> PROVE LineTypes'
    BY <1>0, <1>1, <1>2, <1>5
  <1>6. CASE \/ Open \/ OpenGoesOn \/ CloseBegins \/ CloseEnds
             \/ \E c \in MBIMUsers : Command(c) \/ TakeWriteMu(c) \/ WriteFails(c) \/ ContextDone(c) \/ TakeAnswer(c)
    BY <1>5, <1>6 DEF Open, OpenGoesOn, CloseBegins, CloseEnds, Command, TakeWriteMu, WriteFails,
       ContextDone,
       TakeAnswer, CallReturns, deviceVars, modemVars, monitorVars
  <1>7. ASSUME NEW c \in MBIMUsers, WriteMessage(c) PROVE LineTypes'
    <2>1. \E tx, n, total : ModuleReceives(tx, n, total, request[c].what)
      BY <1>7 DEF WriteMessage
    <2>2. request[c].what \in Whats
      BY DEF CallTypes, MBIMRequests
    <2>3. accepted' \in [Transactions -> Whats]
      BY <1>0, <2>1, <2>2 DEF ModuleReceives
    <2>4. UNCHANGED <<collector, line, version, indicationQueue>>
      BY <1>7 DEF WriteMessage, deviceVars, monitorVars
    <2> QED
      BY <1>0, <1>1, <1>2, <2>3, <2>4
  <1>8. ASSUME NEW tx \in Transactions, ModuleReplies(tx) PROVE LineTypes'
    <2>1. accepted' \in [Transactions -> Whats]
      BY <1>0, <1>8 DEF ModuleReplies, Whats
    <2>2. UNCHANGED <<collector, version, indicationQueue>>
      BY <1>8 DEF ModuleReplies, deviceVars, monitorVars
    <2>3. line' \in Seq(LineMessages)
      <3>1. CASE \E kind \in {"opened", "refused"} : line' = Append(line, [type |-> "done", tx |-> tx, kind |-> kind])
        <4>1. PICK kind \in {"opened", "refused"} : line' = Append(line, [type |-> "done", tx |-> tx, kind |-> kind])
          BY <3>1
        <4>2. [type |-> "done", tx |-> tx, kind |-> kind] \in LineMessages
          BY DEF LineMessages, Transactions
        <4> QED
          BY <1>0, <4>1, <4>2
      <3>2. CASE \E short \in BOOLEAN : line' = line \o Fragments("command", tx, tx, short)
        <4>1. PICK short \in BOOLEAN, f \in Seq(LineMessages) : line' = line \o f
          BY <1>4, <3>2
        <4> QED
          BY <1>0, <4>1
      <3> QED
        BY <1>8, <3>1, <3>2 DEF ModuleReplies, WholeAnswer
    <2> QED
      BY <1>0, <1>1, <1>2, <2>1, <2>2, <2>3
  <1>9. CASE ModuleChanges
    <2>0. version' \in Nat /\ line' = line \o Fragments("indicate", 0, version', FALSE)
      BY <1>0, <1>9 DEF ModuleChanges
    <2>1. PICK v, f : v \in Nat /\ f = Fragments("indicate", 0, v, FALSE) /\ line' = line \o f
      BY <2>0
    <2>2. LET F == Fragments("indicate", 0, v, FALSE) IN F \in Seq(LineMessages)
      BY <2>1, AFragment
    <2>3. f \in Seq(LineMessages)
      BY <2>1, <2>2
    <2>4. line' \in Seq(LineMessages)
      <3>1. LET j == line \o f IN j \in Seq(LineMessages)
        BY <1>0, <2>3, JoinOf
      <3> QED
        BY <2>1, <3>1
    <2>5. version' \in Nat /\ UNCHANGED <<collector, accepted, indicationQueue>>
      BY <1>0, <1>9 DEF ModuleChanges, deviceVars, monitorVars
    <2> QED
      BY <1>0, <1>1, <1>2, <2>4, <2>5
  <1>10. CASE LosesMessage \/ RepeatsMessage \/ ReadDone
    <2>1. UNCHANGED <<collector, accepted, version, indicationQueue>>
      BY <1>10 DEF LosesMessage, RepeatsMessage, ReadDone, deviceVars, modemVars, monitorVars
    <2>2. line' \in Seq(LineMessages)
      BY <1>3, <1>10 DEF LosesMessage, RepeatsMessage, ReadDone
    <2> QED
      BY <1>0, <1>1, <1>2, <2>1, <2>2
  <1>11. ASSUME NEW tx \in T, NEW new, collector' = [collector EXCEPT ![tx] = new],
                new = <<>> \/ (\E m \in P : ~Complete(collector[tx], m) /\ new = Adds(collector[tx], m))
         PROVE  CT
    <2>1. collector[tx] \in Seq(P) /\ Len(collector[tx]) < AnswerPieces
      BY <1>0
    <2>2. new \in Seq(P) /\ Len(new) < AnswerPieces
      <3>1. CASE new = <<>>
        BY <1>0, <3>1
      <3>2. CASE \E m \in P : ~Complete(collector[tx], m) /\ new = Adds(collector[tx], m)
        <4>1. PICK m \in P : ~Complete(collector[tx], m) /\ new = Adds(collector[tx], m)
          BY <3>2
        <4>2. PICK old : old = collector[tx]
          OBVIOUS
        <4>3. /\ m.current # Len(old) => Adds(old, m) = old
              /\ m.current = Len(old) =>
                   /\ Adds(old, m) \in Seq(P) /\ Len(Adds(old, m)) = Len(old) + 1
                   /\ Complete(old, m) <=> Len(old) + 1 = AnswerPieces
          BY <2>1, <4>2, Collected DEF P
        <4>4. CASE m.current # Len(old)
          BY <2>1, <4>1, <4>2, <4>3, <4>4
        <4>5. CASE m.current = Len(old)
          <5>1. new \in Seq(P) /\ Len(new) = Len(old) + 1 /\ Len(old) + 1 # AnswerPieces /\ Len(old) < AnswerPieces
            BY <2>1, <4>1, <4>2, <4>3, <4>5
          <5>2. Len(old) \in Nat
            BY <2>1, <4>2
          <5> QED
            BY <1>0, <5>1, <5>2
        <4> QED
          BY <4>4, <4>5
      <3> QED
        BY <1>11, <3>1, <3>2
    <2> QED
      BY <1>11, <2>2, CollectorTypes DEF CT, T, P
  <1>12. CASE ReadCommandDone
    <2>1. PICK m \in LineMessages : m = Head(line) /\ m.type = "command"
      BY <1>3, <1>12 DEF ReadCommandDone
    <2>2. m \in P
      BY <2>1, AMessage DEF P
    <2>3. CT
      <3>1. CASE m.tx \notin T
        <4>1. collector' = collector
          BY <1>0, <1>12, <2>1, <3>1 DEF ReadCommandDone
        <4> QED
          BY <1>2, <4>1
      <3>2. CASE m.tx \in T
        <4>1. \/ collector' = [collector EXCEPT ![m.tx] = <<>>]
              \/ /\ ~Complete(collector[m.tx], m)
                 /\ collector' = [collector EXCEPT ![m.tx] = Adds(collector[m.tx], m)]
          BY <1>12, <2>1 DEF ReadCommandDone
        <4> QED
          BY <1>11, <2>2, <3>2, <4>1
      <3> QED
        BY <3>1, <3>2
    <2>4. UNCHANGED <<accepted, version, indicationQueue>> /\ line' \in Seq(LineMessages)
      BY <1>3, <1>12 DEF ReadCommandDone, modemVars, monitorVars
    <2> QED
      BY <1>0, <1>1, <2>3, <2>4
  <1>13. CASE ReadIndication
    <2>1. PICK m, old : m \in LineMessages /\ m = Head(line) /\ m.type = "indicate" /\ old = collector[0]
      BY <1>3, <1>13 DEF ReadIndication
    <2>2. m \in P /\ 0 \in T /\ old \in Seq(P) /\ Len(old) < AnswerPieces
      <3>1. 0 \in T
        BY DEF T
      <3> QED
        BY <1>0, <2>1, <3>1, AMessage DEF P
    <2>3. CT
      <3>1. \/ collector' = [collector EXCEPT ![0] = <<>>]
            \/ ~Complete(old, m) /\ collector' = [collector EXCEPT ![0] = Adds(old, m)]
        BY <1>13, <2>1 DEF ReadIndication
      <3> QED
        BY <1>11, <2>1, <2>2, <3>1
    <2>4. indicationQueue' \in Seq(Seq(P))
      <3>1. Complete(old, m) => Adds(old, m) \in Seq(P)
        BY <2>2, Collected DEF P
      <3>2. \/ indicationQueue' = indicationQueue
            \/ Complete(old, m) /\ indicationQueue' = Append(indicationQueue, Adds(old, m))
        BY <1>13, <2>1 DEF ReadIndication
      <3>3. PICK Q, whole : Q = Seq(P) /\ whole = Adds(old, m)
        OBVIOUS
      <3>4. indicationQueue \in Seq(Q)
        BY <1>0, <3>3
      <3>5. indicationQueue' = indicationQueue \/ (whole \in Q /\ indicationQueue' = Append(indicationQueue, whole))
        BY <3>1, <3>2, <3>3
      <3>6. whole \in Q => Append(indicationQueue, whole) \in Seq(Q)
        BY <3>4
      <3>7. indicationQueue' \in Seq(Q)
        BY <3>4, <3>5, <3>6
      <3> QED
        BY <3>3, <3>7
    <2>5. UNCHANGED <<accepted, version>> /\ line' \in Seq(LineMessages)
      BY <1>3, <1>13 DEF ReadIndication, modemVars
    <2> QED
      BY <1>0, <1>1, <2>3, <2>4, <2>5
  <1>14. CASE ReadFails
    <2>1. CT
      BY <1>0, <1>14 DEF ReadFails, CT, T
    <2>2. UNCHANGED <<line, accepted, version, indicationQueue>>
      BY <1>14 DEF ReadFails, modemVars, monitorVars
    <2> QED
      BY <1>0, <1>1, <2>1, <2>2
  <1>15. CASE Run
    <2>1. indicationQueue' \in Seq(Seq(P)) /\ UNCHANGED <<collector, line, accepted, version>>
      BY <1>0, <1>15 DEF Run, deviceVars, modemVars
    <2> QED
      BY <1>0, <1>1, <1>2, <2>1
  <1> QED
    BY <1>6, <1>7, <1>8, <1>9, <1>10, <1>12, <1>13, <1>14, <1>15 DEF MBIMNext, MBIMCall, Reading

-----------------------------------------------------------------------------
(* One caller at a time writes.                                            *)

LEMMA WritersStep ==
  ASSUME CallTypes, NumbersInv, WritersInv, MBIMNext
  PROVE  WritersInv'
  <1>0. /\ Opener \in MBIMUsers /\ Opener \notin MBIMCallers /\ MBIMCallers \subseteq MBIMUsers
        /\ NoWriter \notin MBIMUsers /\ request \in MBIMRequests
        /\ \A c \in MBIMUsers : c \in MBIMCallers \/ c = Opener
    BY MBIMAssumption DEF MBIMUsers, CallTypes
  <1>1. ASSUME UNCHANGED <<request, writeMu, assembling, opened, garbled>> PROVE WritersInv'
    BY <1>1 DEF WritersInv
  <1>2. CASE Open
    <2>1. PICK what \in {"config", "open"} : Register(Opener, what)
      BY <1>2 DEF Open
    <2>2. OnlyAsks(Opener) /\ request'[Opener].what = what
      BY <1>0, <2>1, RegisterAsks
    <2>3. \A c \in MBIMUsers : c # Opener => request'[c] = request[c] /\ request[c] = Resting
      BY <1>0, <1>2, <2>2 DEF OnlyAsks, WritersInv, Open
    <2>4. opened' = "busy" /\ UNCHANGED <<writeMu, garbled>>
      BY <1>2 DEF Open
    <2> QED
      BY <1>0, <2>2, <2>3, <2>4 DEF OnlyAsks, WritersInv, Resting
  <1>3. CASE OpenGoesOn
    <2>0. \A c \in MBIMCallers : request[c] = Resting
      BY <1>3 DEF OpenGoesOn, WritersInv
    <2>1. CASE Register(Opener, "open") /\ UNCHANGED opened
      <3>1. OnlyAsks(Opener) /\ request'[Opener].what = "open"
        BY <1>0, <2>1, RegisterAsks
      <3>2. \A c \in MBIMUsers : c # Opener => request'[c] = request[c] /\ request[c] = Resting
        BY <1>0, <2>0, <3>1 DEF OnlyAsks
      <3>3. opened' = "busy" /\ UNCHANGED <<writeMu, garbled>>
        BY <1>3, <2>1 DEF OpenGoesOn
      <3> QED
        BY <1>0, <3>1, <3>2, <3>3 DEF OnlyAsks, WritersInv, Resting
    <2>2. CASE UNCHANGED request /\ request[Opener].step = "done"
      <3>1. UNCHANGED <<writeMu, assembling, garbled>>
        BY <1>3 DEF OpenGoesOn, modemVars
      <3> QED
        BY <2>0, <2>2, <3>1 DEF WritersInv
    <2> QED
      BY <1>3, <2>1, <2>2 DEF OpenGoesOn
  <1>4. ASSUME NEW c \in MBIMUsers, Command(c) PROVE WritersInv'
    <2>1. /\ c \in MBIMCallers /\ Register(c, "command") /\ opened = "yes"
          /\ UNCHANGED <<opened, writeMu, assembling, garbled>>
      BY <1>4 DEF Command, modemVars
    <2>2. OnlyAsks(c) /\ request'[c].what = "command"
      BY <2>1, RegisterAsks
    <2>3. request'[c].step = "lock" /\ request'[c].sent = 0 /\ \A d \in MBIMUsers : d # c => request'[d] = request[d]
      BY <2>2 DEF OnlyAsks
    <2> QED
      BY <1>0, <2>1, <2>3 DEF WritersInv
  <1>5. ASSUME NEW c \in MBIMUsers, CallMoves(c), ~garbled',
               \/ request'[c].step \in {"wait", "done"}
               \/ /\ c \in MBIMCallers /\ request'[c].step = "send" /\ writeMu' = c
                  /\ request'[c].sent > 0 => assembling' = [tx |-> request'[c].tx, next |-> request'[c].sent]
               \/ c = Opener /\ request'[c].step = "send" /\ request'[c].sent = 0,
               c = Opener => request[c].step \in {"lock", "send", "wait"},
               \A d \in MBIMCallers : d # c /\ request[d].step = "send" => UNCHANGED <<writeMu, assembling>>
        PROVE  WritersInv'
    <2>1. /\ request'[c].what = request[c].what /\ \A d \in MBIMUsers : d # c => request'[d] = request[d]
          /\ opened' = opened /\ request[c].step # "idle" /\ ~garbled'
      BY <1>5 DEF CallMoves
    <2>2. request'[Opener].what # "command"
      BY <1>0, <2>1 DEF WritersInv
    <2>3. request'[Opener].step \in {"lock", "send", "wait"} => opened' = "busy"
      BY <1>0, <1>5, <2>1 DEF WritersInv
    <2>4. \A d \in MBIMUsers : request'[d].step = "lock" \/ (d = Opener /\ request'[d].step = "send") =>
            request'[d].sent = 0
      BY <1>0, <1>5, <2>1 DEF WritersInv
    <2>5. \A d \in MBIMCallers : request'[d] # Resting => opened' = "yes"
      BY <1>0, <2>1 DEF WritersInv, Resting
    <2>6. \A d \in MBIMCallers : request'[d].step = "send" =>
            /\ writeMu' = d
            /\ request'[d].sent > 0 => assembling' = [tx |-> request'[d].tx, next |-> request'[d].sent]
      BY <1>0, <1>5, <2>1 DEF WritersInv
    <2> QED
      BY <2>1, <2>2, <2>3, <2>4, <2>5, <2>6 DEF WritersInv
  <1>6. ASSUME NEW c \in MBIMUsers, TakeWriteMu(c) PROVE WritersInv'
    <2>1. CallMoves(c)
      BY <1>6, OtherCallsMove
    <2>2. /\ request[c].step = "lock" /\ writeMu = NoWriter /\ writeMu' = c
          /\ request' = [request EXCEPT ![c].step = "send"] /\ UNCHANGED <<garbled, assembling>>
      BY <1>6 DEF TakeWriteMu, modemVars
    <2>3. request'[c].step = "send" /\ request'[c].sent = 0
      <3>1. request[c].sent = 0
        BY <2>2 DEF WritersInv
      <3> QED
        BY <1>0, <2>2, <3>1 DEF MBIMRequests
    <2>4. \A d \in MBIMCallers : request[d].step # "send"
      BY <1>0, <2>2 DEF WritersInv
    <2> QED
      BY <1>0, <1>5, <2>1, <2>2, <2>3, <2>4 DEF WritersInv
  <1>7. ASSUME NEW c \in MBIMUsers, WriteMessage(c) PROVE WritersInv'
    <2>1. CallMoves(c)
      BY <1>7, OtherCallsMove
    <2> DEFINE last == request[c].sent + 1 = PiecesOf(c)
    <2>2. /\ request[c].step = "send"
          /\ garbled' = (garbled \/ (request[c].sent > 0
                                     /\ assembling # [tx |-> request[c].tx, next |-> request[c].sent]))
          /\ assembling' = [tx |-> request[c].tx, next |-> request[c].sent + 1]
          /\ request' = [request EXCEPT ![c].sent = @ + 1, ![c].step = IF last THEN "wait" ELSE "send"]
          /\ IF last THEN Releases(c) ELSE UNCHANGED writeMu
      BY <1>7 DEF WriteMessage, ModuleReceives
    <2>3. c = Opener => request[c].sent = 0 /\ last
      <3>1. c = Opener => request[c].sent = 0
        BY <2>2 DEF WritersInv
      <3>2. c = Opener => PiecesOf(c) = 1
        BY DEF PiecesOf, WritersInv
      <3> QED
        BY <3>1, <3>2
    <2>4. ~garbled'
      <3>1. request[c].sent > 0 => assembling = [tx |-> request[c].tx, next |-> request[c].sent]
        BY <1>0, <2>2, <2>3 DEF WritersInv
      <3>2. ~garbled
        BY DEF WritersInv
      <3>3. garbled' = (garbled \/ (request[c].sent > 0
                                    /\ assembling # [tx |-> request[c].tx, next |-> request[c].sent]))
        BY <2>2
      <3> QED
        BY <3>1, <3>2, <3>3
    <2>5. request'[c].sent = request[c].sent + 1 /\ request'[c].step = (IF last THEN "wait" ELSE "send")
      BY <1>0, <2>2 DEF MBIMRequests
    <2> HIDE DEF last
    <2>6. \A d \in MBIMCallers : d # c /\ request[d].step = "send" => FALSE
      <3>1. CASE c = Opener
        <4>1. \A d \in MBIMCallers : request[d] = Resting
          BY <2>2, <3>1 DEF WritersInv
        <4> QED
          BY <4>1 DEF Resting
      <3>2. CASE c \in MBIMCallers
        BY <2>2, <3>2 DEF WritersInv
      <3> QED
        BY <1>0, <3>1, <3>2
    <2>7. ~last => c \in MBIMCallers /\ request'[c].step = "send" /\ writeMu' = c
                   /\ assembling' = [tx |-> request'[c].tx, next |-> request'[c].sent]
      BY <1>0, <2>1, <2>2, <2>3, <2>5 DEF WritersInv, CallMoves
    <2> QED
      BY <1>5, <2>1, <2>2, <2>4, <2>5, <2>6, <2>7
  <1>8. ASSUME NEW c \in MBIMUsers, WriteFails(c) \/ ContextDone(c) \/ TakeAnswer(c) PROVE WritersInv'
    <2>1. CallMoves(c)
      BY <1>8, OtherCallsMove
    <2>2. request' = [request EXCEPT ![c].step = "done"] /\ request[c].step \in {"send", "wait"}
          /\ UNCHANGED <<garbled, assembling>> /\ (Releases(c) \/ UNCHANGED writeMu)
      BY <1>8 DEF WriteFails, ContextDone, TakeAnswer, CallReturns, modemVars
    <2>3. request'[c].step = "done"
      BY <1>0, <2>2 DEF MBIMRequests
    <2>4. \A d \in MBIMCallers : d # c /\ request[d].step = "send" => UNCHANGED <<writeMu, assembling>>
      BY <2>2 DEF WritersInv, Releases
    <2> QED
      BY <1>5, <2>1, <2>2, <2>3, <2>4 DEF WritersInv
  <1>9. CASE \/ CloseBegins \/ CloseEnds \/ \E tx \in Transactions : ModuleReplies(tx)
             \/ ModuleChanges \/ LosesMessage \/ RepeatsMessage \/ Reading \/ Run
    BY <1>1, <1>9 DEF CloseBegins, CloseEnds, ModuleReplies, ModuleChanges, LosesMessage,
       RepeatsMessage, Reading,
       ReadDone, ReadCommandDone, ReadIndication, ReadFails, Run, callingVars, deviceVars, modemVars
  <1> QED
    BY <1>2, <1>3, <1>4, <1>6, <1>7, <1>8, <1>9 DEF MBIMNext, MBIMCall

-----------------------------------------------------------------------------
(* A number is answered once.                                              *)

LEMMA UnwrittenBefore ==
  ASSUME CallTypes, NumbersInv, WritersInv, MBIMNext \/ UNCHANGED mbimVars, NEW tx \in Transactions, Unwritten(tx)'
  PROVE  Unwritten(tx)
  <1>0. tx \in Nat /\ nextTx \in Nat /\ request \in MBIMRequests
    BY DEF Transactions, CallTypes
  <1>1. ASSUME UNCHANGED request, nextTx' = nextTx \/ nextTx' = nextTx + 1 PROVE Unwritten(tx)
    BY <1>0, <1>1 DEF Unwritten
  <1>2. ASSUME NEW c \in MBIMUsers, OnlyAsks(c) PROVE Unwritten(tx)
    BY <1>0, <1>2 DEF Unwritten, OnlyAsks
  <1>3. ASSUME NEW c \in MBIMUsers, CallMoves(c), request[c].step \in {"lock", "send"} \/ request'[c].step = "done"
        PROVE  Unwritten(tx)
    BY <1>3 DEF Unwritten, CallMoves
  <1>4. CASE Open
    <2>1. PICK what \in {"config", "open"} : Register(Opener, what)
      BY <1>4 DEF Open
    <2> QED
      BY <1>2, <2>1, RegisterAsks DEF MBIMUsers
  <1>5. CASE OpenGoesOn
    BY <1>1, <1>2, <1>5, RegisterAsks DEF OpenGoesOn, MBIMUsers
  <1>6. ASSUME NEW c \in MBIMUsers, Command(c) PROVE Unwritten(tx)
    BY <1>2, <1>6, RegisterAsks DEF Command
  <1>7. ASSUME NEW c \in MBIMUsers,
               TakeWriteMu(c) \/ WriteMessage(c) \/ WriteFails(c) \/ ContextDone(c) \/ TakeAnswer(c)
        PROVE  Unwritten(tx)
    <2>1. CallMoves(c)
      BY <1>7, OtherCallsMove
    <2>2. request[c].step \in {"lock", "send"} \/ request' = [request EXCEPT ![c].step = "done"]
      BY <1>7 DEF TakeWriteMu, WriteMessage, WriteFails, ContextDone, TakeAnswer, CallReturns
    <2>3. request[c].step \in {"lock", "send"} \/ request'[c].step = "done"
      BY <1>0, <2>2 DEF MBIMRequests
    <2> QED
      BY <1>3, <2>1, <2>3
  <1>8. CASE \/ CloseBegins \/ CloseEnds \/ \E t \in Transactions : ModuleReplies(t)
             \/ ModuleChanges \/ LosesMessage \/ RepeatsMessage \/ Reading \/ Run \/ UNCHANGED mbimVars
    BY <1>1, <1>8 DEF CloseBegins, CloseEnds, ModuleReplies, ModuleChanges, LosesMessage,
       RepeatsMessage, Reading,
       ReadDone, ReadCommandDone, ReadIndication, ReadFails, Run, callingVars, deviceVars, mbimVars
  <1> QED
    BY <1>4, <1>5, <1>6, <1>7, <1>8 DEF MBIMNext, MBIMCall

LEMMA AnswersKept ==
  ASSUME AnswersInv,
         \A n \in DOMAIN line' : \/ \E k \in DOMAIN line : line'[n] = line[k]
                                 \/ line'[n].tx \notin Transactions,
         \A tx \in Transactions : collector'[tx] = collector[tx] \/ collector'[tx] = <<>>,
         \A tx \in Transactions :
           /\ Unwritten(tx)' => Unwritten(tx) /\ accepted'[tx] = accepted[tx]
           /\ accepted'[tx] # "nothing" => accepted[tx] # "nothing" \/ Unwritten(tx)
  PROVE  AnswersInv'
  <1> SUFFICES ASSUME NEW tx \in Transactions
               PROVE  /\ \E short \in BOOLEAN : Answering(tx, short)'
                      /\ Unwritten(tx)' => accepted'[tx] = "nothing" /\ Quiet(tx)'
                      /\ accepted'[tx] # "nothing" => Quiet(tx)'
    BY DEF AnswersInv
  <1>1. PICK short \in BOOLEAN : Answering(tx, short)
    BY DEF AnswersInv
  <1>2. Answering(tx, short)'
    <2>1. ASSUME NEW n \in DOMAIN line', line'[n].type = "command", line'[n].tx = tx
          PROVE  \E i \in 1 .. AnswerPieces : line'[n] = AnswerTo(tx, short)[i]
      <3>1. PICK k \in DOMAIN line : line'[n] = line[k]
        BY <2>1
      <3> QED
        BY <1>1, <2>1, <3>1 DEF Answering
    <2>2. \A i \in DOMAIN collector'[tx] : collector'[tx][i] = AnswerTo(tx, short)[i]
      BY <1>1 DEF Answering
    <2> QED
      BY <2>1, <2>2 DEF Answering, AnswerTo
  <1>3. Quiet(tx) => Quiet(tx)'
    BY DEF Quiet
  <1> QED
    BY <1>2, <1>3 DEF AnswersInv

LEMMA AnswersReplied ==
  ASSUME AnswersInv, LineTypes, NEW tx \in Transactions, NEW f \in Seq(LineMessages), NEW short \in BOOLEAN,
         \A n \in DOMAIN f :
           f[n].tx = tx /\ (f[n].type = "command" => \E i \in 1 .. AnswerPieces : f[n] = AnswerTo(tx, short)[i]),
         line' = line \o f, UNCHANGED collector, accepted[tx] # "nothing",
         accepted' = [accepted EXCEPT ![tx] = "nothing"],
         \A t \in Transactions : Unwritten(t)' => Unwritten(t)
  PROVE  AnswersInv'
  <1>0. /\ line \in Seq(LineMessages) /\ accepted \in [Transactions -> Whats]
    BY DEF LineTypes
  <1>1. \A n \in DOMAIN line' : \/ n \in DOMAIN line /\ line'[n] = line[n]
                                \/ \E k \in DOMAIN f : line'[n] = f[k]
    <2>1. LET j == line \o f
          IN  \A n \in DOMAIN j : \/ n \in DOMAIN line
                                  \/ n - Len(line) \in DOMAIN f /\ j[n] = f[n - Len(line)]
      BY <1>0, JoinOf
    <2>2. LET j == line \o f
          IN  \A n \in DOMAIN line : n \in DOMAIN j /\ j[n] = line[n]
      BY <1>0, JoinOf
    <2> QED
      BY <2>1, <2>2
  <1>2. Quiet(tx) /\ ~Unwritten(tx) /\ accepted'[tx] = "nothing"
    BY <1>0 DEF AnswersInv
  <1>3. Answering(tx, short)'
    <2>1. ASSUME NEW n \in DOMAIN line', line'[n].type = "command", line'[n].tx = tx
          PROVE  \E i \in 1 .. AnswerPieces : line'[n] = AnswerTo(tx, short)[i]
      <3>1. CASE \E k \in DOMAIN f : line'[n] = f[k]
        BY <2>1, <3>1
      <3>2. CASE n \in DOMAIN line /\ line'[n] = line[n]
        BY <1>2, <2>1, <3>2 DEF Quiet
      <3> QED
        BY <1>1, <3>1, <3>2
    <2>2. \A i \in DOMAIN collector'[tx] : collector'[tx][i] = AnswerTo(tx, short)[i]
      BY <1>2 DEF Quiet
    <2> QED
      BY <2>1, <2>2 DEF Answering, AnswerTo
  <1>4. ASSUME NEW t \in Transactions, t # tx
        PROVE  /\ \E s \in BOOLEAN : Answering(t, s)'
               /\ Unwritten(t)' => accepted'[t] = "nothing" /\ Quiet(t)'
               /\ accepted'[t] # "nothing" => Quiet(t)'
    <2>1. PICK s \in BOOLEAN : Answering(t, s)
      BY DEF AnswersInv
    <2>2. Answering(t, s)'
      <3>1. ASSUME NEW n \in DOMAIN line', line'[n].type = "command", line'[n].tx = t
            PROVE  \E i \in 1 .. AnswerPieces : line'[n] = AnswerTo(t, s)[i]
        <4>1. n \in DOMAIN line /\ line'[n] = line[n]
          BY <1>1, <1>4, <3>1
        <4> QED
          BY <2>1, <3>1, <4>1 DEF Answering
      <3>2. \A i \in DOMAIN collector'[t] : collector'[t][i] = AnswerTo(t, s)[i]
        BY <2>1 DEF Answering
      <3> QED
        BY <3>1, <3>2 DEF Answering, AnswerTo
    <2>3. Quiet(t) => Quiet(t)'
      BY <1>1, <1>4 DEF Quiet
    <2>4. accepted'[t] = accepted[t]
      BY <1>0, <1>4
    <2> QED
      BY <2>2, <2>3, <2>4 DEF AnswersInv
  <1> QED
    BY <1>2, <1>3, <1>4 DEF AnswersInv

LEMMA AnAnswer ==
  ASSUME NEW tx \in Nat, NEW short \in BOOLEAN
  PROVE  /\ AnswerTo(tx, short) \in Seq(LineMessages) /\ Len(AnswerTo(tx, short)) = AnswerPieces
         /\ DOMAIN AnswerTo(tx, short) = 1 .. AnswerPieces
         /\ \A i \in 1 .. AnswerPieces :
              /\ AnswerTo(tx, short)[i].type = "command" /\ AnswerTo(tx, short)[i].tx = tx
              /\ AnswerTo(tx, short)[i].short = short /\ AnswerTo(tx, short)[i].current = i - 1
  <1>1. PICK type \in {"command", "indicate"}, of \in Nat : type = "command" /\ of = tx
    OBVIOUS
  <1>2. PICK F : F = Fragments(type, tx, of, short)
    OBVIOUS
  <1>3. F \in Seq(LineMessages) /\ Len(F) = AnswerPieces /\ DOMAIN F = 1 .. AnswerPieces
    BY <1>2, AFragment
  <1>4. ASSUME NEW i \in 1 .. AnswerPieces
        PROVE  F[i].type = type /\ F[i].tx = tx /\ F[i].short = short /\ F[i].current = i - 1
    <2>1. F[i] = [type |-> type, tx |-> tx, of |-> of, current |-> i - 1, total |-> AnswerPieces, short |-> short]
      BY <1>2 DEF Fragments
    <2> QED
      BY <2>1
  <1>5. F = AnswerTo(tx, short)
    BY <1>1, <1>2 DEF AnswerTo
  <1> QED
    BY <1>1, <1>3, <1>4, <1>5

(* A fragment that is next is the next of the answer, and the last makes   *)
(* it whole.                                                               *)
StartOf(got, tx, short) == \A i \in DOMAIN got : got[i] = AnswerTo(tx, short)[i]

LEMMA AnswerCollected ==
  ASSUME NEW tx \in Nat, NEW short \in BOOLEAN, NEW old \in Seq(LineParts(AnswerPieces)), Len(old) < AnswerPieces,
         StartOf(old, tx, short),
         NEW j \in 1 .. AnswerPieces, NEW m \in LineParts(AnswerPieces), m = AnswerTo(tx, short)[j]
  PROVE  /\ StartOf(Adds(old, m), tx, short)
         /\ Complete(old, m) => Adds(old, m) = AnswerTo(tx, short) /\ Adds(old, m)[1].short = short
  <1> DEFINE F == AnswerTo(tx, short)
             new == Adds(old, m)
             A == AnswerPieces
  <1>1. /\ F \in Seq(LineMessages) /\ Len(F) = A /\ DOMAIN F = 1 .. A /\ A \in Nat /\ A > 0
        /\ \A i \in 1 .. A : F[i].current = i - 1 /\ F[i].short = short
    <2>1. /\ F \in Seq(LineMessages) /\ Len(F) = AnswerPieces /\ DOMAIN F = 1 .. AnswerPieces
          /\ \A i \in 1 .. AnswerPieces : F[i].tx = tx /\ F[i].short = short /\ F[i].current = i - 1
      <3>1. F \in Seq(LineMessages) /\ Len(F) = AnswerPieces /\ DOMAIN F = 1 .. AnswerPieces
        BY AnAnswer
      <3>2. ASSUME NEW i \in 1 .. AnswerPieces PROVE F[i].tx = tx /\ F[i].short = short /\ F[i].current = i - 1
        BY AnAnswer
      <3> QED
        BY <3>1, <3>2
    <2>2. AnswerPieces \in Nat /\ AnswerPieces > 0
      BY MBIMAssumption
    <2> QED
      BY <2>1, <2>2
  <1>2. Len(old) \in Nat /\ j \in Nat /\ m.current = j - 1 /\ m = F[j]
    BY <1>1
  <1>3. /\ m.current # Len(old) => new = old /\ ~Complete(old, m)
        /\ m.current = Len(old) =>
             /\ new = Append(old, m) /\ new \in Seq(LineParts(AnswerPieces)) /\ Len(new) = Len(old) + 1
             /\ Complete(old, m) <=> Len(old) + 1 = AnswerPieces
    BY Collected
  <1> HIDE DEF F, new
  <1>4. CASE m.current # Len(old)
    BY <1>3, <1>4 DEF new
  <1>5. CASE m.current = Len(old)
    <2>1. j = Len(old) + 1 /\ new = Append(old, F[j])
      BY <1>2, <1>3, <1>5
    <2>2. \A i \in DOMAIN new : new[i] = F[i]
      <3>1. \A i \in DOMAIN old : old[i] = F[i]
        BY DEF F, StartOf
      <3>2. \A i \in DOMAIN new : (i \in DOMAIN old /\ new[i] = old[i]) \/ (i = j /\ new[i] = F[j])
        BY <1>2, <2>1
      <3> QED
        BY <3>1, <3>2
    <2>3. Complete(old, m) => new = F /\ new[1].short = short
      <3>1. Len(new) = Len(old) + 1 /\ DOMAIN new = 1 .. Len(new) /\ new = [i \in DOMAIN new |-> new[i]]
        BY <1>3, <1>5
      <3>2. F = [i \in DOMAIN F |-> F[i]]
        BY <1>1
      <3>3. Complete(old, m) => Len(new) = A
        BY <1>3, <1>5, <3>1
      <3>4. Complete(old, m) => new = F
        BY <1>1, <2>2, <3>1, <3>2, <3>3
      <3>5. 1 \in 1 .. A
        BY <1>1
      <3>6. F[1].short = short
        BY <1>1, <3>5
      <3> QED
        BY <3>4, <3>6
    <2> QED
      BY <2>2, <2>3 DEF F, new, StartOf
  <1> QED
    BY <1>4, <1>5

LEMMA CommandDone ==
  ASSUME LineTypes, AnswersInv, line # <<>>, NEW m, m = Head(line), m.type = "command", m.tx \in Transactions,
         NEW old, old = collector[m.tx]
  PROVE  \E short \in BOOLEAN :
           /\ Answering(m.tx, short)
           /\ StartOf(Adds(old, m), m.tx, short)
           /\ Complete(old, m) => Adds(old, m) = AnswerTo(m.tx, short) /\ Adds(old, m)[1].short = short
  <1>1. line \in Seq(LineMessages) /\ old \in Seq(LineParts(AnswerPieces)) /\ Len(old) < AnswerPieces
    BY DEF LineTypes
  <1>2. m = line[1] /\ 1 \in DOMAIN line /\ m \in LineMessages
    BY <1>1, TailOf
  <1>3. m \in LineParts(AnswerPieces) /\ m.tx \in Nat
    BY <1>2, AMessage
  <1>4. PICK short \in BOOLEAN : Answering(m.tx, short)
    BY DEF AnswersInv
  <1>5. PICK j \in 1 .. AnswerPieces : m = AnswerTo(m.tx, short)[j]
    BY <1>2, <1>4 DEF Answering
  <1>6. StartOf(old, m.tx, short)
    BY <1>4 DEF Answering, StartOf
  <1>7. PICK tx \in Nat : tx = m.tx
    BY <1>3
  <1>8. /\ StartOf(Adds(old, m), tx, short)
        /\ Complete(old, m) => Adds(old, m) = AnswerTo(tx, short) /\ Adds(old, m)[1].short = short
    <2>1. m = AnswerTo(tx, short)[j] /\ StartOf(old, tx, short)
      BY <1>5, <1>6, <1>7
    <2> QED
      BY <1>1, <1>3, <2>1, AnswerCollected
  <1> QED
    BY <1>4, <1>7, <1>8

LEMMA AnswersStep ==
  ASSUME CallTypes, LineTypes, NumbersInv, WritersInv, AnswersInv, AreNotices(line, version), MBIMNext
  PROVE  AnswersInv'
  <1>0. /\ line \in Seq(LineMessages) /\ accepted \in [Transactions -> Whats] /\ 0 \notin Transactions
        /\ Transactions \subseteq Nat
        /\ collector = [tx \in Transactions \cup {0} |-> collector[tx]]
        /\ \A tx \in Transactions : Unwritten(tx)' => Unwritten(tx)
    BY UnwrittenBefore DEF LineTypes, Transactions
  <1>1. ASSUME \A n \in DOMAIN line' : \/ \E k \in DOMAIN line : line'[n] = line[k]
                                       \/ line'[n].tx \notin Transactions,
               \A tx \in Transactions : collector'[tx] = collector[tx] \/ collector'[tx] = <<>>,
               UNCHANGED accepted
        PROVE  AnswersInv'
    BY <1>0, <1>1, AnswersKept
  <1>2. ASSUME UNCHANGED <<line, collector, accepted>> PROVE AnswersInv'
    BY <1>1, <1>2
  <1>3. line # <<>> => /\ \A n \in DOMAIN Tail(line) : \E k \in DOMAIN line : Tail(line)[n] = line[k]
                       /\ \A n \in DOMAIN (<<Head(line)>> \o line) :
                            \E k \in DOMAIN line : (<<Head(line)>> \o line)[n] = line[k]
    <2> SUFFICES ASSUME line # <<>>
                 PROVE  /\ \A n \in DOMAIN Tail(line) : \E k \in DOMAIN line : Tail(line)[n] = line[k]
                        /\ \A n \in DOMAIN (<<Head(line)>> \o line) :
                             \E k \in DOMAIN line : (<<Head(line)>> \o line)[n] = line[k]
      OBVIOUS
    <2>1. \A n \in DOMAIN Tail(line) : \E k \in DOMAIN line : Tail(line)[n] = line[k]
      BY <1>0, TailOf
    <2>2. LET d == <<Head(line)>> \o line
          IN  /\ DOMAIN d = 1 .. Len(line) + 1 /\ d[1] = line[1]
              /\ \A n \in DOMAIN d : n > 1 => n - 1 \in DOMAIN line /\ d[n] = line[n - 1]
      BY <1>0, TwiceOf
    <2>3. 1 \in DOMAIN line /\ Len(line) \in Nat
      BY <1>0, TailOf
    <2>4. PICK d : d = <<Head(line)>> \o line
      OBVIOUS
    <2>5. ASSUME NEW n \in DOMAIN d PROVE \E k \in DOMAIN line : d[n] = line[k]
      <3>1. n \in 1 .. Len(line) + 1 /\ d[1] = line[1] /\ (n > 1 => n - 1 \in DOMAIN line /\ d[n] = line[n - 1])
        BY <2>2, <2>4, <2>5
      <3>2. n = 1 \/ n > 1
        BY <2>3, <3>1
      <3> QED
        BY <2>3, <3>1, <3>2
    <2> QED
      BY <2>1, <2>4, <2>5
  <1>4. CASE \/ Open \/ OpenGoesOn \/ CloseBegins \/ CloseEnds
             \/ \E c \in MBIMUsers : Command(c) \/ TakeWriteMu(c) \/ WriteFails(c) \/ ContextDone(c) \/ TakeAnswer(c)
             \/ Run
    BY <1>2, <1>4 DEF Open, OpenGoesOn, CloseBegins, CloseEnds, Command, TakeWriteMu, WriteFails,
       ContextDone,
       TakeAnswer, CallReturns, Run, deviceVars, modemVars, monitorVars
  <1>5. ASSUME NEW c \in MBIMUsers, WriteMessage(c) PROVE AnswersInv'
    <2>1. CallMoves(c)
      BY <1>5, OtherCallsMove
    <2> DEFINE last == request[c].sent + 1 = PiecesOf(c)
    <2>2. /\ request[c].step = "send" /\ UNCHANGED <<line, collector, nextTx>>
          /\ request' = [request EXCEPT ![c].sent = @ + 1, ![c].step = IF last THEN "wait" ELSE "send"]
          /\ accepted' = IF last THEN [accepted EXCEPT ![request[c].tx] = request[c].what] ELSE accepted
      BY <1>5 DEF WriteMessage, ModuleReceives, deviceVars
    <2>3. request'[c].step = (IF last THEN "wait" ELSE "send")
      BY <2>2 DEF CallTypes, MBIMRequests
    <2> HIDE DEF last
    <2>4. PICK t \in Transactions : t = request[c].tx /\ t \in 1 .. nextTx /\ nextTx \in Nat
      BY <2>2, InRange DEF NumbersInv, CallTypes
    <2>5. Unwritten(t)
      BY <2>2, <2>4 DEF Unwritten
    <2>6. last => ~Unwritten(t)'
      <3>1. ASSUME last, NEW d \in MBIMUsers, request'[d].tx = t, request'[d].step \in {"lock", "send"}
            PROVE  FALSE
        <4>1. request[d].tx = request[c].tx /\ request[c].tx # 0
          BY <2>1, <2>4, <3>1 DEF CallMoves
        <4>2. d = c
          BY <4>1 DEF NumbersInv
        <4> QED
          BY <2>3, <3>1, <4>2
      <3>2. ~(t > nextTx')
        BY <2>2, <2>4
      <3> QED
        BY <3>1, <3>2 DEF Unwritten
    <2>7. ASSUME NEW tx \in Transactions
          PROVE  /\ Unwritten(tx)' => Unwritten(tx) /\ accepted'[tx] = accepted[tx]
                 /\ accepted'[tx] # "nothing" => accepted[tx] # "nothing" \/ Unwritten(tx)
      <3>0. Unwritten(tx)' => Unwritten(tx)
        BY <1>0
      <3>1. CASE tx # t
        <4>1. accepted'[tx] = accepted[tx]
          BY <1>0, <2>2, <2>4, <3>1
        <4> QED
          BY <3>0, <4>1
      <3>2. CASE tx = t
        <4>1. last => ~Unwritten(tx)'
          BY <2>6, <3>2
        <4>2. ~last => accepted' = accepted
          BY <2>2
        <4> QED
          BY <2>5, <3>0, <3>2, <4>1, <4>2
      <3> QED
        BY <3>1, <3>2
    <2> QED
      BY <2>2, <2>7, AnswersKept
  <1>6. CASE LosesMessage \/ RepeatsMessage \/ ReadDone
    <2>1. UNCHANGED <<collector, accepted>>
      BY <1>6 DEF LosesMessage, RepeatsMessage, ReadDone, deviceVars, modemVars
    <2>2. line # <<>> /\ (line' = Tail(line) \/ line' = <<Head(line)>> \o line)
      BY <1>6 DEF LosesMessage, RepeatsMessage, ReadDone
    <2>3. \A n \in DOMAIN line' : \E k \in DOMAIN line : line'[n] = line[k]
      BY <1>3, <2>2
    <2> QED
      BY <1>1, <2>1, <2>3
  <1>7. CASE ModuleChanges
    <2>0. version' \in Nat /\ line' = line \o Fragments("indicate", 0, version', FALSE) /\ UNCHANGED <<collector, accepted>>
      BY <1>7 DEF ModuleChanges, deviceVars, LineTypes
    <2>1. PICK v, f : v \in Nat /\ f = Fragments("indicate", 0, v, FALSE) /\ line' = line \o f
      BY <2>0
    <2>2. LET F == Fragments("indicate", 0, v, FALSE)
          IN  F \in Seq(LineMessages) /\ DOMAIN F = 1 .. AnswerPieces /\ \A i \in 1 .. AnswerPieces : F[i].tx = 0
      <3>1. PICK k \in Nat, no \in BOOLEAN : k = 0 /\ no = FALSE
        OBVIOUS
      <3>2. LET F == Fragments("indicate", k, v, no)
            IN  F \in Seq(LineMessages) /\ DOMAIN F = 1 .. AnswerPieces /\ \A i \in 1 .. AnswerPieces : F[i].tx = k
        BY <2>1, AFragment
      <3> QED
        BY <3>1, <3>2
    <2>3. f \in Seq(LineMessages) /\ \A i \in DOMAIN f : f[i].tx = 0
      BY <2>1, <2>2
    <2>4. LET j == line \o f
          IN  /\ \A n \in DOMAIN line : n \in DOMAIN j /\ j[n] = line[n]
              /\ \A n \in DOMAIN j : n \in DOMAIN line \/ (n - Len(line) \in DOMAIN f /\ j[n] = f[n - Len(line)])
      BY <1>0, <2>3, JoinOf
    <2>5. \A n \in DOMAIN line' : (\E k \in DOMAIN line : line'[n] = line[k]) \/ line'[n].tx \notin Transactions
      BY <1>0, <2>1, <2>3, <2>4
    <2> QED
      BY <1>1, <2>0, <2>5
  <1>8. ASSUME NEW tx \in Transactions, ModuleReplies(tx) PROVE AnswersInv'
    <2>1. UNCHANGED collector /\ accepted[tx] # "nothing" /\ accepted' = [accepted EXCEPT ![tx] = "nothing"]
      BY <1>8 DEF ModuleReplies, deviceVars
    <2>2. CASE \E kind \in {"opened", "refused"} : line' = Append(line, [type |-> "done", tx |-> tx, kind |-> kind])
      <3>1. PICK kind \in {"opened", "refused"} : line' = Append(line, [type |-> "done", tx |-> tx, kind |-> kind])
        BY <2>2
      <3>2. PICK m \in LineMessages : m.tx = tx /\ m.type = "done" /\ line' = Append(line, m)
        <4>1. [type |-> "done", tx |-> tx, kind |-> kind] \in LineMessages
          BY <1>0 DEF LineMessages
        <4> QED
          BY <3>1, <4>1
      <3>3. PICK f \in Seq(LineMessages) : f = <<m>> /\ \A n \in DOMAIN f : f[n] = m
        <4>1. <<m>> \in Seq(LineMessages) /\ \A n \in DOMAIN <<m>> : <<m>>[n] = m
          OBVIOUS
        <4> QED
          BY <4>1
      <3>4. line' = line \o f
        BY <1>0, <3>2, <3>3
      <3>5. TRUE \in BOOLEAN /\ \A n \in DOMAIN f : f[n].tx = tx /\ f[n].type # "command"
        BY <3>2, <3>3
      <3> QED
        BY <1>0, <2>1, <3>4, <3>5, AnswersReplied
    <2>3. CASE \E short \in BOOLEAN : line' = line \o Fragments("command", tx, tx, short)
      <3>1. PICK short \in BOOLEAN : line' = line \o AnswerTo(tx, short)
        BY <2>3 DEF AnswerTo
      <3>2. LET F == Fragments("command", tx, tx, short)
            IN  F \in Seq(LineMessages) /\ DOMAIN F = 1 .. AnswerPieces /\ \A i \in 1 .. AnswerPieces : F[i].tx = tx
        BY <1>0, AFragment
      <3>3. PICK f \in Seq(LineMessages) : f = AnswerTo(tx, short)
        BY <3>2 DEF AnswerTo
      <3>4. \A n \in DOMAIN f : f[n].tx = tx /\ \E i \in 1 .. AnswerPieces : f[n] = AnswerTo(tx, short)[i]
        BY <3>2, <3>3 DEF AnswerTo
      <3> QED
        <4>1. line' = line \o f
          BY <3>1, <3>3
        <4>2. \A n \in DOMAIN f : /\ f[n].tx = tx
                                  /\ f[n].type = "command" => \E i \in 1 .. AnswerPieces : f[n] = AnswerTo(tx, short)[i]
          BY <3>4
        <4>3. \A t \in Transactions : Unwritten(t)' => Unwritten(t)
          BY <1>0
        <4> QED
          BY <2>1, <4>1, <4>2, <4>3, AnswersReplied
    <2> QED
      BY <1>8, <2>2, <2>3 DEF ModuleReplies, WholeAnswer
  <1>9. CASE ReadCommandDone
    <2>1. PICK m, old : /\ m = Head(line) /\ old = collector[m.tx] /\ line # <<>> /\ m.type = "command"
                        /\ line' = Tail(line) /\ UNCHANGED accepted
                        /\ \/ collector' = [collector EXCEPT ![m.tx] = <<>>]
                           \/ collector' = [collector EXCEPT ![m.tx] = Adds(old, m)]
      BY <1>9 DEF ReadCommandDone, modemVars
    <2>2. \A n \in DOMAIN line' : \E k \in DOMAIN line : line'[n] = line[k]
      BY <1>3, <2>1
    <2>3. CASE m.tx \notin Transactions
      <3>1. \A tx \in Transactions : collector'[tx] = collector[tx]
        BY <1>0, <2>1, <2>3
      <3> QED
        BY <1>1, <2>1, <2>2, <3>1
    <2>4. CASE m.tx \in Transactions
      <3>1. PICK short \in BOOLEAN :
              Answering(m.tx, short) /\ \A i \in DOMAIN Adds(old, m) : Adds(old, m)[i] = AnswerTo(m.tx, short)[i]
        BY <2>1, <2>4, CommandDone DEF StartOf
      <3>2. PICK k \in DOMAIN line : m = line[k]
        BY <1>0, <2>1, TailOf
      <3>3. ~Quiet(m.tx)
        BY <3>2 DEF Quiet
      <3>4. \A tx \in Transactions : tx # m.tx => collector'[tx] = collector[tx]
        BY <1>0, <2>1
      <3>5. collector'[m.tx] = <<>> \/ collector'[m.tx] = Adds(old, m)
        BY <1>0, <2>1, <2>4
      <3>6. Answering(m.tx, short)'
        <4>1. \A i \in DOMAIN collector'[m.tx] : collector'[m.tx][i] = AnswerTo(m.tx, short)[i]
          BY <3>1, <3>5
        <4>2. \A n \in DOMAIN line' : line'[n].type = "command" /\ line'[n].tx = m.tx =>
                \E i \in 1 .. AnswerPieces : line'[n] = AnswerTo(m.tx, short)[i]
          BY <2>2, <3>1 DEF Answering
        <4> QED
          BY <4>1, <4>2 DEF Answering, AnswerTo
      <3>7. ASSUME NEW tx \in Transactions
            PROVE  /\ \E s \in BOOLEAN : Answering(tx, s)'
                   /\ Unwritten(tx)' => accepted'[tx] = "nothing" /\ Quiet(tx)'
                   /\ accepted'[tx] # "nothing" => Quiet(tx)'
        <4>1. CASE tx = m.tx
          <5>1. ~Unwritten(tx) /\ accepted[tx] = "nothing"
            BY <3>3, <4>1 DEF AnswersInv
          <5> QED
            BY <1>0, <2>1, <3>6, <4>1, <5>1
        <4>2. CASE tx # m.tx
          <5>1. PICK s \in BOOLEAN : Answering(tx, s)
            BY DEF AnswersInv
          <5>2. collector'[tx] = collector[tx]
            BY <3>4, <4>2
          <5>3. Answering(tx, s)'
            BY <2>2, <5>1, <5>2 DEF Answering, AnswerTo
          <5>4. Quiet(tx) => Quiet(tx)'
            BY <2>2, <5>2 DEF Quiet
          <5> QED
            BY <1>0, <2>1, <5>3, <5>4 DEF AnswersInv
        <4> QED
          BY <4>1, <4>2
      <3> QED
        BY <3>7 DEF AnswersInv
    <2> QED
      BY <2>3, <2>4
  <1>10. CASE ReadIndication
    <2>1. \E new : collector' = [collector EXCEPT ![0] = new]
      BY <1>10 DEF ReadIndication
    <2>2. \A tx \in Transactions : collector'[tx] = collector[tx]
      BY <1>0, <2>1
    <2>3. line # <<>> /\ line' = Tail(line) /\ UNCHANGED accepted
      BY <1>10 DEF ReadIndication, modemVars
    <2>4. \A n \in DOMAIN line' : \E k \in DOMAIN line : line'[n] = line[k]
      BY <1>3, <2>3
    <2> QED
      BY <1>1, <2>2, <2>3, <2>4
  <1>11. CASE ReadFails
    <2>1. /\ \A tx \in Transactions : collector'[tx] = <<>>
          /\ UNCHANGED <<line, accepted>>
      BY <1>11 DEF ReadFails, modemVars
    <2> QED
      BY <1>1, <2>1
  <1> QED
    BY <1>4, <1>5, <1>6, <1>7, <1>8, <1>9, <1>10, <1>11 DEF MBIMNext, MBIMCall, Reading

-----------------------------------------------------------------------------
(* What is handed over is whole.                                           *)

Handed(tx) ==
  resultOf[tx] # <<>> => tx \notin pending /\ tx <= nextTx /\ Len(resultOf[tx]) = 1 /\ IsWhole(resultOf[tx][1], tx)
Told(c) == IF request[c] = Resting THEN mbimTold[c] = NoAnswer ELSE IsWhole(mbimTold[c], request[c].tx)

LEMMA AreHanded ==
  ResultsInv <=> (\A tx \in Transactions : Handed(tx)) /\ (\A c \in MBIMCallers : Told(c))
  BY DEF ResultsInv, Handed, Told

LEMMA ToldKept ==
  ASSUME ResultsInv, CallTypes, UNCHANGED mbimTold,
         \/ UNCHANGED request
         \/ \E c \in MBIMUsers : CallMoves(c) \/ (OnlyAsks(c) /\ (c = Opener \/ request[c] = Resting))
  PROVE  \A d \in MBIMCallers : Told(d)'
  <1> SUFFICES ASSUME NEW d \in MBIMCallers PROVE Told(d)'
    OBVIOUS
  <1>1. d \in MBIMUsers /\ d # Opener /\ Told(d)
    BY AreHanded, MBIMAssumption DEF MBIMUsers
  <1>2. CASE request'[d] = request[d]
    BY <1>1, <1>2 DEF Told, IsWhole, WholeAnswer
  <1>3. CASE CallMoves(d)
    <2>1. request[d] # Resting /\ request'[d] # Resting /\ request'[d].tx = request[d].tx
      BY <1>3 DEF CallMoves, Resting
    <2> QED
      BY <1>1, <2>1 DEF Told, IsWhole
  <1>4. CASE request[d] = Resting
    <2>1. mbimTold'[d] = NoAnswer
      BY <1>1, <1>4 DEF Told
    <2> QED
      BY <2>1 DEF Told, IsWhole, NoAnswer
  <1> QED
    BY <1>1, <1>2, <1>3, <1>4 DEF CallMoves, OnlyAsks

LEMMA ToldReturns ==
  ASSUME ResultsInv, CallTypes, NEW c \in MBIMUsers, CallMoves(c), NEW what, CallReturns(c, what),
         IsWhole(what, request[c].tx)
  PROVE  \A d \in MBIMCallers : Told(d)'
  <1> SUFFICES ASSUME NEW d \in MBIMCallers PROVE Told(d)'
    OBVIOUS
  <1>0. d \in MBIMUsers /\ Told(d)
    BY AreHanded DEF MBIMUsers
  <1>1. mbimTold' = [mbimTold EXCEPT ![c] = what] /\ mbimTold = [e \in MBIMUsers |-> mbimTold[e]]
    BY DEF CallReturns, CallTypes
  <1>2. CASE d # c
    <2>1. mbimTold'[d] = mbimTold[d] /\ request'[d] = request[d]
      BY <1>0, <1>1, <1>2 DEF CallMoves
    <2> QED
      BY <1>0, <2>1 DEF Told, IsWhole
  <1>3. CASE d = c
    <2>1. mbimTold'[d] = what
      BY <1>0, <1>1, <1>3
    <2>2. request'[d] # Resting /\ request'[d].tx = request[c].tx
      BY <1>3 DEF CallMoves, Resting
    <2> QED
      BY <2>1, <2>2 DEF Told, IsWhole
  <1> QED
    BY <1>2, <1>3

LEMMA HandedKept ==
  ASSUME ResultsInv, CallTypes, UNCHANGED resultOf, nextTx' \in Nat, nextTx' >= nextTx,
         pending' \subseteq pending \/ (pending' = pending \cup {nextTx + 1})
  PROVE  \A tx \in Transactions : Handed(tx)'
  <1> SUFFICES ASSUME NEW tx \in Transactions PROVE Handed(tx)'
    OBVIOUS
  <1>1. Handed(tx) /\ tx \in Nat /\ nextTx \in Nat
    BY AreHanded DEF Transactions, CallTypes
  <1>2. resultOf[tx] # <<>> => tx \notin pending' /\ tx <= nextTx'
    BY <1>1 DEF Handed
  <1> QED
    BY <1>1, <1>2 DEF Handed, IsWhole

LEMMA HandedOver ==
  ASSUME ResultsInv, CallTypes, UNCHANGED nextTx, NEW tx, NEW what, IsWhole(what, tx), Wakes(tx, what)
  PROVE  \A t \in Transactions : Handed(t)'
  <1> SUFFICES ASSUME NEW t \in Transactions PROVE Handed(t)'
    OBVIOUS
  <1>0. /\ Handed(t) /\ t \in Nat /\ nextTx \in Nat /\ pending \subseteq 1 .. nextTx
        /\ resultOf = [s \in Transactions |-> resultOf[s]]
    BY AreHanded DEF Transactions, CallTypes
  <1>1. CASE t = tx /\ t \in pending
    <2>1. resultOf[t] = <<>>
      BY <1>0, <1>1 DEF Handed
    <2>2. resultOf'[t] = Append(resultOf[t], what)
      BY <1>0, <1>1 DEF Wakes
    <2>3. resultOf'[t] = <<what>>
      BY <2>1, <2>2
    <2>4. Len(resultOf'[t]) = 1 /\ resultOf'[t][1] = what
      BY <2>3
    <2>5. t \notin pending' /\ t <= nextTx'
      BY <1>0, <1>1 DEF Wakes
    <2> QED
      BY <1>1, <2>4, <2>5 DEF Handed, IsWhole
  <1>2. CASE ~(t = tx /\ t \in pending)
    <2>1. resultOf'[t] = resultOf[t] /\ pending' \subseteq pending
      BY <1>0, <1>2 DEF Wakes
    <2> QED
      BY <1>0, <2>1 DEF Handed, IsWhole
  <1> QED
    BY <1>1, <1>2

LEMMA ResultsStep ==
  ASSUME CallTypes, LineTypes, NumbersInv, WritersInv, AnswersInv, ResultsInv, MBIMNext
  PROVE  ResultsInv'
  <1>0. /\ nextTx \in Nat /\ pending \subseteq 1 .. nextTx /\ 1 .. nextTx \subseteq Transactions
        /\ Opener \in MBIMUsers /\ Opener \notin MBIMCallers /\ line \in Seq(LineMessages)
        /\ \A c \in MBIMUsers : c \in MBIMCallers \/ c = Opener
    BY InRange, MBIMAssumption DEF CallTypes, MBIMUsers, LineTypes
  <1>1. ASSUME \A tx \in Transactions : Handed(tx)', \A d \in MBIMCallers : Told(d)' PROVE ResultsInv'
    BY <1>1 DEF ResultsInv, Handed, Told
  <1>2. ASSUME NEW c \in MBIMUsers, NEW what \in {"command", "config", "open"}, Register(c, what),
               c = Opener \/ request[c] = Resting, UNCHANGED <<resultOf, mbimTold>>
        PROVE  ResultsInv'
    <2>1. OnlyAsks(c) /\ pending' = pending \cup {nextTx + 1} /\ nextTx' = nextTx + 1
      BY <1>2, RegisterAsks DEF OnlyAsks
    <2>2. \A d \in MBIMCallers : Told(d)'
      BY <1>2, <2>1, ToldKept
    <2>3. \A tx \in Transactions : Handed(tx)'
      <3>1. nextTx' \in Nat /\ nextTx' >= nextTx
        BY <1>0, <2>1
      <3> QED
        BY <1>2, <2>1, <3>1, HandedKept
    <2> QED
      BY <1>1, <2>2, <2>3
  <1>3. ASSUME UNCHANGED <<resultOf, mbimTold, request, pending>>, nextTx' = nextTx \/ nextTx' = nextTx + 1
        PROVE  ResultsInv'
    <2>1. nextTx' \in Nat /\ nextTx' >= nextTx /\ pending' \subseteq pending
      BY <1>0, <1>3
    <2>2. \A tx \in Transactions : Handed(tx)'
      BY <1>3, <2>1, HandedKept
    <2>3. \A d \in MBIMCallers : Told(d)'
      BY <1>3, ToldKept
    <2> QED
      BY <1>1, <2>2, <2>3
  <1>4. CASE Open
    <2>1. PICK what \in {"config", "open"} : Register(Opener, what)
      BY <1>4 DEF Open
    <2> QED
      BY <1>0, <1>2, <1>4, <2>1 DEF Open
  <1>5. CASE OpenGoesOn
    BY <1>0, <1>2, <1>3, <1>5 DEF OpenGoesOn
  <1>6. ASSUME NEW c \in MBIMUsers, Command(c) PROVE ResultsInv'
    BY <1>2, <1>6 DEF Command
  <1>7. ASSUME NEW c \in MBIMUsers, TakeWriteMu(c) \/ WriteMessage(c) PROVE ResultsInv'
    <2>1. CallMoves(c) /\ UNCHANGED <<resultOf, mbimTold, pending, nextTx>>
      BY <1>7, OtherCallsMove DEF TakeWriteMu, WriteMessage, deviceVars
    <2>2. nextTx' \in Nat /\ nextTx' >= nextTx /\ pending' \subseteq pending
      BY <1>0, <2>1
    <2>3. \A tx \in Transactions : Handed(tx)'
      BY <2>1, <2>2, HandedKept
    <2>4. \A d \in MBIMCallers : Told(d)'
      BY <2>1, ToldKept
    <2> QED
      BY <1>1, <2>3, <2>4
  <1>8. ASSUME NEW c \in MBIMUsers, WriteFails(c) \/ ContextDone(c) \/ TakeAnswer(c) PROVE ResultsInv'
    <2>1. CallMoves(c)
      BY <1>8, OtherCallsMove
    <2>2. PICK what : CallReturns(c, what) /\ (what = Failed \/ (what = resultOf[request[c].tx][1] /\ TakeAnswer(c)))
      BY <1>8 DEF WriteFails, ContextDone, TakeAnswer
    <2>3. IsWhole(what, request[c].tx)
      <3>1. CASE what = Failed
        BY <3>1 DEF IsWhole, Failed
      <3>2. CASE what = resultOf[request[c].tx][1] /\ TakeAnswer(c)
        <4>1. resultOf[request[c].tx] # <<>> /\ request[c].step = "wait"
          BY <3>2 DEF TakeAnswer
        <4>2. request[c].tx \in Transactions
          BY <1>0, <4>1 DEF NumbersInv
        <4>3. Handed(request[c].tx)
          BY <4>2, AreHanded
        <4> QED
          BY <3>2, <4>1, <4>3 DEF Handed
      <3> QED
        BY <2>2, <3>1, <3>2
    <2>4. \A d \in MBIMCallers : Told(d)'
      BY <2>1, <2>2, <2>3, ToldReturns
    <2>5. pending' \subseteq pending /\ nextTx' \in Nat /\ nextTx' >= nextTx /\ UNCHANGED resultOf
      BY <1>0, <2>2 DEF CallReturns
    <2>6. \A tx \in Transactions : Handed(tx)'
      BY <2>5, HandedKept
    <2> QED
      BY <1>1, <2>4, <2>6
  <1>9. ASSUME NEW tx, NEW what, IsWhole(what, tx), Wakes(tx, what), UNCHANGED <<nextTx, mbimTold, request>>
        PROVE  ResultsInv'
    <2>1. \A t \in Transactions : Handed(t)'
      BY <1>9, HandedOver
    <2>2. \A d \in MBIMCallers : Told(d)'
      BY <1>9, ToldKept
    <2> QED
      BY <1>1, <2>1, <2>2
  <1>10. CASE ReadDone
    <2>1. PICK m, what : m = Head(line) /\ line # <<>> /\ m.type = "done" /\ what = [kind |-> m.kind, pieces |-> <<>>]
                         /\ Wakes(m.tx, what) /\ UNCHANGED <<nextTx, mbimTold, request>>
      BY <1>10 DEF ReadDone
    <2>2. m \in LineMessages
      BY <1>0, <2>1, TailOf
    <2>3. what.kind # "answer"
      BY <2>1, <2>2, AMessage
    <2> QED
      BY <1>9, <2>1, <2>3 DEF IsWhole
  <1>11. CASE ReadCommandDone
    <2>1. PICK m, old : /\ m = Head(line) /\ old = collector[m.tx] /\ line # <<>> /\ m.type = "command"
                        /\ UNCHANGED <<nextTx, mbimTold, request>>
                        /\ IF Complete(old, m)
                             THEN Wakes(m.tx, IF Adds(old, m)[1].short THEN Failed
                                              ELSE [kind |-> "answer", pieces |-> Adds(old, m)])
                             ELSE UNCHANGED <<pending, resultOf>>
      BY <1>11 DEF ReadCommandDone
    <2>2. CASE ~Complete(old, m)
      BY <1>3, <2>1, <2>2
    <2>3. CASE Complete(old, m) /\ m.tx \notin Transactions
      <3>1. m.tx \notin pending
        BY <1>0, <2>3
      <3>2. UNCHANGED <<pending, resultOf>>
        BY <2>1, <2>3, <3>1 DEF Wakes
      <3> QED
        BY <1>3, <2>1, <3>2
    <2>4. CASE Complete(old, m) /\ m.tx \in Transactions
      <3>1. PICK short \in BOOLEAN : Adds(old, m) = AnswerTo(m.tx, short) /\ Adds(old, m)[1].short = short
        BY <2>1, <2>4, CommandDone
      <3>2. PICK what : /\ Wakes(m.tx, what)
                        /\ what = IF short THEN Failed ELSE [kind |-> "answer", pieces |-> AnswerTo(m.tx, short)]
        BY <2>1, <2>4, <3>1
      <3>3. IsWhole(what, m.tx)
        <4>1. CASE short = TRUE
          BY <3>2, <4>1 DEF IsWhole, Failed
        <4>2. CASE short = FALSE
          BY <3>2, <4>2 DEF IsWhole, AnswerTo, WholeAnswer
        <4> QED
          BY <4>1, <4>2
      <3> QED
        BY <1>9, <2>1, <3>2, <3>3
    <2> QED
      BY <2>2, <2>3, <2>4
  <1>12. CASE ReadFails
    <2>1. /\ resultOf' = [tx \in Transactions |-> IF tx \in pending THEN Append(resultOf[tx], Failed) ELSE resultOf[tx]]
          /\ pending' = {} /\ UNCHANGED <<nextTx, mbimTold, request>>
      BY <1>12 DEF ReadFails
    <2>2. ASSUME NEW tx \in Transactions PROVE Handed(tx)'
      <3>1. Handed(tx)
        BY AreHanded
      <3>2. CASE tx \in pending
        <4>1. resultOf[tx] = <<>>
          BY <3>1, <3>2 DEF Handed
        <4>2. resultOf'[tx] = <<Failed>>
          <5>1. resultOf'[tx] = Append(resultOf[tx], Failed)
            BY <2>1, <3>2
          <5>2. PICK failed : failed = Failed
            OBVIOUS
          <5>3. Append(<<>>, failed) = <<failed>>
            OBVIOUS
          <5> QED
            BY <4>1, <5>1, <5>2, <5>3
        <4>3. Len(resultOf'[tx]) = 1 /\ resultOf'[tx][1] = Failed
          BY <4>2
        <4>4. tx <= nextTx' /\ tx \notin pending'
          BY <1>0, <2>1, <3>2
        <4> QED
          BY <4>3, <4>4 DEF Handed, IsWhole, Failed
      <3>3. CASE tx \notin pending
        <4>1. resultOf'[tx] = resultOf[tx]
          BY <2>1, <3>3
        <4> QED
          BY <2>1, <3>1, <4>1 DEF Handed, IsWhole
      <3> QED
        BY <3>2, <3>3
    <2>3. \A d \in MBIMCallers : Told(d)'
      BY <2>1, ToldKept
    <2> QED
      BY <1>1, <2>2, <2>3
  <1>13. CASE \/ CloseBegins \/ CloseEnds \/ \E t \in Transactions : ModuleReplies(t)
              \/ ModuleChanges \/ LosesMessage \/ RepeatsMessage \/ ReadIndication \/ Run
    BY <1>3, <1>13 DEF CloseBegins, CloseEnds, ModuleReplies, ModuleChanges, LosesMessage,
       RepeatsMessage,
       ReadIndication, Run, callingVars, deviceVars
  <1> QED
    BY <1>4, <1>5, <1>6, <1>7, <1>8, <1>10, <1>11, <1>12, <1>13 DEF MBIMNext, MBIMCall, Reading

-----------------------------------------------------------------------------
(* The indications stay in order.                                          *)

LEMMA NoticesStep ==
  ASSUME LineTypes, AreNotices(line, version), MBIMNext
  PROVE  AreNotices(line, version)'
  <1>0. line \in Seq(LineMessages) /\ version \in Nat /\ \A tx \in Transactions : tx \in Nat /\ tx # 0
    BY DEF LineTypes, Transactions
  <1>1. \A m : MayCome(m, version) => MayCome(m, version + 1)
    BY <1>0 DEF MayCome
  <1>2. ASSUME \A n \in DOMAIN line' : (\E k \in DOMAIN line : line'[n] = line[k]) \/ MayCome(line'[n], version'),
               version' \in {version, version + 1}
        PROVE  AreNotices(line, version)'
    <2>1. \A k \in DOMAIN line : MayCome(line[k], version')
      BY <1>1, <1>2 DEF AreNotices
    <2> SUFFICES \A n \in DOMAIN line' : MayCome(line'[n], version')
      BY DEF AreNotices, MayCome, Notice
    <2> QED
      BY <1>2, <2>1
  <1>3. ASSUME UNCHANGED <<line, version>> PROVE AreNotices(line, version)'
    BY <1>2, <1>3
  <1>4. ASSUME line # <<>>, UNCHANGED version, line' = Tail(line) \/ line' = <<Head(line)>> \o line
        PROVE  AreNotices(line, version)'
    <2>1. CASE line' = Tail(line)
      <3>1. \A n \in DOMAIN Tail(line) : \E k \in DOMAIN line : Tail(line)[n] = line[k]
        BY <1>0, <1>4, TailOf
      <3> QED
        BY <1>2, <1>4, <2>1, <3>1
    <2>2. CASE line' = <<Head(line)>> \o line
      <3>1. PICK d : d = <<Head(line)>> \o line
        OBVIOUS
      <3>2. LET e == <<Head(line)>> \o line
            IN  /\ DOMAIN e = 1 .. Len(line) + 1 /\ e[1] = line[1]
                /\ \A n \in DOMAIN e : n > 1 => n - 1 \in DOMAIN line /\ e[n] = line[n - 1]
        BY <1>0, <1>4, TwiceOf
      <3>3. 1 \in DOMAIN line /\ Len(line) \in Nat
        BY <1>0, <1>4, TailOf
      <3>4. ASSUME NEW n \in DOMAIN d PROVE \E k \in DOMAIN line : d[n] = line[k]
        <4>1. n \in 1 .. Len(line) + 1 /\ d[1] = line[1] /\ (n > 1 => n - 1 \in DOMAIN line /\ d[n] = line[n - 1])
          BY <3>1, <3>2, <3>4
        <4>2. n = 1 \/ n > 1
          BY <3>3, <4>1
        <4> QED
          BY <3>3, <4>1, <4>2
      <3> QED
        BY <1>2, <1>4, <2>2, <3>1, <3>4
    <2> QED
      BY <1>4, <2>1, <2>2
  <1>5. ASSUME NEW f \in Seq(LineMessages), line' = line \o f, \A n \in DOMAIN f : MayCome(f[n], version'),
               version' \in {version, version + 1}
        PROVE  AreNotices(line, version)'
    <2>1. LET j == line \o f
          IN  /\ \A n \in DOMAIN line : n \in DOMAIN j /\ j[n] = line[n]
              /\ \A n \in DOMAIN j : n \in DOMAIN line \/ (n - Len(line) \in DOMAIN f /\ j[n] = f[n - Len(line)])
      BY <1>0, JoinOf
    <2>2. \A n \in DOMAIN line' : (\E k \in DOMAIN line : line'[n] = line[k]) \/ MayCome(line'[n], version')
      BY <1>5, <2>1
    <2> QED
      BY <1>2, <1>5, <2>2
  <1>6. CASE \/ Open \/ OpenGoesOn \/ CloseBegins \/ CloseEnds
             \/ \E c \in MBIMUsers : MBIMCall(c)
             \/ ReadFails \/ Run
    BY <1>3, <1>6 DEF Open, OpenGoesOn, CloseBegins, CloseEnds, MBIMCall, Command, TakeWriteMu,
       WriteMessage, WriteFails,
       ContextDone, TakeAnswer, CallReturns, ReadFails, Run, deviceVars, modemVars, monitorVars
  <1>7. CASE LosesMessage \/ RepeatsMessage \/ ReadDone \/ ReadCommandDone \/ ReadIndication
    BY <1>4, <1>7 DEF LosesMessage, RepeatsMessage, ReadDone, ReadCommandDone, ReadIndication,
       modemVars
  <1>8. ASSUME NEW tx \in Transactions, ModuleReplies(tx) PROVE AreNotices(line, version)'
    <2>1. version' = version
      BY <1>8 DEF ModuleReplies
    <2>2. CASE \E kind \in {"opened", "refused"} : line' = Append(line, [type |-> "done", tx |-> tx, kind |-> kind])
      <3>1. PICK kind \in {"opened", "refused"} : line' = Append(line, [type |-> "done", tx |-> tx, kind |-> kind])
        BY <2>2
      <3>2. PICK m \in LineMessages : m.tx = tx /\ m.type = "done" /\ line' = Append(line, m)
        <4>1. [type |-> "done", tx |-> tx, kind |-> kind] \in LineMessages
          BY <1>0 DEF LineMessages
        <4> QED
          BY <3>1, <4>1
      <3>3. PICK f \in Seq(LineMessages) : f = <<m>> /\ \A n \in DOMAIN f : f[n] = m
        <4>1. <<m>> \in Seq(LineMessages) /\ \A n \in DOMAIN <<m>> : <<m>>[n] = m
          OBVIOUS
        <4> QED
          BY <4>1
      <3>4. line' = line \o f
        BY <1>0, <3>2, <3>3
      <3>5. MayCome(m, version')
        BY <1>0, <3>2 DEF MayCome
      <3> QED
        BY <1>5, <2>1, <3>3, <3>4, <3>5
    <2>3. CASE \E short \in BOOLEAN : line' = line \o Fragments("command", tx, tx, short)
      <3>1. PICK short \in BOOLEAN : line' = line \o AnswerTo(tx, short)
        BY <2>3 DEF AnswerTo
      <3>2. PICK t, f : t \in Nat /\ t = tx /\ f = AnswerTo(t, short)
        BY <1>0
      <3>3. f \in Seq(LineMessages) /\ DOMAIN f = 1 .. AnswerPieces
        BY <3>2, AnAnswer
      <3>4. ASSUME NEW i \in 1 .. AnswerPieces PROVE f[i].type = "command" /\ f[i].tx = tx
        BY <3>2, AnAnswer
      <3>5. \A n \in DOMAIN f : MayCome(f[n], version')
        BY <1>0, <3>3, <3>4 DEF MayCome
      <3> QED
        BY <1>5, <2>1, <3>1, <3>2, <3>3, <3>5
    <2> QED
      BY <1>8, <2>2, <2>3 DEF ModuleReplies, WholeAnswer
  <1>9. CASE ModuleChanges
    <2>1. version' = version + 1 /\ line' = line \o Fragments("indicate", 0, version', FALSE)
      BY <1>9 DEF ModuleChanges
    <2>2. PICK v, k, no, f :
            /\ v \in Nat /\ k \in Nat /\ no \in BOOLEAN /\ v = version' /\ k = 0 /\ no = FALSE
            /\ f = Fragments("indicate", k, v, no) /\ line' = line \o f
      <3>1. version' \in Nat
        BY <1>0, <2>1
      <3>2. PICK k \in Nat, no \in BOOLEAN : k = 0 /\ no = FALSE
        OBVIOUS
      <3>3. PICK f : f = Fragments("indicate", k, version', no)
        OBVIOUS
      <3> QED
        BY <2>1, <3>1, <3>2, <3>3
    <2>3. f \in Seq(LineMessages) /\ DOMAIN f = 1 .. AnswerPieces
      <3>1. LET F == Fragments("indicate", k, v, no) IN F \in Seq(LineMessages) /\ DOMAIN F = 1 .. AnswerPieces
        BY <2>2, AFragment
      <3> QED
        BY <2>2, <3>1
    <2>4. ASSUME NEW i \in 1 .. AnswerPieces PROVE MayCome(f[i], version')
      <3>1. f[i] = [type |-> "indicate", tx |-> 0, of |-> v, current |-> i - 1, total |-> AnswerPieces, short |-> FALSE]
        BY <2>2 DEF Fragments
      <3>2. i - 1 < AnswerPieces /\ (i - 1) + 1 = i /\ v \in 1 .. version'
        <4>1. AnswerPieces \in Nat
          BY MBIMAssumption
        <4> QED
          BY <1>0, <2>1, <2>2, <4>1
      <3>3. f[i].type = "indicate" /\ f[i].tx = 0 /\ f[i].of = v /\ f[i].current = i - 1
        BY <3>1
      <3>4. f[i] = Notice(v, i)
        BY <2>2 DEF Notice
      <3> QED
        BY <3>2, <3>3, <3>4 DEF MayCome
    <2>5. \A n \in DOMAIN f : MayCome(f[n], version')
      BY <2>3, <2>4
    <2> QED
      BY <1>5, <2>1, <2>2, <2>3, <2>5
  <1> QED
    BY <1>6, <1>7, <1>8, <1>9 DEF MBIMNext, Reading

LEMMA StreamStep ==
  ASSUME CallTypes, LineTypes, AreNotices(line, version), StreamInv, MBIMNext
  PROVE  StreamInv'
  <1>0. /\ line \in Seq(LineMessages) /\ version \in Nat /\ \A tx \in Transactions : tx \in Nat /\ tx # 0
        /\ collector[0] \in Seq(LineParts(AnswerPieces)) /\ Len(collector[0]) < AnswerPieces
        /\ collector = [tx \in Transactions \cup {0} |-> collector[tx]]
    <2>1. \A tx \in Transactions : tx \in Nat /\ tx # 0
      BY DEF Transactions
    <2>2. 0 \in Transactions \cup {0}
      OBVIOUS
    <2> QED
      BY <2>1, <2>2 DEF LineTypes
  <1>1. ASSUME UNCHANGED <<line, collector, indicationLost>>,
               readLoop' = readLoop \/ readLoop' = "ended" \/ readLoop = "none"
        PROVE  StreamInv'
    BY <1>1 DEF StreamInv
  <1>2. ASSUME readLoop' = readLoop, readLoop # "ended" /\ ~indicationLost' => ~indicationLost,
               Stream(line, collector[0]) /\ ~indicationLost' => Stream(line', collector'[0])
        PROVE  StreamInv'
    BY <1>2 DEF StreamInv
  <1>3. \A n \in DOMAIN line : (line[n].tx = 0 <=> line[n].type = "indicate") /\ line[n] \in LineMessages
    BY <1>0 DEF AreNotices, MayCome
  <1>4. line # <<>> => Head(line) = line[1] /\ 1 \in DOMAIN line
    BY <1>0, TailOf
  <1>5. \A n \in NoticesOn(line) : line[n].of \in Nat /\ line[n].current \in Nat
    BY <1>3 DEF NoticesOn, LineMessages, LineParts
  <1>6. CASE \/ Open \/ OpenGoesOn \/ CloseBegins \/ CloseEnds \/ Run \/ \E c \in MBIMUsers : MBIMCall(c)
    BY <1>1, <1>6 DEF Open, OpenGoesOn, CloseBegins, CloseEnds, MBIMCall, Command, TakeWriteMu,
       WriteMessage, WriteFails,
       ContextDone, TakeAnswer, CallReturns, Run, deviceVars, CallTypes
  <1>7. ASSUME line # <<>>, line' = Tail(line), Head(line).type # "indicate", UNCHANGED readLoop,
               collector'[0] = collector[0], indicationLost' \/ UNCHANGED indicationLost
        PROVE  StreamInv'
    <2>1. Stream(line, collector[0]) => Stream(Tail(line), collector[0])
      BY <1>0, <1>7, StreamSkips
    <2> QED
      BY <1>2, <1>7, <2>1
  <1>8. CASE LosesMessage
    <2>1. /\ line # <<>> /\ line' = Tail(line) /\ UNCHANGED <<readLoop, collector>>
          /\ indicationLost' = (indicationLost \/ Head(line).tx = 0)
      BY <1>8 DEF LosesMessage, deviceVars
    <2>2. CASE Head(line).type = "indicate"
      <3>1. indicationLost'
        BY <1>3, <1>4, <2>1, <2>2
      <3> QED
        BY <3>1 DEF StreamInv
    <2>3. CASE Head(line).type # "indicate"
      <3>1. ~indicationLost' => ~indicationLost
        BY <2>1
      <3>2. Stream(line, collector[0]) => Stream(Tail(line), collector[0])
        BY <1>0, <2>1, <2>3, StreamSkips
      <3> QED
        BY <1>2, <2>1, <3>1, <3>2
    <2> QED
      BY <2>2, <2>3
  <1>9. CASE RepeatsMessage
    <2>1. line # <<>> /\ line' = <<Head(line)>> \o line /\ UNCHANGED <<readLoop, collector, indicationLost>>
      BY <1>9 DEF RepeatsMessage, deviceVars
    <2>2. Stream(line, collector[0]) => Stream(<<Head(line)>> \o line, collector[0])
      BY <1>0, <1>5, <2>1, StreamRepeats
    <2> QED
      BY <1>2, <2>1, <2>2
  <1>10. CASE ReadDone
    BY <1>7, <1>10 DEF ReadDone
  <1>11. CASE ReadCommandDone
    <2>1. /\ line # <<>> /\ line' = Tail(line) /\ Head(line).type # "indicate" /\ UNCHANGED <<readLoop, indicationLost>>
          /\ \E new : collector' = [collector EXCEPT ![Head(line).tx] = new]
      BY <1>11 DEF ReadCommandDone
    <2>2. Head(line).tx # 0
      BY <1>3, <1>4, <2>1
    <2>3. collector'[0] = collector[0]
      BY <1>0, <2>1, <2>2
    <2> QED
      BY <1>7, <2>1, <2>3
  <1>12. CASE ReadIndication
    <2>1. PICK m, old, new : /\ m = Head(line) /\ old = collector[0] /\ line # <<>> /\ m.type = "indicate"
                             /\ line' = Tail(line) /\ new = IF Complete(old, m) THEN <<>> ELSE Adds(old, m)
                             /\ collector' = [collector EXCEPT ![0] = new] /\ UNCHANGED <<readLoop, indicationLost>>
      BY <1>12 DEF ReadIndication
    <2>2. collector'[0] = new
      BY <1>0, <2>1
    <2>3. m = line[1] /\ 1 \in NoticesOn(line) /\ m \in LineParts(AnswerPieces)
      <3>1. m = line[1] /\ m \in LineMessages /\ 1 \in NoticesOn(line)
        BY <1>3, <1>4, <2>1 DEF NoticesOn
      <3> QED
        BY <2>1, <3>1, AMessage
    <2>4. old \in Seq(LineParts(AnswerPieces)) /\ Len(old) < AnswerPieces /\ AnswerPieces \in Nat /\ old \in Seq(LineMessages)
      <3>1. LineParts(AnswerPieces) \subseteq LineMessages
        BY DEF LineMessages
      <3>2. old \in Seq(LineParts(AnswerPieces)) /\ Len(old) < AnswerPieces
        BY <1>0, <2>1
      <3>3. PICK P, M : P = LineParts(AnswerPieces) /\ M = LineMessages
        OBVIOUS
      <3>4. old \in Seq(P) => old \in Seq(M)
        BY <3>1, <3>3
      <3> QED
        BY <3>2, <3>3, <3>4, MBIMAssumption
    <2>5. /\ m.current # Len(old) => Adds(old, m) = old /\ ~Complete(old, m)
          /\ m.current = Len(old) => Adds(old, m) = Append(old, m) /\ (Complete(old, m) <=> Len(old) + 1 = AnswerPieces)
      BY <2>3, <2>4, Collected
    <2>6. \/ line[1].current = Len(old) /\ Len(old) + 1 >= AnswerPieces /\ new = <<>>
          \/ line[1].current = Len(old) /\ Len(old) + 1 < AnswerPieces /\ new = Append(old, line[1])
          \/ line[1].current # Len(old) /\ new = old
      <3>1. CASE m.current # Len(old)
        BY <2>1, <2>3, <2>5, <3>1
      <3>2. CASE m.current = Len(old) /\ Len(old) + 1 = AnswerPieces
        BY <2>1, <2>3, <2>4, <2>5, <3>2
      <3>3. CASE m.current = Len(old) /\ Len(old) + 1 # AnswerPieces
        <4>1. Len(old) \in Nat
          BY <2>4
        <4>2. Len(old) + 1 < AnswerPieces
          BY <2>4, <3>3, <4>1
        <4> QED
          BY <2>1, <2>3, <2>5, <3>3, <4>2
      <3> QED
        BY <3>1, <3>2, <3>3
    <2>7. Stream(line, old) => Stream(Tail(line), new)
      BY <1>0, <2>3, <2>4, <2>6, StreamReads
    <2> QED
      BY <1>2, <2>1, <2>2, <2>7
  <1>13. CASE ReadFails
    BY <1>13 DEF ReadFails, StreamInv
  <1>14. ASSUME NEW tx \in Transactions, ModuleReplies(tx) PROVE StreamInv'
    <2>1. UNCHANGED <<collector, readLoop, indicationLost>>
      BY <1>14 DEF ModuleReplies, deviceVars
    <2>2. ASSUME NEW f \in Seq(LineMessages), line' = line \o f, \A n \in DOMAIN f : f[n].type # "indicate" PROVE StreamInv'
      <3>1. Stream(line, collector[0]) => Stream(line \o f, collector[0])
        BY <1>0, <2>2, StreamJoins
      <3> QED
        BY <1>2, <2>1, <2>2, <3>1
    <2>3. CASE \E kind \in {"opened", "refused"} : line' = Append(line, [type |-> "done", tx |-> tx, kind |-> kind])
      <3>1. PICK kind \in {"opened", "refused"} : line' = Append(line, [type |-> "done", tx |-> tx, kind |-> kind])
        BY <2>3
      <3>2. PICK m \in LineMessages : m.type = "done" /\ line' = Append(line, m)
        <4>1. [type |-> "done", tx |-> tx, kind |-> kind] \in LineMessages
          BY <1>0 DEF LineMessages
        <4> QED
          BY <3>1, <4>1
      <3>3. PICK f \in Seq(LineMessages) : f = <<m>> /\ \A n \in DOMAIN f : f[n] = m
        <4>1. <<m>> \in Seq(LineMessages) /\ \A n \in DOMAIN <<m>> : <<m>>[n] = m
          OBVIOUS
        <4> QED
          BY <4>1
      <3>4. line' = line \o f
        BY <1>0, <3>2, <3>3
      <3> QED
        BY <2>2, <3>2, <3>3, <3>4
    <2>4. CASE \E short \in BOOLEAN : line' = line \o Fragments("command", tx, tx, short)
      <3>1. PICK short \in BOOLEAN : line' = line \o AnswerTo(tx, short)
        BY <2>4 DEF AnswerTo
      <3>2. PICK t, f : t \in Nat /\ t = tx /\ f = AnswerTo(t, short)
        BY <1>0
      <3>3. f \in Seq(LineMessages) /\ DOMAIN f = 1 .. AnswerPieces
        BY <3>2, AnAnswer
      <3>4. ASSUME NEW i \in 1 .. AnswerPieces PROVE f[i].type = "command"
        BY <3>2, AnAnswer
      <3> QED
        BY <2>2, <3>1, <3>2, <3>3, <3>4
    <2> QED
      BY <1>14, <2>3, <2>4 DEF ModuleReplies, WholeAnswer
  <1>15. CASE ModuleChanges
    <2>1. /\ line' = line \o Fragments("indicate", 0, version + 1, FALSE)
          /\ UNCHANGED <<collector, readLoop, indicationLost>>
      BY <1>15 DEF ModuleChanges, deviceVars
    <2>2. Stream(line, collector[0]) => Stream(line \o Fragments("indicate", 0, version + 1, FALSE), collector[0])
      BY <1>0, StreamGrows
    <2> QED
      BY <1>2, <2>1, <2>2
  <1> QED
    BY <1>6, <1>8, <1>9, <1>10, <1>11, <1>12, <1>13, <1>14, <1>15 DEF MBIMNext, Reading

-----------------------------------------------------------------------------
(* What the monitor shows is of one state.                                 *)

LEMMA OneState ==
  ASSUME LineTypes, AreNotices(line, version), Stream(line, collector[0]), line # <<>>,
         NEW m, m = Head(line), m.type = "indicate", NEW old, old = collector[0], Complete(old, m)
  PROVE  ~Mixed(Adds(old, m))
  <1>0. line \in Seq(LineMessages) /\ old \in Seq(LineParts(AnswerPieces)) /\ Len(old) < AnswerPieces
    <2>1. 0 \in Transactions \cup {0}
      OBVIOUS
    <2> QED
      BY <2>1 DEF LineTypes
  <1>1. m = line[1] /\ 1 \in NoticesOn(line) /\ m \in LineParts(AnswerPieces)
    <2>1. m = line[1] /\ 1 \in DOMAIN line /\ m \in LineMessages
      BY <1>0, TailOf
    <2> QED
      BY <2>1, AMessage DEF NoticesOn
  <1>2. \A n \in NoticesOn(line) : n \in Nat /\ line[n].of \in Nat /\ line[n].current \in Nat /\ n > 0
    <2>1. \A n \in NoticesOn(line) : n \in Nat /\ n > 0 /\ line[n] \in LineMessages
      BY <1>0 DEF NoticesOn
    <2> QED
      BY <2>1 DEF NoticesOn, LineMessages, LineParts
  <1>3. old # <<>> => m.of = old[1].of
    <2>1. PICK P, M : P = LineParts(AnswerPieces) /\ M = LineMessages /\ P \subseteq M
      BY DEF LineMessages
    <2>2. old \in Seq(M)
      BY <1>0, <2>1
    <2> QED
      BY <1>0, <1>1, <1>2, <2>1, <2>2, FirstIsOwn
  <1>4. m.current = Len(old) /\ Adds(old, m) = Append(old, m)
    BY <1>0, <1>1, Collected
  <1>5. \A n \in DOMAIN old : old[n].of = m.of
    <2>1. \A n \in DOMAIN old : old[n].of = old[1].of /\ old # <<>>
      BY DEF Stream, Collects
    <2> QED
      BY <1>3, <2>1
  <1>6. \A n \in DOMAIN Append(old, m) : Append(old, m)[n].of = m.of
    <2>1. \A n \in DOMAIN Append(old, m) : (n \in DOMAIN old /\ Append(old, m)[n] = old[n]) \/ Append(old, m)[n] = m
      BY <1>0
    <2> QED
      BY <1>5, <2>1
  <1> QED
    <2>1. PICK w : w = Append(old, m)
      OBVIOUS
    <2>2. \A n \in DOMAIN w : w[n].of = m.of
      BY <1>6, <2>1
    <2>3. ~Mixed(w)
      BY <2>2 DEF Mixed
    <2> QED
      BY <1>4, <2>1, <2>3

LEMMA ShownStep ==
  ASSUME CallTypes, LineTypes, AreNotices(line, version), StreamInv, ShownInv, MBIMNext
  PROVE  ShownInv'
  <1>0. indicationQueue \in Seq(Seq(LineParts(AnswerPieces)))
    BY DEF LineTypes
  <1>1. ASSUME UNCHANGED <<snapshot, indicationQueue>>, ~indicationLost' => ~indicationLost PROVE ShownInv'
    BY <1>1 DEF ShownInv, Mixed
  <1>2. CASE \/ Open \/ OpenGoesOn \/ CloseBegins \/ CloseEnds \/ ModuleChanges \/ LosesMessage \/ RepeatsMessage
             \/ ReadDone \/ ReadCommandDone \/ ReadFails
             \/ \E tx \in Transactions : ModuleReplies(tx)
    BY <1>1, <1>2 DEF Open, OpenGoesOn, CloseBegins, CloseEnds, ReadDone, ReadCommandDone,
       ReadFails, ModuleReplies,
       ModuleChanges, LosesMessage, RepeatsMessage, monitorVars
  <1>3. ASSUME NEW c \in MBIMUsers, MBIMCall(c) PROVE ShownInv'
    BY <1>1, <1>3 DEF MBIMCall, Command, TakeWriteMu, WriteMessage, WriteFails, ContextDone,
       TakeAnswer, monitorVars
  <1>4. CASE ReadIndication
    <2>1. PICK m, old, whole : /\ m = Head(line) /\ old = collector[0] /\ whole = Adds(old, m)
                               /\ line # <<>> /\ m.type = "indicate" /\ readLoop = "running"
                               /\ UNCHANGED <<indicationLost, snapshot>>
                               /\ \/ Complete(old, m) /\ indicationQueue' = Append(indicationQueue, whole)
                                  \/ UNCHANGED indicationQueue
      BY <1>4 DEF ReadIndication
    <2>2. CASE UNCHANGED indicationQueue
      BY <1>1, <2>1, <2>2
    <2>3. CASE Complete(old, m) /\ indicationQueue' = Append(indicationQueue, whole)
      <3>1. ~indicationLost => ~Mixed(whole)
        <4>1. ~indicationLost => Stream(line, collector[0])
          BY <2>1 DEF StreamInv
        <4> QED
          BY <2>1, <2>3, <4>1, OneState
      <3>2. \A n \in DOMAIN indicationQueue' : (n \in DOMAIN indicationQueue /\ indicationQueue'[n] = indicationQueue[n])
                                               \/ indicationQueue'[n] = whole
        <4>1. PICK q, S : q = indicationQueue /\ q \in Seq(S) /\ indicationQueue' = Append(q, whole)
          BY <1>0, <2>3
        <4>2. \A n \in DOMAIN Append(q, whole) :
                (n \in DOMAIN q /\ Append(q, whole)[n] = q[n]) \/ Append(q, whole)[n] = whole
          BY <4>1
        <4> QED
          BY <4>1, <4>2
      <3> QED
        BY <2>1, <3>1, <3>2 DEF ShownInv, Mixed
    <2> QED
      BY <2>1, <2>2, <2>3
  <1>5. CASE Run
    <2>1. /\ indicationQueue # <<>> /\ snapshot' = Head(indicationQueue) /\ indicationQueue' = Tail(indicationQueue)
          /\ UNCHANGED indicationLost
      BY <1>5 DEF Run
    <2>2. PICK q, S : q = indicationQueue /\ q \in Seq(S)
      BY <1>0
    <2>3. /\ Head(q) = q[1] /\ 1 \in DOMAIN q
          /\ \A n \in DOMAIN Tail(q) : n + 1 \in DOMAIN q /\ Tail(q)[n] = q[n + 1]
      BY <2>1, <2>2, TailOf
    <2> QED
      BY <2>1, <2>2, <2>3 DEF ShownInv, Mixed
  <1> QED
    BY <1>2, <1>3, <1>4, <1>5 DEF MBIMNext, Reading

-----------------------------------------------------------------------------
LEMMA MBIMInitInv ==
  ASSUME MBIMInit
  PROVE  MBIMInv
  <1>0. /\ \A c \in MBIMUsers : request[c] = Resting /\ mbimTold[c] = NoAnswer
        /\ \A tx \in Transactions : resultOf[tx] = <<>> /\ accepted[tx] = "nothing" /\ tx \in Nat /\ tx > 0
        /\ \A tx \in Transactions \cup {0} : collector[tx] = <<>>
        /\ Opener \in MBIMUsers /\ MBIMCallers \subseteq MBIMUsers /\ AnswerPieces \in Nat /\ AnswerPieces > 0
    BY MBIMAssumption DEF MBIMInit, MBIMUsers, Transactions
  <1>1. CallTypes
    <2>1. Resting \in [what : Whats, step : {"idle", "lock", "send", "wait", "done"}, tx : Nat, sent : Nat]
      BY DEF Resting, Whats
    <2>2. request \in MBIMRequests
      BY <2>1 DEF MBIMInit, MBIMRequests
    <2>3. resultOf = [tx \in Transactions |-> resultOf[tx]] /\ mbimTold = [c \in MBIMUsers |-> mbimTold[c]]
      BY DEF MBIMInit
    <2> QED
      BY <2>2, <2>3 DEF MBIMInit, CallTypes
  <1>2. LineTypes
    <2>1. accepted \in [Transactions -> Whats] /\ collector = [tx \in Transactions \cup {0} |-> collector[tx]]
      BY DEF MBIMInit, Whats
    <2>2. line \in Seq(LineMessages) /\ version \in Nat /\ indicationQueue \in Seq(Seq(LineParts(AnswerPieces)))
      BY DEF MBIMInit
    <2>3. \A tx \in Transactions \cup {0} :
            collector[tx] \in Seq(LineParts(AnswerPieces)) /\ Len(collector[tx]) < AnswerPieces
      <3>1. PICK P : P = LineParts(AnswerPieces)
        OBVIOUS
      <3>2. <<>> \in Seq(P) /\ Len(<<>>) = 0
        OBVIOUS
      <3> QED
        BY <1>0, <3>1, <3>2
    <2> QED
      BY <2>1, <2>2, <2>3 DEF LineTypes
  <1>3. NumbersInv
    <2>1. Started = {}
      BY <1>0 DEF Started
    <2>2. Cardinality(Started) = 0
      BY <2>1, FS_EmptySet
    <2>3. \A c \in MBIMUsers : request[c] = Resting /\ request[c].tx = 0
      BY <1>0 DEF Resting
    <2> QED
      <3>1. nextTx = 0 /\ opened = "no" /\ deviceClosed = FALSE
        BY DEF MBIMInit
      <3>2. \A c \in MBIMUsers : IF request[c].step = "idle" THEN request[c] = Resting
                                ELSE request[c].tx \in 1 .. nextTx
        BY <2>3 DEF Resting
      <3> QED
        BY <2>2, <2>3, <3>1, <3>2 DEF NumbersInv
  <1>4. WritersInv
    BY <1>0 DEF MBIMInit, WritersInv, Resting
  <1>5. AnswersInv
    <2>1. ASSUME NEW tx \in Transactions, NEW short \in BOOLEAN PROVE Answering(tx, short) /\ Quiet(tx)
      BY <1>0 DEF MBIMInit, Answering, Quiet
    <2> QED
      BY <1>0, <2>1 DEF AnswersInv
  <1>6. ResultsInv
    BY <1>0 DEF ResultsInv
  <1>7. AreNotices(line, version)
    BY DEF MBIMInit, AreNotices
  <1>8. StreamInv
    <2>1. collector[0] = <<>> /\ line = <<>>
      BY <1>0 DEF MBIMInit
    <2> QED
      BY <2>1 DEF StreamInv, Stream, NoticesInOrder, Grounded, NoticesGoOn, Collects, NoticesOn
  <1>9. ShownInv
    BY DEF MBIMInit, ShownInv, Mixed
  <1> QED
    BY <1>1, <1>2, <1>3, <1>4, <1>5, <1>6, <1>7, <1>8, <1>9 DEF MBIMInv

LEMMA MBIMStep ==
  ASSUME MBIMInv, [MBIMNext]_mbimVars
  PROVE  MBIMInv'
  <1>1. CASE MBIMNext
    <2>1. CallTypes' /\ LineTypes' /\ NumbersInv' /\ WritersInv'
      BY <1>1, CallTypesStep, LineTypesStep, NumbersStep, WritersStep DEF MBIMInv
    <2>2. AnswersInv' /\ ResultsInv'
      BY <1>1, AnswersStep, ResultsStep DEF MBIMInv
    <2>3. AreNotices(line, version)' /\ StreamInv' /\ ShownInv'
      BY <1>1, NoticesStep, StreamStep, ShownStep DEF MBIMInv
    <2> QED
      BY <2>1, <2>2, <2>3 DEF MBIMInv
  <1>2. CASE UNCHANGED mbimVars
    <2>1. UNCHANGED <<deviceVars, writeMu, callingVars, line, modemVars, monitorVars, garbled, indicationLost>>
      BY <1>2 DEF mbimVars
    <2>2. CallTypes' /\ LineTypes'
      BY <2>1 DEF MBIMInv, CallTypes, LineTypes, deviceVars, callingVars, modemVars, monitorVars
    <2>3. NumbersInv' /\ WritersInv'
      BY <2>1 DEF MBIMInv, NumbersInv, WritersInv, Started, deviceVars, callingVars, modemVars
    <2>4. AnswersInv'
      BY <2>1 DEF MBIMInv, AnswersInv, Answering, AnswerTo, Quiet, Unwritten, deviceVars,
         callingVars, modemVars
    <2>5. ResultsInv'
      BY <2>1 DEF MBIMInv, ResultsInv, IsWhole, deviceVars, callingVars
    <2>6. AreNotices(line, version)' /\ StreamInv' /\ ShownInv'
      <3>1. UNCHANGED <<line, version, readLoop, collector, indicationLost, snapshot, indicationQueue>>
        BY <2>1 DEF deviceVars, modemVars, monitorVars
      <3>2. AreNotices(line, version)'
        BY <3>1 DEF MBIMInv, AreNotices, MayCome, Notice
      <3>3. StreamInv'
        BY <3>1 DEF MBIMInv, StreamInv
      <3>4. ShownInv'
        BY <3>1 DEF MBIMInv, ShownInv, Mixed
      <3> QED
        BY <3>2, <3>3, <3>4
    <2> QED
      BY <2>2, <2>3, <2>4, <2>5, <2>6 DEF MBIMInv
  <1> QED
    BY <1>1, <1>2

(* Whatever is lost, repeated, late or refused, every caller is told the   *)
(* whole answer to its own command or an error, the module receives the    *)
(* commands one after the other, an answer can always be handed over       *)
(* without a wait, and unless a fragment of an indication was lost the     *)
(* snapshot is of one state of the module (Command, readLoop, collector,   *)
(* Monitor.apply).                                                         *)
THEOREM WholeMessages == MBIMSpec => []OnlyWholeMessages
  <1>1. MBIMInv => OnlyWholeMessages
    <2> SUFFICES ASSUME MBIMInv PROVE OnlyWholeMessages
      OBVIOUS
    <2>1. \A c \in MBIMCallers : mbimTold[c].kind = "answer" => mbimTold[c].pieces = WholeAnswer(request[c].tx)
      BY DEF MBIMInv, ResultsInv, IsWhole, NoAnswer
    <2>2. \A tx \in pending : resultOf[tx] = <<>>
      <3>1. pending \subseteq Transactions
        BY InRange DEF MBIMInv, CallTypes
      <3> QED
        BY <3>1 DEF MBIMInv, ResultsInv
    <2>3. ~garbled /\ (indicationLost \/ ~Mixed(snapshot))
      BY DEF MBIMInv, WritersInv, ShownInv
    <2> QED
      BY <2>1, <2>2, <2>3 DEF OnlyWholeMessages
  <1> QED
    BY <1>1, MBIMInitInv, MBIMStep, PTL DEF MBIMSpec

-----------------------------------------------------------------------------
(* The configuration.  Changes of it are kept, for any number of writers,   *)
(* changes, failing calls and crashes.  The invariant says whose turn it   *)
(* is, and what the file, the temporary file and the copy of the writer    *)
(* hold at each of its steps.                                              *)

SaverSteps == {"idle", "read", "open", "write", "rename", "reload", "done", "failed"}

IsSaver(r) ==
  /\ r = [step |-> r.step, change |-> r.change, copy |-> r.copy, inode |-> r.inode]
  /\ r.step \in SaverSteps

SaverShape ==
  /\ deviceFileMu \in DeviceWriters \cup {NoFileHolder}
  /\ saver = [w \in FileWriters |-> saver[w]]
  /\ \A w \in FileWriters : IsSaver(saver[w])
FileShape ==
  /\ contentsOf = [i \in Inodes |-> contentsOf[i]]
  /\ path \in Inodes /\ tmp \in Inodes \cup {0} /\ tmp # path
  /\ mixedSaves \in BOOLEAN
  /\ committed.text = "whole"

(* Who saves devices has the mutex, and the mutex is had by who saves. *)
Turns ==
  /\ \A w \in DeviceWriters : w \in Busy <=> deviceFileMu = w
  /\ \A w \in FileWriters : saver[w].step = "reload" => w \in DeviceWriters
  /\ \A w \in Busy : saver[w].change.op = "settings" <=> w \in SettingWriters

(* One writer at a time, unless changes of settings are mixed in. *)
SaverAlone == mixedSaves \/ \A v, w \in Busy : v = w

(* The writer's copy is what its change makes of the file. *)
Sound(w) ==
  /\ Possible(committed.devices, saver[w].change)
  /\ saver[w].copy = Edited(committed, saver[w].change)

StepSound(w) ==
  /\ saver[w].step \in {"open", "write", "rename"} => Sound(w)
  /\ saver[w].step = "write" =>
       tmp # 0 /\ saver[w].inode = tmp /\ contentsOf[tmp] = NotWritten
  /\ saver[w].step = "rename" => tmp # 0 /\ contentsOf[tmp] = saver[w].copy

FileSound ==
  mixedSaves \/ (contentsOf[path] = committed /\ \A w \in FileWriters : StepSound(w))

MemorySound ==
  \/ mixedSaves \/ stale \/ globalConfig.devices = committed.devices
  \/ \E w \in FileWriters : saver[w].step = "reload"

ConfigInv == SaverShape /\ FileShape /\ Turns /\ SaverAlone /\ FileSound /\ MemorySound

-----------------------------------------------------------------------------
(* 0 names no file, and there is a first one. *)
LEMMA InodesFromOne == 1 \in Inodes /\ 0 \notin Inodes
  <1>1. Cardinality(FileWriters) \in Nat
    BY ConfigAssumption, FS_CardinalityType DEF FileWriters
  <1> QED BY <1>1 DEF Inodes

(* A change leaves a whole file, and one of settings the devices. *)
LEMMA EditedFacts ==
  ASSUME NEW contents, NEW change
  PROVE  /\ Edited(contents, change).text = "whole"
         /\ change.op = "settings" => Edited(contents, change).devices = contents.devices
  BY DEF Edited, Contents

LEMMA InitHolds == ConfigInit => ConfigInv
  <1> SUFFICES ASSUME ConfigInit PROVE ConfigInv
    OBVIOUS
  <1> USE DEF ConfigInit
  <1>1. SaverShape /\ FileShape
    BY InodesFromOne DEF SaverShape, FileShape, IsSaver, SaverSteps, Idle, Saving, FirstContents, Contents
  <1>2. Busy = {}
    BY DEF Busy, Idle, Saving
  <1>3. Turns /\ SaverAlone
    BY <1>2, ConfigAssumption DEF Turns, SaverAlone, Idle, Saving, FileWriters
  <1>4. FileSound
    BY InodesFromOne DEF FileSound, StepSound, Idle, Saving
  <1>5. MemorySound
    BY DEF MemorySound
  <1> QED BY <1>1, <1>3, <1>4, <1>5 DEF ConfigInv

-----------------------------------------------------------------------------
(* What moving one writer does to the records and to who is busy. *)
LEMMA Moved ==
  ASSUME SaverShape, NEW w \in FileWriters, NEW record, SaverMoves(w, record), IsSaver(record)
  PROVE  /\ saver' = [v \in FileWriters |-> saver'[v]]
         /\ saver'[w] = record
         /\ \A v \in FileWriters \ {w} : saver'[v] = saver[v]
         /\ \A v \in FileWriters : IsSaver(saver[v])'
         /\ \A v \in FileWriters \ {w} : v \in Busy' <=> v \in Busy
         /\ w \in Busy' <=> record.step \notin {"idle", "done", "failed"}
  <1>1. saver' = [v \in FileWriters |-> IF v = w THEN record ELSE saver[v]]
    BY DEF SaverShape, SaverMoves
  <1>2. /\ saver'[w] = record /\ \A v \in FileWriters \ {w} : saver'[v] = saver[v]
        /\ saver' = [v \in FileWriters |-> saver'[v]]
    BY <1>1
  <1>3. \A v \in FileWriters : IsSaver(saver[v])'
    BY <1>2 DEF SaverShape, IsSaver
  <1> QED BY <1>2, <1>3 DEF Busy

(* Who is busy is alone, unless changes of settings are mixed in. *)
LEMMA OthersRest ==
  ASSUME ConfigInv, NEW w \in Busy, ~mixedSaves, NEW v \in FileWriters \ {w}
  PROVE  v \notin Busy /\ saver[v].step \in {"idle", "done", "failed"}
  BY DEF ConfigInv, SaverAlone, Busy

(* A busy writer goes on to its next step. *)
LEMMA SaverGoesOn ==
  ASSUME ConfigInv, NEW w \in Busy, NEW record, SaverMoves(w, record), IsSaver(record),
         record.step \notin {"idle", "done", "failed"}, record.change = saver[w].change,
         record.step = "reload" => w \in DeviceWriters,
         UNCHANGED <<deviceFileMu, mixedSaves>>
  PROVE  /\ SaverShape' /\ Turns' /\ SaverAlone'
         /\ saver'[w] = record
         /\ ~mixedSaves => \A v \in FileWriters \ {w} : saver'[v].step \in {"idle", "done", "failed"}
  <1> w \in FileWriters
    BY DEF Busy
  <1>1. /\ saver' = [v \in FileWriters |-> saver'[v]]
        /\ saver'[w] = record
        /\ \A v \in FileWriters \ {w} : saver'[v] = saver[v]
        /\ \A v \in FileWriters : IsSaver(saver[v])'
        /\ \A v \in FileWriters \ {w} : v \in Busy' <=> v \in Busy
        /\ w \in Busy'
    BY Moved DEF ConfigInv
  <1>2. SaverShape'
    BY <1>1 DEF ConfigInv, SaverShape
  <1>3. Busy' = Busy
    BY <1>1 DEF Busy
  <1>4. Turns'
    <2>1. \A v \in DeviceWriters : v \in Busy' <=> deviceFileMu' = v
      BY <1>3 DEF ConfigInv, Turns
    <2>2. \A v \in FileWriters : saver'[v].step = "reload" => v \in DeviceWriters
      BY <1>1 DEF ConfigInv, Turns
    <2>3. \A v \in Busy' : saver'[v].change.op = "settings" <=> v \in SettingWriters
      <3> SUFFICES ASSUME NEW v \in Busy
                   PROVE  saver'[v].change.op = "settings" <=> v \in SettingWriters
        BY <1>3
      <3>1. saver'[v].change = saver[v].change
        BY <1>1 DEF Busy
      <3> QED BY <3>1 DEF ConfigInv, Turns
    <2> QED BY <2>1, <2>2, <2>3 DEF Turns
  <1>5. SaverAlone'
    BY <1>3 DEF ConfigInv, SaverAlone
  <1>6. ~mixedSaves => \A v \in FileWriters \ {w} : saver'[v].step \in {"idle", "done", "failed"}
    BY <1>1, OthersRest
  <1> QED BY <1>1, <1>2, <1>4, <1>5, <1>6

(* A busy writer is done and gives the mutex back. *)
LEMMA GivesEnds ==
  ASSUME ConfigInv, NEW w \in Busy, NEW result \in {"done", "failed"}, Gives(w, result), UNCHANGED mixedSaves
  PROVE  /\ SaverShape' /\ Turns' /\ SaverAlone'
         /\ ~mixedSaves => \A v \in FileWriters : saver'[v].step \in {"idle", "done", "failed"}
  <1> DEFINE record == Idle(result)
  <1> w \in FileWriters
    BY DEF Busy
  <1>0. /\ SaverMoves(w, record) /\ IsSaver(record) /\ record.step = result
        /\ deviceFileMu' = IF deviceFileMu = w THEN NoFileHolder ELSE deviceFileMu
    BY DEF Gives, Idle, Saving, IsSaver, SaverSteps
  <1> HIDE DEF record
  <1>1. /\ saver' = [v \in FileWriters |-> saver'[v]]
        /\ saver'[w] = record
        /\ \A v \in FileWriters \ {w} : saver'[v] = saver[v]
        /\ \A v \in FileWriters : IsSaver(saver[v])'
        /\ \A v \in FileWriters \ {w} : v \in Busy' <=> v \in Busy
        /\ w \notin Busy'
    BY <1>0, Moved DEF ConfigInv
  <1>2. SaverShape'
    BY <1>0, <1>1 DEF ConfigInv, SaverShape
  <1>3. Busy' = Busy \ {w}
    BY <1>1 DEF Busy
  <1>4. Turns'
    <2>1. \A v \in DeviceWriters : v \in Busy' <=> deviceFileMu' = v
      BY <1>0, <1>3, ConfigAssumption DEF ConfigInv, Turns, SaverShape
    <2>2. \A v \in FileWriters : saver'[v].step = "reload" => v \in DeviceWriters
      BY <1>0, <1>1 DEF ConfigInv, Turns
    <2>3. \A v \in Busy' : saver'[v].change.op = "settings" <=> v \in SettingWriters
      <3> SUFFICES ASSUME NEW v \in Busy \ {w}
                   PROVE  saver'[v].change.op = "settings" <=> v \in SettingWriters
        BY <1>3
      <3>1. saver'[v].change = saver[v].change
        BY <1>1 DEF Busy
      <3> QED BY <3>1 DEF ConfigInv, Turns
    <2> QED BY <2>1, <2>2, <2>3 DEF Turns
  <1>5. SaverAlone'
    BY <1>3 DEF ConfigInv, SaverAlone
  <1>6. ~mixedSaves => \A v \in FileWriters : saver'[v].step \in {"idle", "done", "failed"}
    BY <1>0, <1>1, OthersRest
  <1> QED BY <1>2, <1>4, <1>5, <1>6

-----------------------------------------------------------------------------
(* One lemma for each action. *)

(* A change begins: the mutex keeps changes of devices apart. *)
LEMMA SaveKeeps ==
  ASSUME ConfigInv, NEW w \in FileWriters, NEW change \in DeviceChanges, Save(w, change)
  PROVE  ConfigInv'
  <1> DEFINE record == Saving("read", change, NotWritten, 0)
  <1>0. /\ SaverMoves(w, record) /\ IsSaver(record) /\ record.step = "read"
        /\ record.change = change
        /\ saver[w].step = "idle" /\ w \notin Busy
        /\ change.op = "settings" <=> w \in SettingWriters
        /\ UNCHANGED <<fileVars, globalConfig, committed, stale>>
    BY DEF Save, Runs, SaverAt, Saving, IsSaver, SaverSteps, Busy
  <1>m. /\ mixedSaves' = (mixedSaves \/ (Busy # {} /\ (Busy \cup {w}) \cap SettingWriters # {}))
        /\ IF w \in DeviceWriters THEN deviceFileMu = NoFileHolder /\ deviceFileMu' = w
                                  ELSE UNCHANGED deviceFileMu
    BY DEF Save, Runs
  <1> HIDE DEF record
  <1>1. /\ saver' = [v \in FileWriters |-> saver'[v]]
        /\ saver'[w] = record
        /\ \A v \in FileWriters \ {w} : saver'[v] = saver[v]
        /\ \A v \in FileWriters : IsSaver(saver[v])'
        /\ \A v \in FileWriters \ {w} : v \in Busy' <=> v \in Busy
        /\ w \in Busy'
    BY <1>0, Moved DEF ConfigInv
  <1>2. SaverShape'
    BY <1>m, <1>1 DEF ConfigInv, SaverShape
  <1>3. FileShape'
    BY <1>0, <1>m DEF ConfigInv, FileShape, fileVars
  <1>4. Busy' = Busy \cup {w}
    BY <1>1 DEF Busy
  <1>5. Turns'
    <2>1. \A v \in DeviceWriters : v \in Busy' <=> deviceFileMu' = v
      BY <1>m, <1>4, ConfigAssumption DEF ConfigInv, Turns, SaverShape, FileWriters
    <2>2. \A v \in FileWriters : saver'[v].step = "reload" => v \in DeviceWriters
      BY <1>0, <1>1 DEF ConfigInv, Turns
    <2>3. \A v \in Busy' : saver'[v].change.op = "settings" <=> v \in SettingWriters
      <3> SUFFICES ASSUME NEW v \in Busy
                   PROVE  saver'[v].change.op = "settings" <=> v \in SettingWriters
        BY <1>0, <1>1, <1>4
      <3>1. saver'[v].change = saver[v].change
        BY <1>0, <1>1 DEF Busy
      <3> QED BY <3>1 DEF ConfigInv, Turns
    <2> QED BY <2>1, <2>2, <2>3 DEF Turns
  <1>6. SaverAlone'
    <2> SUFFICES ASSUME ~mixedSaves' PROVE Busy = {}
      BY <1>4 DEF SaverAlone
    <2>1. ~mixedSaves /\ (Busy = {} \/ (Busy \cup {w}) \cap SettingWriters = {})
      BY <1>m DEF ConfigInv, FileShape
    <2>2. SUFFICES ASSUME NEW v \in Busy, (Busy \cup {w}) \cap SettingWriters = {}
                   PROVE  FALSE
      BY <2>1
    <2>3. v \in DeviceWriters /\ w \in DeviceWriters
      BY <2>2 DEF Busy, FileWriters
    <2> QED BY <2>3, <1>m, ConfigAssumption DEF ConfigInv, Turns
  <1>7. FileSound'
    <2> SUFFICES ASSUME ~mixedSaves'
                 PROVE  (contentsOf[path] = committed)' /\ \A v \in FileWriters : StepSound(v)'
      BY DEF FileSound
    <2>1. ~mixedSaves
      BY <1>m DEF ConfigInv, FileShape
    <2>2. contentsOf[path] = committed /\ \A v \in FileWriters : StepSound(v)
      BY <2>1 DEF ConfigInv, FileSound
    <2>3. StepSound(w)'
      BY <1>0, <1>1 DEF StepSound
    <2>4. \A v \in FileWriters \ {w} : StepSound(v)'
      BY <1>0, <1>1, <2>2 DEF StepSound, Sound, fileVars
    <2> QED BY <1>0, <2>2, <2>3, <2>4 DEF fileVars
  <1>8. MemorySound'
    BY <1>0, <1>1, <1>m DEF ConfigInv, MemorySound, FileShape
  <1> QED BY <1>2, <1>3, <1>5, <1>6, <1>7, <1>8 DEF ConfigInv

(* A step without an effect on names and devices ends a change. *)
LEMMA EndKeeps ==
  ASSUME ConfigInv, NEW w \in Busy, Gives(w, "failed"), saver[w].step # "reload",
         UNCHANGED <<path, tmp, globalConfig, configHistory>>,
         contentsOf' = [i \in Inodes |-> contentsOf'[i]],
         ~mixedSaves => contentsOf'[path] = contentsOf[path]
  PROVE  ConfigInv'
  <1>1. /\ SaverShape' /\ Turns' /\ SaverAlone'
        /\ ~mixedSaves => \A v \in FileWriters : saver'[v].step \in {"idle", "done", "failed"}
    BY GivesEnds DEF configHistory
  <1>2. FileShape'
    BY DEF ConfigInv, FileShape, configHistory
  <1>3. FileSound'
    BY <1>1 DEF ConfigInv, FileSound, StepSound, configHistory
  <1>4. MemorySound'
    <2> SUFFICES ASSUME ~mixedSaves, ~stale PROVE globalConfig.devices = committed.devices
      BY DEF MemorySound, configHistory
    <2>1. \A v \in FileWriters : saver[v].step # "reload"
      BY OthersRest
    <2> QED BY <2>1 DEF ConfigInv, MemorySound
  <1> QED BY <1>1, <1>2, <1>3, <1>4 DEF ConfigInv

LEMMA FailsKeeps ==
  ASSUME ConfigInv, NEW w \in FileWriters, SavingFails(w)
  PROVE  ConfigInv'
  <1>1. w \in Busy /\ Gives(w, "failed") /\ saver[w].step # "reload"
    BY DEF SavingFails, Busy
  <1>2. UNCHANGED <<path, tmp, globalConfig, configHistory, contentsOf>>
    BY DEF SavingFails, fileVars
  <1>3. contentsOf' = [i \in Inodes |-> contentsOf'[i]]
    BY <1>2 DEF ConfigInv, FileShape
  <1> QED BY <1>1, <1>2, <1>3, EndKeeps

(* What the facts of a step amount to once its writer's record is known. *)
LEMMA StepKeeps ==
  ASSUME ConfigInv, NEW w \in Busy, NEW step \in SaverSteps \ {"idle", "done", "failed", "reload"},
         NEW copy, NEW inode, Goes(w, step, copy, inode), saver[w].step # "reload",
         UNCHANGED <<deviceFileMu, path, globalConfig, configHistory>>,
         contentsOf' = [i \in Inodes |-> contentsOf'[i]],
         tmp' \in Inodes \cup {0}, tmp' # path,
         ~mixedSaves => contentsOf'[path] = contentsOf[path] /\ StepSound(w)'
  PROVE  ConfigInv'
  <1> DEFINE record == Saving(step, saver[w].change, copy, inode)
  <1>0. /\ SaverMoves(w, record) /\ IsSaver(record) /\ record.step = step
        /\ record.change = saver[w].change
    BY DEF Goes, Saving, IsSaver
  <1> HIDE DEF record
  <1>1. /\ SaverShape' /\ Turns' /\ SaverAlone'
        /\ saver'[w] = record
        /\ ~mixedSaves => \A v \in FileWriters \ {w} : saver'[v].step \in {"idle", "done", "failed"}
    BY <1>0, SaverGoesOn DEF configHistory
  <1>2. FileShape'
    BY DEF ConfigInv, FileShape, configHistory
  <1>3. FileSound'
    <2> SUFFICES ASSUME ~mixedSaves
                 PROVE  (contentsOf[path] = committed)' /\ \A v \in FileWriters : StepSound(v)'
      BY DEF FileSound, configHistory
    <2>1. \A v \in FileWriters \ {w} : StepSound(v)'
      BY <1>1 DEF StepSound
    <2> QED BY <2>1 DEF ConfigInv, FileSound, configHistory
  <1>4. MemorySound'
    <2> SUFFICES ASSUME ~mixedSaves, ~stale PROVE globalConfig.devices = committed.devices
      BY DEF MemorySound, configHistory
    <2>1. \A v \in FileWriters : saver[v].step # "reload"
      BY OthersRest
    <2> QED BY <2>1 DEF ConfigInv, MemorySound
  <1> QED BY <1>1, <1>2, <1>3, <1>4 DEF ConfigInv

LEMMA GoesRecord ==
  ASSUME SaverShape, NEW w \in FileWriters, NEW step, NEW copy, NEW inode, Goes(w, step, copy, inode)
  PROVE  /\ saver'[w].step = step /\ saver'[w].change = saver[w].change
         /\ saver'[w].copy = copy /\ saver'[w].inode = inode
  <1>1. saver'[w] = Saving(step, saver[w].change, copy, inode)
    BY DEF SaverShape, Goes, SaverMoves
  <1> QED BY <1>1 DEF Saving

LEMMA ReadKeeps ==
  ASSUME ConfigInv, NEW w \in FileWriters, ReadFile(w)
  PROVE  ConfigInv'
  <1> DEFINE copy == Edited(contentsOf[path], saver[w].change)
  <1>1. /\ w \in Busy /\ saver[w].step # "reload"
        /\ UNCHANGED <<path, tmp, globalConfig, configHistory, contentsOf>>
    BY DEF ReadFile, SaverAt, Busy, fileVars
  <1>2. contentsOf' = [i \in Inodes |-> contentsOf'[i]]
    BY <1>1 DEF ConfigInv, FileShape
  <1>3. CASE Readable(w)
    <2>1. Goes(w, "open", copy, 0) /\ UNCHANGED deviceFileMu
      BY <1>3 DEF ReadFile
    <2>2. ASSUME ~mixedSaves PROVE StepSound(w)'
      <3>1. contentsOf[path] = committed
        BY <2>2 DEF ConfigInv, FileSound
      <3>2. Possible(committed.devices, saver[w].change)
        BY <1>3, <3>1 DEF Readable
      <3>3. /\ saver'[w].step = "open" /\ saver'[w].change = saver[w].change
            /\ saver'[w].copy = copy
        BY <2>1, GoesRecord DEF ConfigInv
      <3>4. Sound(w)'
        BY <1>1, <3>1, <3>2, <3>3 DEF Sound, configHistory
      <3> QED BY <3>3, <3>4 DEF StepSound
    <2>3. /\ tmp' \in Inodes \cup {0} /\ tmp' # path /\ contentsOf'[path] = contentsOf[path]
          /\ "open" \in SaverSteps \ {"idle", "done", "failed", "reload"}
      BY <1>1 DEF ConfigInv, FileShape, SaverSteps
    <2> HIDE DEF copy
    <2> QED BY <1>1, <1>2, <2>1, <2>2, <2>3, StepKeeps
  <1>4. CASE ~Readable(w)
    <2>1. Gives(w, "failed")
      BY <1>4 DEF ReadFile
    <2> QED BY <1>1, <1>2, <2>1, EndKeeps
  <1> QED BY <1>3, <1>4

LEMMA OpenKeeps ==
  ASSUME ConfigInv, NEW w \in FileWriters, OpenTmp(w)
  PROVE  ConfigInv'
  <1>1. /\ w \in Busy /\ saver[w].step = "open"
        /\ Goes(w, "write", saver[w].copy, tmp')
        /\ contentsOf' = [contentsOf EXCEPT ![tmp'] = NotWritten]
        /\ UNCHANGED <<deviceFileMu, path, globalConfig, configHistory>>
    BY DEF OpenTmp, SaverAt, Busy
  <1>2. tmp' \in Inodes /\ tmp' # path
    BY InodesFromOne DEF OpenTmp, ConfigInv, FileShape
  <1>3. /\ contentsOf' = [i \in Inodes |-> contentsOf'[i]]
        /\ contentsOf'[path] = contentsOf[path] /\ contentsOf'[tmp'] = NotWritten
    BY <1>1, <1>2 DEF ConfigInv, FileShape
  <1>4. ASSUME ~mixedSaves PROVE StepSound(w)'
    <2>1. Sound(w)
      BY <1>1, <1>4 DEF ConfigInv, FileSound, StepSound
    <2>2. /\ saver'[w].step = "write" /\ saver'[w].change = saver[w].change
          /\ saver'[w].copy = saver[w].copy /\ saver'[w].inode = tmp'
      BY <1>1, GoesRecord DEF ConfigInv
    <2>3. Sound(w)'
      BY <1>1, <2>1, <2>2 DEF Sound, configHistory
    <2> QED BY <1>2, <1>3, <2>2, <2>3, InodesFromOne DEF StepSound
  <1>5. "write" \in SaverSteps \ {"idle", "done", "failed", "reload"}
    BY DEF SaverSteps
  <1> QED BY <1>1, <1>2, <1>3, <1>4, <1>5, StepKeeps

LEMMA WriteKeeps ==
  ASSUME ConfigInv, NEW w \in FileWriters, WriteTmp(w)
  PROVE  ConfigInv'
  <1> DEFINE inode == saver[w].inode
  <1>1. /\ w \in Busy /\ saver[w].step = "write"
        /\ UNCHANGED <<path, tmp, globalConfig, configHistory>>
    BY DEF WriteTmp, SaverAt, Busy
  <1>2. ASSUME ~mixedSaves
        PROVE  /\ Sound(w) /\ tmp # 0 /\ inode = tmp /\ inode # path
               /\ contentsOf[inode] = NotWritten
    BY <1>1, <1>2 DEF ConfigInv, FileSound, StepSound, FileShape
  <1>3. ASSUME NEW contents, Writes(inode, contents)
        PROVE  /\ contentsOf' = [i \in Inodes |-> contentsOf'[i]]
               /\ ~mixedSaves => contentsOf'[path] = contentsOf[path] /\ contentsOf'[inode] = contents
    BY <1>2, <1>3 DEF Writes, ConfigInv, FileShape
  <1>4. ASSUME NEW contents, Writes(inode, contents), ~mixedSaves => contents = saver[w].copy,
               Goes(w, "rename", saver[w].copy, inode), UNCHANGED deviceFileMu
        PROVE  ConfigInv'
    <2>1. /\ saver'[w].step = "rename" /\ saver'[w].change = saver[w].change
          /\ saver'[w].copy = saver[w].copy
      BY <1>4, GoesRecord DEF ConfigInv
    <2>2. ASSUME ~mixedSaves PROVE StepSound(w)'
      <3>1. Sound(w)'
        BY <1>1, <1>2, <2>1, <2>2 DEF Sound, configHistory
      <3> QED BY <1>1, <1>2, <1>3, <1>4, <2>1, <2>2, <3>1 DEF StepSound
    <2>3. /\ tmp' \in Inodes \cup {0} /\ tmp' # path /\ saver[w].step # "reload"
          /\ "rename" \in SaverSteps \ {"idle", "done", "failed", "reload"}
      BY <1>1 DEF ConfigInv, FileShape, SaverSteps
    <2> HIDE DEF inode
    <2> QED BY <1>1, <1>3, <1>4, <2>2, <2>3, StepKeeps
  <1>5. CASE /\ Writes(inode, saver[w].copy) /\ Goes(w, "rename", saver[w].copy, inode)
             /\ UNCHANGED deviceFileMu
    BY <1>4, <1>5
  <1>6. CASE /\ contentsOf[inode] # NotWritten /\ Writes(inode, Cut)
             /\ Goes(w, "rename", saver[w].copy, inode) /\ UNCHANGED deviceFileMu
    BY <1>2, <1>4, <1>6
  <1>7. CASE Writes(inode, Cut) /\ Gives(w, "failed")
    <2>1. saver[w].step # "reload"
      BY <1>1
    <2> QED BY <1>1, <1>3, <1>7, <2>1, EndKeeps
  <1> QED BY <1>5, <1>6, <1>7 DEF WriteTmp

(* The file becomes what the change makes of all that was saved before. *)
LEMMA RenameKeeps ==
  ASSUME ConfigInv, NEW w \in FileWriters, RenameTmp(w)
  PROVE  ConfigInv'
  <1>1. /\ w \in Busy /\ saver[w].step = "rename"
        /\ UNCHANGED <<contentsOf, globalConfig, mixedSaves, stale>>
    BY DEF RenameTmp, SaverAt, Busy
  <1>2. contentsOf' = [i \in Inodes |-> contentsOf'[i]]
    BY <1>1 DEF ConfigInv, FileShape
  <1>3. CASE tmp = 0
    <2>1. Gives(w, "failed") /\ UNCHANGED <<path, tmp, committed>>
      BY <1>3 DEF RenameTmp
    <2>2. saver[w].step # "reload" /\ UNCHANGED configHistory /\ contentsOf'[path] = contentsOf[path]
      BY <1>1, <2>1 DEF configHistory
    <2> QED BY <1>1, <1>2, <2>1, <2>2, EndKeeps
  <1>4. CASE tmp # 0
    <2>1. path' = tmp /\ tmp' = 0 /\ committed' = Applied(saver[w].change)
      BY <1>4 DEF RenameTmp
    <2>2. /\ committed'.text = "whole"
          /\ saver[w].change.op = "settings" => committed'.devices = committed.devices
      BY <2>1, EditedFacts DEF Applied, ConfigInv, FileShape
    <2>3. FileShape'
      BY <1>1, <1>2, <1>4, <2>1, <2>2, InodesFromOne DEF ConfigInv, FileShape
    <2>4. ASSUME ~mixedSaves PROVE (contentsOf[path] = committed)'
      <3>1. Sound(w) /\ contentsOf[tmp] = saver[w].copy
        BY <1>1, <2>4 DEF ConfigInv, FileSound, StepSound
      <3> QED BY <1>1, <2>1, <3>1 DEF Sound, Applied
    <2>5. CASE w \in DeviceWriters
      <3> DEFINE record == Saving("reload", saver[w].change, NotWritten, 0)
      <3>1. /\ SaverMoves(w, record) /\ IsSaver(record) /\ record.step = "reload"
            /\ record.change = saver[w].change /\ UNCHANGED deviceFileMu
        BY <1>4, <2>5 DEF RenameTmp, Goes, Saving, IsSaver, SaverSteps
      <3> HIDE DEF record
      <3>2. /\ SaverShape' /\ Turns' /\ SaverAlone' /\ saver'[w] = record
            /\ ~mixedSaves => \A v \in FileWriters \ {w} : saver'[v].step \in {"idle", "done", "failed"}
        BY <1>1, <2>5, <3>1, SaverGoesOn
      <3>3. FileSound'
        BY <1>1, <2>4, <3>1, <3>2 DEF FileSound, StepSound
      <3>4. MemorySound'
        BY <3>1, <3>2 DEF MemorySound
      <3> QED BY <2>3, <3>2, <3>3, <3>4 DEF ConfigInv
    <2>6. CASE w \notin DeviceWriters
      <3>1. Gives(w, "done")
        BY <1>4, <2>6 DEF RenameTmp
      <3>2. /\ SaverShape' /\ Turns' /\ SaverAlone'
            /\ ~mixedSaves => \A v \in FileWriters : saver'[v].step \in {"idle", "done", "failed"}
        BY <1>1, <3>1, GivesEnds
      <3>3. FileSound'
        BY <1>1, <2>4, <3>2 DEF FileSound, StepSound
      <3>4. saver[w].change.op = "settings"
        BY <1>1, <2>6 DEF ConfigInv, Turns, FileWriters
      <3>5. MemorySound'
        <4> SUFFICES ASSUME ~mixedSaves, ~stale PROVE globalConfig.devices = committed'.devices
          BY <1>1 DEF MemorySound
        <4>1. \A v \in FileWriters : saver[v].step # "reload"
          BY <1>1, OthersRest
        <4> QED BY <2>2, <3>4, <4>1 DEF ConfigInv, MemorySound
      <3> QED BY <2>3, <3>2, <3>3, <3>5 DEF ConfigInv
    <2> QED BY <2>5, <2>6
  <1> QED BY <1>3, <1>4

LEMMA ReloadKeeps ==
  ASSUME ConfigInv, NEW w \in FileWriters, Reload(w)
  PROVE  ConfigInv'
  <1>1. /\ w \in Busy /\ Gives(w, "done")
        /\ UNCHANGED <<contentsOf, path, tmp, committed, mixedSaves>>
        /\ stale' = TRUE \/ globalConfig' = contentsOf[path]
    BY DEF Reload, SaverAt, Busy, fileVars
  <1>2. /\ SaverShape' /\ Turns' /\ SaverAlone'
        /\ ~mixedSaves => \A v \in FileWriters : saver'[v].step \in {"idle", "done", "failed"}
    BY <1>1, GivesEnds
  <1>3. FileShape'
    BY <1>1 DEF ConfigInv, FileShape
  <1>4. FileSound'
    BY <1>1, <1>2 DEF ConfigInv, FileSound, StepSound
  <1>5. MemorySound'
    BY <1>1 DEF ConfigInv, FileSound, MemorySound
  <1> QED BY <1>2, <1>3, <1>4, <1>5 DEF ConfigInv

LEMMA CrashKeeps ==
  ASSUME ConfigInv, ConfigCrash
  PROVE  ConfigInv'
  <1>1. /\ saver' = [w \in FileWriters |-> IF w \in Busy THEN Idle("failed") ELSE saver[w]]
        /\ deviceFileMu' = NoFileHolder
        /\ globalConfig' = IF contentsOf[path].text = "cut" THEN NotWritten ELSE contentsOf[path]
        /\ UNCHANGED <<contentsOf, path, tmp, committed, mixedSaves>>
    BY DEF ConfigCrash, fileVars
  <1>2. Idle("failed").step = "failed" /\ IsSaver(Idle("failed"))
    BY DEF Idle, Saving, IsSaver, SaverSteps
  <1>3. \A w \in FileWriters : IsSaver(saver[w])' /\ saver'[w].step \in {"idle", "done", "failed"}
    BY <1>1, <1>2 DEF ConfigInv, SaverShape, IsSaver, Busy
  <1>4. SaverShape'
    BY <1>1, <1>3 DEF SaverShape
  <1>5. Busy' = {}
    BY <1>3 DEF Busy
  <1>6. Turns' /\ SaverAlone'
    BY <1>1, <1>3, <1>5, ConfigAssumption DEF Turns, SaverAlone, FileWriters
  <1>7. FileShape'
    BY <1>1 DEF ConfigInv, FileShape
  <1>8. FileSound'
    BY <1>1, <1>3 DEF ConfigInv, FileSound, StepSound
  <1>9. MemorySound'
    BY <1>1 DEF ConfigInv, FileShape, FileSound, MemorySound
  <1> QED BY <1>4, <1>6, <1>7, <1>8, <1>9 DEF ConfigInv

-----------------------------------------------------------------------------
LEMMA NextKeeps == ConfigInv /\ [ConfigNext]_configVars => ConfigInv'
  <1> SUFFICES ASSUME ConfigInv, [ConfigNext]_configVars PROVE ConfigInv'
    OBVIOUS
  <1>1. ASSUME NEW w \in FileWriters, SaveGoesOn(w) PROVE ConfigInv'
    BY <1>1, FailsKeeps, ReadKeeps, OpenKeeps, WriteKeeps, RenameKeeps, ReloadKeeps DEF SaveGoesOn
  <1>2. ASSUME NEW w \in FileWriters, NEW change \in DeviceChanges, Save(w, change)
        PROVE  ConfigInv'
    BY <1>2, SaveKeeps
  <1>3. CASE UNCHANGED configVars
    BY <1>3 DEF configVars, fileVars, configHistory, ConfigInv, SaverShape, FileShape, Turns, SaverAlone,
       FileSound, MemorySound, StepSound, Sound, Busy, IsSaver
  <1> QED BY <1>1, <1>2, <1>3, CrashKeeps DEF ConfigNext

LEMMA InvGives == ConfigInv => ConfigTypeOK /\ ChangesAreKept
  <1> SUFFICES ASSUME ConfigInv PROVE ConfigTypeOK /\ ChangesAreKept
    OBVIOUS
  <1>1. ConfigTypeOK
    BY ConfigAssumption
       DEF ConfigInv, SaverShape, FileShape, Turns, IsSaver, SaverSteps, ConfigTypeOK, FileWriters
  <1>2. ChangesAreKept
    <2> SUFFICES ASSUME ~mixedSaves
                 PROVE  /\ contentsOf[path] = committed
                        /\ stale \/ deviceFileMu # NoFileHolder
                                 \/ globalConfig.devices = committed.devices
      BY DEF ChangesAreKept
    <2>1. ASSUME NEW w \in FileWriters, saver[w].step = "reload" PROVE deviceFileMu # NoFileHolder
      BY <2>1, ConfigAssumption DEF ConfigInv, Turns, Busy
    <2> QED BY <2>1 DEF ConfigInv, FileSound, MemorySound
  <1> QED BY <1>1, <1>2

(* Whatever writers there are, whichever of their calls fail and wherever  *)
(* the program dies, a change whose new file is in place is in the file,   *)
(* and in memory once its writer is done, as long as changes of settings   *)
(* keep to themselves (updateDevicesInFile, UpdateNotificationInFile).     *)
THEOREM KeepsChanges == ConfigSpec => []ChangesAreKept
  <1>1. ConfigInv => ChangesAreKept
    BY InvGives
  <1> QED BY <1>1, InitHolds, NextKeeps, PTL DEF ConfigSpec

(* The variables of the configuration file keep their types. *)
THEOREM ConfigTypeCorrect == ConfigSpec => []ConfigTypeOK
  <1>1. ConfigInv => ConfigTypeOK
    BY InvGives
  <1> QED BY <1>1, InitHolds, NextKeeps, PTL DEF ConfigSpec
=============================================================================
