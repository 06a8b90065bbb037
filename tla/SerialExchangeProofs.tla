------------------------ MODULE SerialExchangeProofs ------------------------
(***************************************************************************)
(* Proofs about SerialExchange, for any number of programs on one port, of *)
(* retries, stray messages and lost requests.  The line is a queue, so an  *)
(* answer that must be one's own is behind everything older: when it has   *)
(* been taken, nothing of earlier programs can answer the next request.    *)
(***************************************************************************)
EXTENDS SerialExchange, SequenceTheorems, WellFoundedInduction, TLAPS

----------------------------------------------------------------------------
\* What is left of a program is a chain of steps.
S(do, mid) == [do |-> do, mid |-> mid]

\* The request a step is about.
Subject(s) == IF s.do = "reset" THEN "GOTOCONFIG" ELSE s.mid

IsTool(p) == p.do \in {"configure", "record"}

\* The requests of a program.
KindsOf(p) ==
  CASE p.do = "configure" -> {"GOTOCONFIG", "DEVICE_ID", "OUTPUT", "GOTOMEASUREMENT"}
    [] p.do = "record"    -> {"GOTOCONFIG", "DEVICE_ID", "GOTOMEASUREMENT"}
    [] OTHER              -> Requests \ {"OUTPUT", "RESET"}

StepsOf(p) ==
  {s \in Steps : /\ s.do \in {"send", "receive", "try", "fast", "retry"}
                      => s.mid \in KindsOf(p)
                 /\ s.do \in {"fast", "retry"} => s.mid = "GOTOCONFIG"
                 /\ s.do = "try" => ~IsTool(p)
                 /\ s.do = "read" => p.do = "record"}

\* The step that follows another in the configurator and in the recorder.
Following(p, s) ==
  CASE s.do = "open"  -> S("flush", "")
    [] s.do = "flush" -> S("send", "GOTOCONFIG")
    [] s.do = "send"  -> S(IF p.do = "record" /\ s.mid = "GOTOCONFIG"
                           THEN "fast" ELSE "receive", s.mid)
    [] s.do = "read"  -> S("close", "")
    [] OTHER ->
         CASE Subject(s) = "GOTOCONFIG" -> S("send", "DEVICE_ID")
           [] Subject(s) = "DEVICE_ID"  ->
                S("send", IF p.do = "configure" THEN "OUTPUT" ELSE "GOTOMEASUREMENT")
           [] Subject(s) = "OUTPUT"     -> S("send", "GOTOMEASUREMENT")
           [] OTHER -> S(IF p.do = "configure" THEN "close" ELSE "read", "")

Follows(p, r, s) == /\ r.do = "close" <=> s.do = "open"
                    /\ IsTool(p) => s = Following(p, r)

Chain(p, s) ==
  s \in Seq(StepsOf(p)) /\ \A i \in 1 .. Len(s) - 1 : Follows(p, s[i], s[i + 1])

\* A chain from one step to another.
Block(p, s, first, last) ==
  Chain(p, s) /\ s # <<>> /\ s[1] = first /\ s[Len(s)] = last

\* The configurator and the recorder end by closing the port.
Ending(p, s) == IsTool(p) /\ s # <<>> => s[Len(s)].do = "close"

PortMatches == todo # <<>> => (portOpen <=> Head(todo).do # "open")

\* What travels to the sensor.
Letters == [mid : Requests, preset : SUBSET Presets]

Typed ==
  /\ client \in Programs \cup {[do |-> "none"]}
  /\ outcome \in {"ok", "raised", "abandoned"}
  /\ clients \in 0 .. MaxClients
  /\ portOpen \in BOOLEAN
  /\ deaf \in BOOLEAN
  /\ retries \in 0 .. MaxRetries
  /\ stale \subseteq Requests
  /\ wire \in Seq(Letters)
  /\ line \in Seq(Mids)
  /\ strays \in 0 .. MaxStrays
  /\ lost \in 0 .. MaxLost
  /\ mode \in {"CONFIG", "MEASUREMENT", "BOOT"}
  /\ config \in Presets
  /\ stuck \in BOOLEAN

TypeInv == Typed /\ Chain(client, todo) /\ Ending(client, todo) /\ PortMatches

----------------------------------------------------------------------------
\* What is under way.

Kinds == KindsOf(client)

Before(x) == CASE x = "GOTOCONFIG" -> {}
               [] x = "DEVICE_ID"  -> {"GOTOCONFIG"}
               [] x = "OUTPUT"     -> {"GOTOCONFIG", "DEVICE_ID"}
               [] OTHER            -> Kinds \ {"GOTOMEASUREMENT"}

After(x) == Kinds \ (Before(x) \cup {x})

\* One of these answers must be the program's own.
Settled(kinds) == ~(kinds \subseteq stale)

\* No request of this kind is under way, and no answer to one.
NotYet(x) == /\ \A i \in DOMAIN wire : wire[i].mid # x
             /\ \A i \in DOMAIN line : line[i] # x

\* What is sent behind a request while its answer is awaited.
Retried(x) == IF x = "GOTOCONFIG" THEN {"GOTOCONFIG", "RESET"} ELSE {}

\* Nothing else is behind a request of this kind, or behind the answer to one.
Trails(x) ==
  /\ \A i, j \in DOMAIN wire : wire[i].mid = x /\ i < j => wire[j].mid \in Retried(x)
  /\ \A i \in DOMAIN line : line[i] = x =>
        /\ \A j \in DOMAIN line : i < j => line[j] \in Strays \cup Retried(x)
        /\ \A j \in DOMAIN wire : wire[j].mid \in Retried(x)

Sending(x) == todo # <<>> /\ Head(todo) = S("send", x)
Waiting(x) == /\ todo # <<>>
              /\ Head(todo).do \in {"receive", "fast", "reset", "retry"}
              /\ Subject(Head(todo)) = x

\* Unless all answers so far and the next one may be stale, nothing under way
\* can be taken for the answer to a later request,
Later(x) == \A y \in After(x) : Settled(Before(x) \cup {y}) => NotYet(y)

\* nor for the answer to this one, unless it is its own.
Exclusive ==
  \A x \in Kinds :
     /\ Sending(x) => Later(x) /\ (Settled(Before(x) \cup {x}) => NotYet(x))
     /\ Waiting(x) => Later(x) /\ (Settled(Before(x) \cup {x}) => Trails(x))

\* What the sensor has done when it has answered.
OutputTaken ==
  Waiting("OUTPUT") /\ Settled({"GOTOCONFIG", "DEVICE_ID", "OUTPUT"})
    => /\ \A i \in DOMAIN wire :
            wire[i].mid = "OUTPUT" => wire[i].preset = {client.preset}
       /\ \A i \in DOMAIN line : line[i] = "OUTPUT" => config = client.preset

OutputKept ==
  (/\ client.do = "configure"
   /\ Sending("GOTOMEASUREMENT") \/ Waiting("GOTOMEASUREMENT")
   /\ Settled({"GOTOCONFIG", "DEVICE_ID", "OUTPUT"}))
    => config = client.preset /\ NotYet("OUTPUT")

Measured ==
  Waiting("GOTOMEASUREMENT") /\ Settled(Kinds)
    => \A i \in DOMAIN line : line[i] = "GOTOMEASUREMENT" => mode = "MEASUREMENT"

\* Behind the last answer nothing is under way.
Finished ==
  /\ client.do = "configure" /\ (todo = <<>> \/ Doing("close"))
       /\ Settled({"GOTOCONFIG", "DEVICE_ID", "OUTPUT"})
       => wire = <<>> /\ Applied
  /\ client.do = "record" /\ Doing("read") /\ Settled(Kinds)
       => wire = <<>> /\ mode = "MEASUREMENT"

Progress == Exclusive /\ OutputTaken /\ OutputKept /\ Measured /\ Finished

ProgressInv == IsTool(client) /\ outcome = "ok" => Progress

\* A program that has failed has at most the port left to close.
RaisedInv == outcome # "ok" => todo \in {<<>>, Close}

Inv == TypeInv /\ RaisedInv /\ ProgressInv

----------------------------------------------------------------------------
\* Chains.
LEMMA Single ==
  ASSUME NEW p, NEW do, NEW mid, S(do, mid) \in StepsOf(p)
  PROVE  Block(p, Step(do, mid), S(do, mid), S(do, mid))
  BY DEF Block, Chain, Step, S

LEMMA Joined ==
  ASSUME NEW p, NEW s, NEW r, NEW a, NEW b, NEW c, NEW d,
         Block(p, s, a, b), Block(p, r, c, d), Follows(p, b, c)
  PROVE  Block(p, s \o r, a, d)
  <1> DEFINE q == s \o r
  <1>1. /\ s \in Seq(StepsOf(p)) /\ r \in Seq(StepsOf(p))
        /\ Len(s) \in Nat \ {0} /\ Len(r) \in Nat \ {0}
    BY DEF Block, Chain
  <1>2. /\ q \in Seq(StepsOf(p)) /\ Len(q) = Len(s) + Len(r)
        /\ \A i \in 1 .. Len(s) : q[i] = s[i]
        /\ \A i \in 1 .. Len(r) : q[Len(s) + i] = r[i]
    BY <1>1
  <1> HIDE DEF q
  <1>3. q[1] = a /\ q[Len(q)] = d /\ q # <<>>
    <2>1. 1 \in 1 .. Len(s) /\ Len(r) \in 1 .. Len(r)
      BY <1>1
    <2>2. QED
      BY <1>1, <1>2, <2>1 DEF Block
  <1>4. ASSUME NEW i \in 1 .. Len(q) - 1 PROVE Follows(p, q[i], q[i + 1])
    <2>1. CASE i < Len(s)
      <3>1. i \in 1 .. Len(s) - 1 /\ i \in 1 .. Len(s) /\ i + 1 \in 1 .. Len(s)
        BY <1>1, <2>1
      <3>2. QED
        BY <1>2, <3>1 DEF Block, Chain
    <2>2. CASE i = Len(s)
      <3>1. i \in 1 .. Len(s) /\ 1 \in 1 .. Len(r)
        BY <1>1, <2>2
      <3>2. q[i] = b /\ q[i + 1] = c
        BY <1>2, <2>2, <3>1 DEF Block
      <3>3. QED
        BY <3>2
    <2>3. CASE i > Len(s)
      <3> DEFINE j == i - Len(s)
      <3>1. /\ j \in 1 .. Len(r) - 1 /\ j \in 1 .. Len(r) /\ j + 1 \in 1 .. Len(r)
            /\ i = Len(s) + j /\ i + 1 = Len(s) + (j + 1)
        BY <1>1, <1>2, <2>3
      <3> HIDE DEF j
      <3>2. q[i] = r[j] /\ q[i + 1] = r[j + 1]
        BY <1>2, <3>1
      <3>3. QED
        BY <3>1, <3>2 DEF Block, Chain
    <2>4. QED
      BY <1>1, <2>1, <2>2, <2>3
  <1>5. QED
    BY <1>2, <1>3, <1>4 DEF Block, Chain, q

\* What is left of a chain when its first step is done.
LEMMA TailOfChain ==
  ASSUME NEW p, NEW s, Chain(p, s), s # <<>>
  PROVE  /\ Chain(p, Tail(s)) /\ Head(s) \in StepsOf(p) /\ Head(s) = s[1]
         /\ Tail(s) # <<>> => /\ Follows(p, Head(s), Head(Tail(s)))
                              /\ Block(p, Tail(s), Head(Tail(s)), s[Len(s)])
         /\ Tail(s) = <<>> => Head(s) = s[Len(s)]
  <1> DEFINE q == Tail(s)
  <1>1. s \in Seq(StepsOf(p)) /\ Len(s) \in Nat \ {0} /\ Head(s) = s[1]
    BY DEF Chain
  <1>2. /\ q \in Seq(StepsOf(p)) /\ Len(q) = Len(s) - 1
        /\ \A i \in 1 .. Len(q) : q[i] = s[i + 1]
    BY <1>1
  <1> HIDE DEF q
  <1>9. /\ q # <<>> <=> Len(q) > 0
        /\ q # <<>> => Head(q) = q[1]
    BY <1>2
  <1>3. ASSUME NEW i \in 1 .. Len(q) - 1 PROVE Follows(p, q[i], q[i + 1])
    <2>1. /\ i \in 1 .. Len(q) /\ i + 1 \in 1 .. Len(q)
          /\ i + 1 \in 1 .. Len(s) - 1
      BY <1>1, <1>2
    <2>2. q[i] = s[i + 1] /\ q[i + 1] = s[(i + 1) + 1]
      BY <1>2, <2>1
    <2>3. QED
      BY <2>1, <2>2 DEF Chain
  <1>4. Chain(p, q)
    BY <1>2, <1>3 DEF Chain
  <1>5. ASSUME q # <<>>
        PROVE  Follows(p, Head(s), Head(q)) /\ q[Len(q)] = s[Len(s)]
    <2>1. 1 \in 1 .. Len(s) - 1 /\ 1 \in 1 .. Len(q) /\ Len(q) \in 1 .. Len(q)
      BY <1>1, <1>2, <1>5, <1>9
    <2>2. Head(q) = s[1 + 1] /\ q[Len(q)] = s[Len(s)]
      BY <1>1, <1>2, <1>5, <1>9, <2>1
    <2>3. Follows(p, s[1], s[1 + 1])
      BY <2>1 DEF Chain
    <2>4. QED
      BY <1>1, <2>2, <2>3
  <1>6. q = <<>> => Head(s) = s[Len(s)]
    BY <1>1, <1>2, <1>9
  <1>7. Head(s) \in StepsOf(p)
    BY <1>1
  <1>8. QED
    BY <1>1, <1>2, <1>4, <1>5, <1>6, <1>7 DEF q, Block

LEMMA Paired ==
  ASSUME NEW p, NEW do, NEW mid, NEW then, NEW other,
         S(do, mid) \in StepsOf(p), S(then, other) \in StepsOf(p),
         Follows(p, S(do, mid), S(then, other))
  PROVE  Block(p, Step(do, mid) \o Step(then, other), S(do, mid), S(then, other))
  <1>1. /\ Block(p, Step(do, mid), S(do, mid), S(do, mid))
        /\ Block(p, Step(then, other), S(then, other), S(then, other))
    BY Single
  <1>2. QED
    BY <1>1, Joined

LEMMA StepsAre ==
  ASSUME NEW p, NEW mid \in KindsOf(p)
  PROVE  /\ \A do \in {"send", "receive"} : S(do, mid) \in StepsOf(p)
         /\ ~IsTool(p) => S("try", mid) \in StepsOf(p)
         /\ \A do \in {"open", "flush", "close", "reset"} : S(do, "") \in StepsOf(p)
         /\ p.do = "record" => S("read", "") \in StepsOf(p)
         /\ \A do \in {"fast", "retry"} : S(do, "GOTOCONFIG") \in StepsOf(p)
  <1>1. mid \in Requests /\ "GOTOCONFIG" \in KindsOf(p) /\ "GOTOCONFIG" \in Requests
    BY DEF KindsOf, Requests
  <1>2. QED
    BY <1>1 DEF S, StepsOf, Steps

LEMMA ConfigIsKind == \A p : "GOTOCONFIG" \in KindsOf(p)
  BY DEF KindsOf, Requests

\* What programs are put together from.
LEMMA Parts ==
  ASSUME NEW p, NEW mid \in KindsOf(p)
  PROVE  /\ Block(p, Open, S("open", ""), S("flush", ""))
         /\ Block(p, Close, S("close", ""), S("close", ""))
         /\ p.do = "record" => Block(p, Step("read", ""), S("read", ""), S("read", ""))
         /\ ~(p.do = "record" /\ mid = "GOTOCONFIG")
              => Block(p, Exchange(mid), S("send", mid), S("receive", mid))
         /\ ~IsTool(p) => Block(p, Optional(mid), S("send", mid), S("try", mid))
         /\ p.do = "record" => Block(p, ConfigMode, S("send", "GOTOCONFIG"),
                                                    S("fast", "GOTOCONFIG"))
  <1>1. Block(p, Open, S("open", ""), S("flush", ""))
    <2>1. Follows(p, S("open", ""), S("flush", ""))
      BY DEF S, Follows, Following
    <2>2. QED
      BY <2>1, StepsAre, Paired DEF Open
  <1>2. /\ Block(p, Close, S("close", ""), S("close", ""))
        /\ p.do = "record" => Block(p, Step("read", ""), S("read", ""), S("read", ""))
    BY StepsAre, Single DEF Close
  <1>3. ASSUME ~(p.do = "record" /\ mid = "GOTOCONFIG")
        PROVE  Block(p, Exchange(mid), S("send", mid), S("receive", mid))
    <2>1. Follows(p, S("send", mid), S("receive", mid))
      BY <1>3 DEF S, Follows, Following
    <2>2. QED
      BY <2>1, StepsAre, Paired DEF Exchange
  <1>4. ASSUME ~IsTool(p)
        PROVE  Block(p, Optional(mid), S("send", mid), S("try", mid))
    <2>1. Follows(p, S("send", mid), S("try", mid))
      BY <1>4 DEF S, Follows
    <2>2. QED
      BY <1>4, <2>1, StepsAre, Paired DEF Optional
  <1>5. ASSUME p.do = "record"
        PROVE  Block(p, ConfigMode, S("send", "GOTOCONFIG"), S("fast", "GOTOCONFIG"))
    <2>1. Follows(p, S("send", "GOTOCONFIG"), S("fast", "GOTOCONFIG"))
      BY <1>5 DEF S, Follows, Following
    <2>2. "GOTOCONFIG" \in KindsOf(p)
      BY DEF KindsOf, Requests
    <2>3. /\ S("send", "GOTOCONFIG") \in StepsOf(p)
          /\ S("fast", "GOTOCONFIG") \in StepsOf(p)
      BY <2>2, StepsAre
    <2>4. QED
      BY <2>1, <2>3, Paired DEF ConfigMode
  <1>6. QED
    BY <1>1, <1>2, <1>3, <1>4, <1>5

\* Each program is a chain that begins by opening the port.
LEMMA BodyIs ==
  ASSUME NEW p \in Programs
  PROVE  \E last : /\ Block(p, Body(p), S("open", ""), last)
                   /\ IsTool(p) => last = S("close", "")
  <1> DEFINE GC == "GOTOCONFIG"
             Id == "DEVICE_ID"
             GM == "GOTOMEASUREMENT"
  <1>7. /\ \A mid \in {GC, Id, GM} : mid \in KindsOf(p)
        /\ p.do = "configure" => "OUTPUT" \in KindsOf(p)
        /\ ~IsTool(p) => {"PRODUCT_CODE", "FIRMWARE", "HARDWARE"} \subseteq KindsOf(p)
    BY DEF KindsOf, Requests, IsTool
  <1>1. p.do \in {"probe", "session", "record", "configure"}
    BY DEF Programs
  <1>2. /\ Block(p, Open, S("open", ""), S("flush", ""))
        /\ Block(p, Close, S("close", ""), S("close", ""))
        /\ Block(p, Exchange(Id), S("send", Id), S("receive", Id))
        /\ Block(p, Exchange(GM), S("send", GM), S("receive", GM))
    BY <1>7, Parts
  <1>3. CASE p.do = "record"
    <2>1. /\ Block(p, ConfigMode, S("send", GC), S("fast", GC))
          /\ Block(p, Step("read", ""), S("read", ""), S("read", ""))
      BY <1>3, <1>7, Parts
    <2>2. /\ Follows(p, S("flush", ""), S("send", GC))
          /\ Follows(p, S("fast", GC), S("send", Id))
          /\ Follows(p, S("receive", Id), S("send", GM))
          /\ Follows(p, S("receive", GM), S("read", ""))
          /\ Follows(p, S("read", ""), S("close", ""))
      BY <1>3 DEF S, Follows, Following, Subject
    <2>3. Block(p, Open \o ConfigMode, S("open", ""), S("fast", GC))
      BY <1>2, <2>1, <2>2, Joined
    <2>4. Block(p, Open \o ConfigMode \o Exchange(Id), S("open", ""), S("receive", Id))
      BY <1>2, <2>2, <2>3, Joined
    <2>5. Block(p, Open \o ConfigMode \o Exchange(Id) \o Exchange(GM),
                S("open", ""), S("receive", GM))
      BY <1>2, <2>2, <2>4, Joined
    <2>6. Block(p, Open \o ConfigMode \o Exchange(Id) \o Exchange(GM)
                     \o Step("read", ""), S("open", ""), S("read", ""))
      BY <2>1, <2>2, <2>5, Joined
    <2>7. Block(p, RecordDevice, S("open", ""), S("close", ""))
      BY <1>2, <2>2, <2>6, Joined DEF RecordDevice
    <2>8. QED
      BY <1>3, <2>7 DEF Body
  <1>4. CASE p.do # "record"
    <2>1. /\ Block(p, Exchange(GC), S("send", GC), S("receive", GC))
          /\ Follows(p, S("flush", ""), S("send", GC))
          /\ Follows(p, S("receive", GC), S("send", Id))
      BY <1>4, <1>7, Parts DEF S, Follows, Following, Subject
    <2>2. Block(p, Open \o Exchange(GC), S("open", ""), S("receive", GC))
      BY <1>2, <2>1, Joined
    <2>3. Block(p, Open \o Exchange(GC) \o Exchange(Id), S("open", ""), S("receive", Id))
      BY <1>2, <2>1, <2>2, Joined
    <2>4. CASE p.do = "configure"
      <3>1. Block(p, Exchange("OUTPUT"), S("send", "OUTPUT"), S("receive", "OUTPUT"))
        BY <1>7, <2>4, Parts
      <3>2. /\ Follows(p, S("receive", Id), S("send", "OUTPUT"))
            /\ Follows(p, S("receive", "OUTPUT"), S("send", GM))
            /\ Follows(p, S("receive", GM), S("close", ""))
        BY <2>4 DEF S, Follows, Following, Subject
      <3>3. Block(p, Open \o Exchange(GC) \o Exchange(Id) \o Exchange("OUTPUT"),
                  S("open", ""), S("receive", "OUTPUT"))
        BY <2>3, <3>1, <3>2, Joined
      <3>4. Block(p, Open \o Exchange(GC) \o Exchange(Id) \o Exchange("OUTPUT")
                       \o Exchange(GM), S("open", ""), S("receive", GM))
        BY <1>2, <3>2, <3>3, Joined
      <3>5. Block(p, ConfigureDevice, S("open", ""), S("close", ""))
        BY <1>2, <3>2, <3>4, Joined DEF ConfigureDevice
      <3>6. QED
        BY <2>4, <3>5 DEF Body
    <2>5. CASE ~IsTool(p)
      <3>1. \A m \in {"PRODUCT_CODE", "FIRMWARE", "HARDWARE"} :
               Block(p, Optional(m), S("send", m), S("try", m))
        BY <1>7, <2>5, Parts
      <3>3. /\ Follows(p, S("receive", Id), S("send", "PRODUCT_CODE"))
            /\ Follows(p, S("try", "PRODUCT_CODE"), S("send", "FIRMWARE"))
            /\ Follows(p, S("try", "FIRMWARE"), S("send", "HARDWARE"))
            /\ Follows(p, S("try", "HARDWARE"), S("close", ""))
            /\ Follows(p, S("close", ""), S("open", ""))
        BY <2>5 DEF S, Follows
      <3>4. Block(p, Open \o Exchange(GC) \o Exchange(Id) \o Optional("PRODUCT_CODE"),
                  S("open", ""), S("try", "PRODUCT_CODE"))
        BY <2>3, <3>1, <3>3, Joined
      <3>5. Block(p, Open \o Exchange(GC) \o Exchange(Id) \o Optional("PRODUCT_CODE")
                       \o Optional("FIRMWARE"), S("open", ""), S("try", "FIRMWARE"))
        BY <3>1, <3>3, <3>4, Joined
      <3>6. Block(p, Open \o Exchange(GC) \o Exchange(Id) \o Optional("PRODUCT_CODE")
                       \o Optional("FIRMWARE") \o Optional("HARDWARE"),
                  S("open", ""), S("try", "HARDWARE"))
        BY <3>1, <3>3, <3>5, Joined
      <3>7. Block(p, ProbePort, S("open", ""), S("close", ""))
        BY <1>2, <3>3, <3>6, Joined DEF ProbePort
      <3>8. Block(p, OpenSession, S("open", ""), S("receive", GC))
        BY <2>2, <3>3, <3>7, Joined DEF OpenSession, Constructor
      <3>9. QED
        BY <1>1, <2>5, <3>7, <3>8 DEF Body, IsTool
    <2>6. QED
      BY <1>1, <1>4, <2>4, <2>5 DEF IsTool
  <1>5. QED
    BY <1>3, <1>4
----------------------------------------------------------------------------
\* The steps left of a program stay a chain, and the port is open during all
\* of them but the first.
TodoInv == Chain(client, todo) /\ Ending(client, todo) /\ PortMatches

LEMMA BlockFacts ==
  ASSUME NEW p, NEW s, NEW a, NEW b, Block(p, s, a, b)
  PROVE  /\ Chain(p, s) /\ s # <<>> /\ Head(s) = a
         /\ (IsTool(p) => b.do = "close") => Ending(p, s)
  <1>1. s \in Seq(StepsOf(p)) /\ s # <<>> /\ s[1] = a /\ s[Len(s)] = b /\ Chain(p, s)
    BY DEF Block, Chain
  <1>2. Head(s) = a
    BY <1>1
  <1>3. QED
    BY <1>1, <1>2 DEF Ending

LEMMA DoneTyped ==
  ASSUME TodoInv, todo # <<>>, Done, client' = client,
         portOpen' = (Head(todo).do # "close")
  PROVE  TodoInv'
  <1>1. /\ Chain(client, Tail(todo)) /\ Head(todo) \in StepsOf(client)
        /\ Tail(todo) # <<>> =>
              /\ Follows(client, Head(todo), Head(Tail(todo)))
              /\ Block(client, Tail(todo), Head(Tail(todo)), todo[Len(todo)])
    BY TailOfChain DEF TodoInv
  <1>2. Chain(client, todo')
    BY <1>1 DEF Done
  <1>3. Ending(client, todo')
    <2>1. CASE todo' = <<>>
      BY <2>1 DEF Ending
    <2>2. CASE todo' # <<>>
      <3>1. Block(client, todo', Head(todo'), todo[Len(todo)])
        BY <1>1, <2>2 DEF Done
      <3>2. IsTool(client) => todo[Len(todo)].do = "close"
        BY DEF TodoInv, Ending
      <3>3. QED
        BY <3>1, <3>2, BlockFacts
    <2>3. QED
      BY <2>1, <2>2
  <1>4. PortMatches'
    BY <1>1 DEF Done, PortMatches, Follows
  <1>5. QED
    BY <1>2, <1>3, <1>4 DEF TodoInv

LEMMA ClosingTyped ==
  ASSUME todo' = Close, portOpen' = TRUE
  PROVE  TodoInv'
  <1>1. Block(client', Close, S("close", ""), S("close", ""))
    BY ConfigIsKind, Parts
  <1>2. S("close", "").do = "close"
    BY DEF S
  <1>3. /\ Chain(client', todo') /\ todo' # <<>> /\ Head(todo') = S("close", "")
        /\ Ending(client', todo')
    BY <1>1, <1>2, BlockFacts
  <1>4. QED
    BY <1>2, <1>3 DEF TodoInv, PortMatches

LEMMA NothingTyped ==
  ASSUME todo' = <<>>
  PROVE  TodoInv'
  BY DEF TodoInv, Chain, Ending, PortMatches

LEMMA RaiseTyped ==
  ASSUME TodoInv, portOpen \in BOOLEAN, Raise \/ Abandon
  PROVE  TodoInv'
  BY ClosingTyped, NothingTyped DEF Raise, Abandon

LEMMA NothingAppended ==
  ASSUME NEW s
  PROVE  <<s>> \o <<>> = <<s>>
  <1>1. <<s>> \in Seq({s})
    OBVIOUS
  <1>2. QED
    BY <1>1, ConcatEmptySeq

\* The recovery takes the place of the step it recovers from.
LEMMA RecoveryTyped ==
  ASSUME TodoInv, todo # <<>>, UNCHANGED <<client, portOpen>>,
         NEW do, NEW mid,
         \/ do = "reset" /\ mid = "" /\ Head(todo).do = "fast"
         \/ do = "retry" /\ mid = "GOTOCONFIG" /\ Head(todo).do = "reset",
         todo' = Step(do, mid) \o Tail(todo)
  PROVE  TodoInv' /\ todo' # <<>> /\ Head(todo') = S(do, mid)
  <1> DEFINE r == Tail(todo)
             s == S(do, mid)
  <1>1. /\ Chain(client, r) /\ Head(todo) \in StepsOf(client)
        /\ r # <<>> => /\ Follows(client, Head(todo), Head(r))
                       /\ Block(client, r, Head(r), todo[Len(todo)])
        /\ r = <<>> => Head(todo) = todo[Len(todo)]
    BY TailOfChain DEF TodoInv
  <1>2. Block(client, Step(do, mid), s, s)
    <2>1. s \in StepsOf(client)
      BY ConfigIsKind, StepsAre DEF S
    <2>2. QED
      BY <2>1, Single
  <1>3. IsTool(client) => todo[Len(todo)].do = "close"
    BY DEF TodoInv, Ending
  <1>4. s.do = do /\ s.mid = mid /\ s.do # "close" /\ s.do # "open"
    BY DEF S
  <1>8. Step(do, mid) = <<s>>
    BY DEF Step, S
  <1> HIDE DEF r, s
  <1>5. CASE r = <<>>
    <2>1. ~IsTool(client)
      BY <1>1, <1>3, <1>5
    <2>2. todo' = Step(do, mid)
      <3>1. <<s>> \o <<>> = <<s>>
        BY NothingAppended
      <3>2. QED
        BY <3>1, <1>5, <1>8 DEF r
    <2>3. Block(client', todo', s, s)
      BY <1>2, <2>2
    <2>4. Chain(client', todo') /\ todo' # <<>> /\ Head(todo') = s /\ Ending(client', todo')
      BY <2>1, <2>3, BlockFacts
    <2>5. QED
      BY <1>4, <2>4 DEF TodoInv, PortMatches, s
  <1>6. CASE r # <<>>
    <2>1. Follows(client, s, Head(r))
      <3>1. Follows(client, Head(todo), Head(r)) /\ Head(todo) \in StepsOf(client)
        BY <1>1, <1>6
      <3>2. Subject(Head(todo)) = "GOTOCONFIG" /\ Subject(s) = "GOTOCONFIG"
        BY <3>1, <1>4 DEF Subject, StepsOf
      <3>3. Following(client, s) = Following(client, Head(todo))
        BY <3>2, <1>4 DEF Following
      <3>4. QED
        BY <3>1, <3>3, <1>4 DEF Follows
    <2>2. Block(client', todo', s, todo[Len(todo)])
      BY <1>1, <1>2, <1>6, <2>1, Joined DEF r
    <2>3. Chain(client', todo') /\ todo' # <<>> /\ Head(todo') = s /\ Ending(client', todo')
      BY <1>3, <2>2, BlockFacts
    <2>4. QED
      BY <1>4, <2>3 DEF TodoInv, PortMatches, s
  <1>7. QED
    BY <1>5, <1>6

\* A set of positions that is not empty has a first one.
LEMMA Least ==
  ASSUME NEW n \in Nat, NEW K \in SUBSET (1 .. n), K # {}
  PROVE  Min(K) \in K /\ \A y \in K : Min(K) <= y
  <1> DEFINE R == OpToRel(<, Nat)
  <1>1. K \subseteq Nat
    OBVIOUS
  <1>2. PICK x \in K : \A y \in K : ~ <<y, x>> \in R
    <2>1. IsWellFoundedOn(R, Nat)
      BY NatLessThanWellFounded
    <2>2. QED
      BY <1>1, <2>1, WFMin
  <1>3. ASSUME NEW y \in K PROVE x <= y
    <2>1. R = {q \in Nat \X Nat : q[1] < q[2]}
      BY DEF OpToRel
    <2>2. <<y, x>> \in Nat \X Nat /\ <<y, x>>[1] = y /\ <<y, x>>[2] = x
      BY <1>1
    <2>3. ~ (y < x)
      BY <1>2, <2>1, <2>2
    <2>4. QED
      BY <1>1, <2>3
  <1>4. QED
    BY <1>3 DEF Min

----------------------------------------------------------------------------
\* The line and what travels on it keep their types.
LEMMA Bounds ==
  /\ MaxClients \in Nat /\ MaxRetries \in Nat /\ MaxStrays \in Nat /\ MaxLost \in Nat
  /\ 0 \in 0 .. MaxClients /\ 0 \in 0 .. MaxRetries
  /\ 0 \in 0 .. MaxStrays /\ 0 \in 0 .. MaxLost
  <1>1. /\ MaxClients \in Nat /\ MaxRetries \in Nat
        /\ MaxStrays \in Nat /\ MaxLost \in Nat
    BY ExchangeAssumption
  <1>2. QED
    BY <1>1

LEMMA HeadIs ==
  ASSUME TypeInv, todo # <<>>
  PROVE  /\ Head(todo) \in StepsOf(client)
         /\ portOpen = (Head(todo).do # "open")
  BY TailOfChain DEF TypeInv, PortMatches, Typed

LEMMA ChainTyped ==
  ASSUME NEW p, NEW q, Chain(p, q)
  PROVE  q \in Seq(Steps)
  <1>1. q \in Seq(StepsOf(p)) /\ StepsOf(p) \subseteq Steps
    BY DEF Chain, StepsOf
  <1>2. QED
    BY <1>1

LEMMA ElementTyped ==
  ASSUME NEW X, NEW q \in Seq(X)
  PROVE  /\ \A i \in DOMAIN q : q[i] \in X
         /\ q # <<>> => Head(q) \in X /\ Tail(q) \in Seq(X)
  OBVIOUS

LEMMA AppendTyped ==
  ASSUME NEW X, NEW q \in Seq(X), NEW x \in X
  PROVE  Append(q, x) \in Seq(X)
  OBVIOUS

LEMMA CutTyped ==
  ASSUME line \in Seq(Mids), NEW n \in 1 .. Len(line)
  PROVE  SubSeq(line, n + 1, Len(line)) \in Seq(Mids)
  OBVIOUS

\* Sends of the mid of a step, and of the recovery.
LEMMA RequestTyped ==
  ASSUME TypeInv, NEW mid, mid \in KindsOf(client) \/ mid = "RESET"
  PROVE  Request(mid) \in Letters
  <1>1. mid \in Requests /\ (mid = "OUTPUT" => client.do = "configure")
    BY DEF KindsOf, Requests
  <1>2. client \in Programs \cup {[do |-> "none"]}
    BY DEF TypeInv, Typed
  <1>3. mid = "OUTPUT" => client.preset \in Presets
    BY <1>1, <1>2 DEF Programs
  <1>4. QED
    BY <1>1, <1>3 DEF Request, Letters

LEMMA TypeInit == Init => TypeInv
  <1> SUFFICES ASSUME Init PROVE TypeInv
    OBVIOUS
  <1>1. Typed
    <2>1. <<>> \in Seq(Letters) /\ <<>> \in Seq(Mids)
      OBVIOUS
    <2>2. QED
      BY <2>1, Bounds DEF Init, Typed
  <1>2. Chain(client, todo) /\ Ending(client, todo) /\ PortMatches
    BY DEF Init, Chain, Ending, PortMatches
  <1>3. QED
    BY <1>1, <1>2 DEF TypeInv

\* What a program does, and does not do, to the types.
LEMMA ProgramTyped ==
  ASSUME TypeInv, Program \/ PortFails \/ Record \/ CloseSession
  PROVE  TypeInv'
  <1>1. Typed /\ TodoInv /\ portOpen \in BOOLEAN
    BY DEF TypeInv, TodoInv, Typed
  <1>2. /\ Raise => Typed' \/ ~UNCHANGED <<deaf, wire, line, strays, sensorVars>>
        /\ Raise => TodoInv'
    BY <1>1, RaiseTyped DEF Raise, Typed, sensorVars
  <1>3. CASE CloseSession
    <2>1. TodoInv'
      BY <1>1, <1>3, ClosingTyped DEF CloseSession, clientVars
    <2>2. Typed'
      BY <1>1, <1>3 DEF CloseSession, clientVars, sensorVars, Typed
    <2>3. QED
      BY <2>1, <2>2 DEF TypeInv, TodoInv
  <1>4. CASE OpenPort
    <2>1. todo # <<>> /\ Head(todo).do = "open"
      BY <1>4 DEF OpenPort, Doing
    <2>2. Typed'
      BY <1>1, <1>4 DEF OpenPort, Raise, sensorVars, Typed
    <2>3. TodoInv'
      BY <1>1, <1>2, <1>4, <2>1, DoneTyped DEF OpenPort
    <2>4. QED
      BY <2>2, <2>3 DEF TypeInv, TodoInv
  <1>5. CASE Flush
    <2>1. todo # <<>> /\ Head(todo).do = "flush" /\ portOpen = TRUE
      BY <1>5, HeadIs DEF Flush, Doing
    <2>2. {wire[i].mid : i \in DOMAIN wire} \subseteq Requests
      <3>1. wire \in Seq(Letters)
        BY <1>1 DEF Typed
      <3>2. ASSUME NEW i \in DOMAIN wire PROVE wire[i].mid \in Requests
        <4>1. wire[i] \in Letters
          BY <3>1, ElementTyped
        <4>2. QED
          BY <4>1 DEF Letters
      <3>3. QED
        BY <3>2
    <2>3. Typed'
      <3>1. <<>> \in Seq(Mids) /\ line \in Seq(Mids) /\ stale \subseteq Requests
        BY <1>1 DEF Typed
      <3>2. /\ line' = <<>> \/ line' = line
            /\ stale' = {wire[i].mid : i \in DOMAIN wire} \/ stale' = stale
        BY <1>5 DEF Flush, Raise, Abandon
      <3>3. line' \in Seq(Mids) /\ stale' \subseteq Requests
        BY <2>2, <3>1, <3>2
      <3>4. QED
        BY <1>1, <1>5, <3>3 DEF Flush, Raise, Abandon, sensorVars, Typed
    <2>4. TodoInv'
      <3>1. CASE Raise \/ Abandon
        BY <1>1, <3>1, RaiseTyped
      <3>2. CASE Done /\ UNCHANGED <<client, portOpen>>
        BY <1>1, <2>1, <3>2, DoneTyped
      <3>3. QED
        BY <1>5, <3>1, <3>2 DEF Flush
    <2>5. QED
      BY <2>3, <2>4 DEF TypeInv, TodoInv
  <1>6. CASE Send
    <2>1. /\ todo # <<>> /\ Head(todo).do = "send" /\ portOpen = TRUE
          /\ Head(todo) \in StepsOf(client)
      BY <1>6, HeadIs DEF Send, Doing
    <2>2. Request(Head(todo).mid) \in Letters
      BY <2>1, RequestTyped DEF StepsOf
    <2>5. wire' \in Seq(Letters)
      BY <1>1, <1>6, <2>2, AppendTyped DEF Send, Typed
    <2>3. Typed'
      BY <1>1, <1>6, <2>5 DEF Send, clientVars, sensorVars, Typed
    <2>4. TodoInv'
      BY <1>1, <1>6, <2>1, DoneTyped DEF Send, clientVars
    <2>6. QED
      BY <2>3, <2>4 DEF TypeInv, TodoInv
  <1>7. CASE TimeOut
    <2>1. todo # <<>> /\ Head(todo).do \in {"receive", "try", "fast"} /\ portOpen = TRUE
      BY <1>7, HeadIs DEF TimeOut, Awaiting, Doing
    <2>2. /\ Head(todo).do = "receive" => Raise
          /\ Head(todo).do = "try" => Done /\ UNCHANGED clientVars
          /\ Head(todo).do = "fast" => /\ todo' = Step("reset", "") \o Tail(todo)
                                       /\ UNCHANGED clientVars
      BY <1>7, <2>1 DEF TimeOut, Doing
    <2>3. Typed'
      BY <1>1, <1>7, <2>1, <2>2 DEF TimeOut, Raise, clientVars, sensorVars, Typed
    <2>4. CASE Head(todo).do = "receive"
      BY <1>2, <2>2, <2>4, <2>3 DEF TypeInv, TodoInv
    <2>5. CASE Head(todo).do = "try"
      <3>1. TodoInv'
        BY <1>1, <2>1, <2>2, <2>5, DoneTyped DEF clientVars
      <3>2. QED
        BY <2>3, <3>1 DEF TypeInv, TodoInv
    <2>6. CASE Head(todo).do = "fast"
      <3>1. UNCHANGED <<client, portOpen>>
        BY <2>2, <2>6 DEF clientVars
      <3>2. TodoInv'
        BY <1>1, <2>1, <2>2, <2>6, <3>1, RecoveryTyped
      <3>3. QED
        BY <2>3, <3>2 DEF TypeInv, TodoInv
    <2>7. QED
      BY <2>1, <2>4, <2>5, <2>6
  <1>8. CASE Reset
    <2>1. todo # <<>> /\ Head(todo).do = "reset"
      BY <1>8 DEF Reset, Doing
    <2>2. Request("RESET") \in Letters
      BY RequestTyped
    <2>0. /\ wire' \in {wire, Append(wire, Request("RESET"))} /\ line' \in {<<>>, line}
          /\ wire \in Seq(Letters)
          /\ line \in Seq(Mids) /\ <<>> \in Seq(Mids)
      BY <1>1, <1>8 DEF Reset, Typed
    <2>5. wire' \in Seq(Letters)
      BY <2>0, <2>2, AppendTyped
    <2>6. line' \in Seq(Mids)
      BY <2>0
    <2>3. Typed'
      BY <1>1, <1>8, <2>5, <2>6, Bounds DEF Reset, sensorVars, Typed
    <2>4. TodoInv'
      BY <1>1, <1>8, <2>1, RecoveryTyped DEF Reset
    <2>7. QED
      BY <2>3, <2>4 DEF TypeInv, TodoInv
  <1>9. CASE Retry
    <2>1. Request("GOTOCONFIG") \in Letters
      BY ConfigIsKind, RequestTyped
    <2>2. Typed'
      BY <1>1, <1>9, <2>1, ExchangeAssumption DEF Retry, sensorVars, Typed
    <2>3. QED
      BY <1>1, <1>9, <2>2 DEF Retry, TypeInv, TodoInv, PortMatches
  <1>10. CASE PortFails \/ RecoveryFails
    <2>1. Typed'
      BY <1>1, <1>10 DEF PortFails, RecoveryFails, Raise, sensorVars, Typed
    <2>2. QED
      BY <1>2, <1>10, <2>1 DEF PortFails, RecoveryFails, TypeInv, TodoInv
  <1>11. CASE EndRecording
    <2>1. todo # <<>> /\ Head(todo).do = "read" /\ portOpen = TRUE
      BY <1>11, HeadIs DEF EndRecording, Doing
    <2>2. Typed'
      BY <1>1, <1>11 DEF EndRecording, Raise, clientVars, sensorVars, Typed
    <2>3. TodoInv'
      BY <1>1, <1>2, <1>11, <2>1, DoneTyped DEF EndRecording, clientVars
    <2>4. QED
      BY <2>2, <2>3 DEF TypeInv, TodoInv
  <1>12. CASE ClosePort
    <2>1. todo # <<>> /\ Head(todo).do = "close"
      BY <1>12 DEF ClosePort, Doing
    <2>2. Typed'
      BY <1>1, <1>12 DEF ClosePort, sensorVars, Typed
    <2>3. TodoInv'
      BY <1>1, <1>12, <2>1, DoneTyped DEF ClosePort
    <2>4. QED
      BY <2>2, <2>3 DEF TypeInv, TodoInv
  <1>13. CASE Record
    <2>1. Typed'
      BY <1>1, <1>13 DEF Record, clientVars, sensorVars, Typed
    <2>2. QED
      BY <1>1, <1>13, <2>1 DEF Record, clientVars, TypeInv, TodoInv, PortMatches
  <1>14. QED
    BY <1>3, <1>4, <1>5, <1>6, <1>7, <1>8, <1>9, <1>10, <1>11, <1>12, <1>13
       DEF Program

\* What arrives at the program.
LEMMA DecodeTyped ==
  ASSUME TypeInv, NEW n \in 1 .. Len(line), Receive(n) \/ Recovered(n)
  PROVE  TypeInv'
  <1>1. Typed /\ TodoInv /\ portOpen \in BOOLEAN
    BY DEF TypeInv, TodoInv, Typed
  <1>2. line' = SubSeq(line, n + 1, Len(line)) /\ line' \in Seq(Mids)
    BY <1>1, CutTyped DEF Receive, Recovered, Typed
  <1>3. todo # <<>> /\ Head(todo).do \in {"receive", "try", "fast", "retry"}
    BY DEF Receive, Recovered, Awaiting, Doing
  <1>4. Raise => TodoInv'
    BY <1>1, RaiseTyped
  <1>5. portOpen = TRUE
    BY <1>3, HeadIs
  <1>6. Done /\ UNCHANGED clientVars => TodoInv'
    BY <1>1, <1>3, <1>5, DoneTyped DEF clientVars
  <1>7. UNCHANGED <<todo, clientVars>> => TodoInv'
    BY <1>1 DEF clientVars, TodoInv, PortMatches
  <1>8. /\ deaf' \in BOOLEAN /\ UNCHANGED <<wire, strays, sensorVars>>
        /\ \/ Raise
           \/ Done /\ UNCHANGED clientVars
           \/ UNCHANGED <<todo, clientVars>>
    <2>1. CASE Receive(n)
      BY <1>1, <2>1 DEF Receive, Typed
    <2>2. CASE Recovered(n)
      BY <1>1, <2>2 DEF Recovered, Typed
    <2>3. QED
      BY <2>1, <2>2
  <1>9. Typed'
    BY <1>1, <1>2, <1>8 DEF Typed, Raise, clientVars, sensorVars
  <1>10. QED
    BY <1>4, <1>6, <1>7, <1>8, <1>9 DEF TypeInv, TodoInv

\* What the sensor does, and what else happens on the line.
LEMMA SensorTyped ==
  ASSUME TypeInv, \/ Answer \/ Boot \/ Lose
                  \/ \E mid \in Strays : Stray(mid)
  PROVE  TypeInv'
  <1>1. Typed /\ TodoInv
    BY DEF TypeInv, TodoInv
  <1>2. TodoInv' /\ UNCHANGED <<clientVars, deaf>>
    BY <1>1 DEF Answer, Boot, Lose, Stray, clientVars, TodoInv, PortMatches
  <1>3. CASE Answer
    <2> DEFINE mid == Head(wire).mid
    <2>1. /\ Head(wire) \in Letters
          /\ wire' \in Seq(Letters)
      BY <1>1, <1>3, ElementTyped DEF Answer, Typed
    <2>2. mid \in Mids /\ "ERROR" \in Mids /\ Head(wire).preset \subseteq Presets
      BY <2>1 DEF Mids, Letters
    <2>3. Append(line, mid) \in Seq(Mids) /\ Append(line, "ERROR") \in Seq(Mids)
      BY <1>1, <2>2, AppendTyped DEF Typed
    <2>4. line' \in {line, Append(line, mid), Append(line, "ERROR")}
      BY <1>3 DEF Answer, Emits
    <2>5. /\ mode' \in {"CONFIG", "MEASUREMENT", "BOOT"}
          /\ config' \in Presets
          /\ stuck' \in BOOLEAN
      <3>1. /\ mode' \in {mode, "CONFIG", "MEASUREMENT", "BOOT"}
            /\ stuck' \in {stuck, FALSE}
            /\ config' = config \/ config' \in Head(wire).preset
        BY <1>3 DEF Answer
      <3>2. QED
        BY <1>1, <2>2, <3>1 DEF Typed
    <2>6. line' \in Seq(Mids)
      BY <1>1, <2>3, <2>4 DEF Typed
    <2>7. QED
      BY <1>1, <1>2, <1>3, <2>1, <2>5, <2>6
         DEF Answer, clientVars, Typed, TypeInv, TodoInv
  <1>4. CASE Boot
    BY <1>1, <1>2, <1>4 DEF Boot, clientVars, Typed, TypeInv, TodoInv
  <1>5. CASE Lose
    <2>1. wire' \in Seq(Letters)
      BY <1>1, <1>5 DEF Lose, Typed
    <2>2. lost' \in 0 .. MaxLost
      BY <1>1, <1>5, Bounds DEF Lose, Typed
    <2>3. QED
      BY <1>1, <1>2, <1>5, <2>1, <2>2 DEF Lose, clientVars, Typed, TypeInv, TodoInv
  <1>6. ASSUME NEW mid \in Strays, Stray(mid) PROVE TypeInv'
    <2>1. line' \in Seq(Mids)
      BY <1>1, <1>6, AppendTyped DEF Stray, Emits, Typed, Mids
    <2>2. strays' \in 0 .. MaxStrays
      BY <1>1, <1>6, Bounds DEF Stray, Typed
    <2>3. QED
      BY <1>1, <1>2, <1>6, <2>1, <2>2
         DEF Stray, clientVars, sensorVars, Typed, TypeInv, TodoInv
  <1>7. QED
    BY <1>3, <1>4, <1>5, <1>6

LEMMA TypeNext == TypeInv /\ [Next]_vars => TypeInv'
  <1> SUFFICES ASSUME TypeInv, [Next]_vars PROVE TypeInv'
    OBVIOUS
  <1>1. Typed
    BY DEF TypeInv
  <1>2. ASSUME NEW program \in Programs, Run(program) PROVE TypeInv'
    <2>1. PICK last : /\ Block(program, Body(program), S("open", ""), last)
                      /\ IsTool(program) => last = S("close", "")
      BY BodyIs
    <2>2. /\ client' = program /\ todo' = Body(program) /\ portOpen' = FALSE
      BY <1>1, <1>2 DEF Run, Typed
    <2>3. S("open", "").do = "open" /\ S("close", "").do = "close"
      BY DEF S
    <2>4. /\ Chain(client', todo') /\ Ending(client', todo')
          /\ todo' # <<>> /\ Head(todo').do = "open"
      BY <2>1, <2>2, <2>3, BlockFacts
    <2>5. clients' \in 0 .. MaxClients
      BY <1>1, <1>2, Bounds DEF Run, Typed
    <2>6. Typed'
      BY <1>1, <1>2, <2>5 DEF Run, sensorVars, Typed
    <2>7. QED
      BY <2>2, <2>4, <2>6 DEF TypeInv, PortMatches
  <1>3. CASE CloseSession \/ Program \/ PortFails \/ Record
    BY <1>3, ProgramTyped
  <1>4. CASE Decode
    BY <1>4, DecodeTyped DEF Decode
  <1>5. CASE \/ Answer \/ Boot \/ Lose \/ \E mid \in Strays : Stray(mid)
    BY <1>5, SensorTyped
  <1>6. CASE UNCHANGED vars
    BY <1>6 DEF vars, clientVars, sensorVars, TypeInv, Typed, PortMatches
  <1>7. QED
    BY <1>2, <1>3, <1>4, <1>5, <1>6 DEF Next

----------------------------------------------------------------------------
\* What happens to the line, and what that does to what is under way.
Lines == wire \in Seq(Letters) /\ line \in Seq(Mids)

Survives(x) == (NotYet(x) => NotYet(x)') /\ (Trails(x) => Trails(x)')

LEMMA KindIsRequest ==
  ASSUME NEW x \in Kinds
  PROVE  x \in Requests /\ x \notin Strays \cup {"ERROR", "RESET"}
  <1>1. x \in Requests /\ x # "RESET"
    BY DEF Kinds, KindsOf, Requests
  <1>2. QED
    BY <1>1 DEF Requests, Strays

\* The program looks at messages, or drops them.
LEMMA CutKeeps ==
  ASSUME Lines, UNCHANGED wire, NEW x,
         line' = <<>> \/ \E n \in 1 .. Len(line) : line' = SubSeq(line, n + 1, Len(line))
  PROVE  Survives(x)
  <1>1. CASE line' = <<>>
    <2>1. DOMAIN line' = {}
      BY <1>1
    <2>2. QED
      BY <2>1 DEF Survives, NotYet, Trails
  <1>2. ASSUME NEW n \in 1 .. Len(line), line' = SubSeq(line, n + 1, Len(line))
        PROVE  Survives(x)
    <2>1. /\ n \in Nat /\ Len(line) \in Nat
          /\ Len(line') = Len(line) - n
          /\ DOMAIN line' = 1 .. Len(line') /\ DOMAIN line = 1 .. Len(line)
          /\ \A i \in DOMAIN line' : line'[i] = line[n + i]
      BY <1>2 DEF Lines
    <2>2. \A i \in DOMAIN line' : n + i \in DOMAIN line
      BY <2>1
    <2>3. \A i, j \in DOMAIN line' : i < j => n + i < n + j
      BY <2>1
    <2>4. NotYet(x) => NotYet(x)'
      BY <2>1, <2>2 DEF NotYet
    <2>5. Trails(x) => Trails(x)'
      BY <2>1, <2>2, <2>3 DEF Trails
    <2>6. QED
      BY <2>4, <2>5 DEF Survives
  <1>3. QED
    BY <1>1, <1>2

\* A request is sent.
LEMMA SentKeeps ==
  ASSUME Lines, UNCHANGED line, NEW r \in Letters, wire' = Append(wire, r), NEW x
  PROVE  /\ r.mid # x => (NotYet(x) => NotYet(x)')
         /\ r.mid = x => (NotYet(x) => Trails(x)')
         /\ r.mid \in Retried(x) => (Trails(x) => Trails(x)')
  <1>1. /\ Len(wire) \in Nat /\ Len(wire') = Len(wire) + 1
        /\ DOMAIN wire' = 1 .. Len(wire') /\ DOMAIN wire = 1 .. Len(wire)
        /\ \A i \in DOMAIN wire : wire'[i] = wire[i]
        /\ wire'[Len(wire) + 1] = r
    BY DEF Lines
  <1>2. \A i \in DOMAIN wire' : i \in DOMAIN wire \/ i = Len(wire')
    BY <1>1
  <1>3. \A i, j \in DOMAIN wire' : i < j => i \in DOMAIN wire /\ i # Len(wire')
    BY <1>1
  <1>4. wire'[Len(wire')] = r
    BY <1>1
  <1>5. r.mid # x => (NotYet(x) => NotYet(x)')
    BY <1>1, <1>2, <1>4 DEF NotYet
  <1>6. ASSUME r.mid = x, NotYet(x) PROVE Trails(x)'
    <2>1. \A i \in DOMAIN wire' : wire'[i].mid = x => i = Len(wire')
      BY <1>1, <1>2, <1>6 DEF NotYet
    <2>2. \A i, j \in DOMAIN wire' : ~(wire'[i].mid = x /\ i < j)
      BY <1>3, <2>1
    <2>3. QED
      BY <1>6, <2>2 DEF NotYet, Trails
  <1>7. ASSUME r.mid \in Retried(x), Trails(x) PROVE Trails(x)'
    <2>1. \A i, j \in DOMAIN wire' :
             wire'[i].mid = x /\ i < j => wire'[j].mid \in Retried(x)
      BY <1>1, <1>2, <1>3, <1>4, <1>7 DEF Trails
    <2>2. ASSUME NEW i \in DOMAIN line, line[i] = x, NEW j \in DOMAIN wire'
          PROVE  wire'[j].mid \in Retried(x)
      BY <1>1, <1>2, <1>4, <1>7, <2>2 DEF Trails
    <2>3. QED
      BY <1>7, <2>1, <2>2 DEF Trails, Retried
  <1>8. QED
    BY <1>5, <1>6, <1>7

\* A request is lost, or not answered.
LEMMA TakenKeeps ==
  ASSUME Lines, UNCHANGED line, wire # <<>>, wire' = Tail(wire), NEW x
  PROVE  Survives(x)
  <1>1. /\ Len(wire) \in Nat /\ Len(wire') = Len(wire) - 1
        /\ DOMAIN wire' = 1 .. Len(wire') /\ DOMAIN wire = 1 .. Len(wire)
        /\ \A i \in DOMAIN wire' : wire'[i] = wire[i + 1]
    BY DEF Lines
  <1>2. /\ \A i \in DOMAIN wire' : i + 1 \in DOMAIN wire
        /\ \A i, j \in DOMAIN wire' : i < j => i + 1 < j + 1
    BY <1>1
  <1>3. NotYet(x) => NotYet(x)'
    BY <1>1, <1>2 DEF NotYet
  <1>4. Trails(x) => Trails(x)'
    BY <1>1, <1>2 DEF Trails, Retried
  <1>5. QED
    BY <1>3, <1>4 DEF Survives

\* A message arrives that answers nothing.
LEMMA StrayKeeps ==
  ASSUME Lines, UNCHANGED wire, NEW m \in Strays, line' = Append(line, m),
         NEW x \in Kinds
  PROVE  Survives(x)
  <1>1. /\ Len(line) \in Nat /\ Len(line') = Len(line) + 1
        /\ DOMAIN line' = 1 .. Len(line') /\ DOMAIN line = 1 .. Len(line)
        /\ \A i \in DOMAIN line : line'[i] = line[i]
        /\ line'[Len(line) + 1] = m
    BY DEF Lines
  <1>2. \A i \in DOMAIN line' : i \in DOMAIN line \/ line'[i] = m
    BY <1>1
  <1>3. m # x
    BY KindIsRequest
  <1>4. NotYet(x) => NotYet(x)'
    BY <1>1, <1>2, <1>3 DEF NotYet
  <1>5. ASSUME Trails(x) PROVE Trails(x)'
    <2>1. ASSUME NEW i \in DOMAIN line', line'[i] = x
          PROVE  /\ \A j \in DOMAIN line' :
                       i < j => line'[j] \in Strays \cup Retried(x)
                 /\ \A j \in DOMAIN wire : wire[j].mid \in Retried(x)
      <3>1. i \in DOMAIN line /\ line[i] = x
        BY <1>1, <1>2, <1>3, <2>1
      <3>2. QED
        BY <1>1, <1>2, <1>5, <3>1 DEF Trails
    <2>2. QED
      BY <1>5, <2>1 DEF Trails, Retried
  <1>6. QED
    BY <1>4, <1>5 DEF Survives

\* The sensor answers, or refuses.
LEMMA AnswerKeeps ==
  ASSUME Lines, wire # <<>>, wire' = Tail(wire), NEW m, line' = Append(line, m),
         \/ m = Head(wire).mid
         \/ m = "ERROR" /\ Head(wire).mid \notin {"GOTOCONFIG", "RESET"},
         NEW x \in Kinds
  PROVE  Survives(x)
  <1>1. /\ Len(line) \in Nat /\ Len(line') = Len(line) + 1
        /\ DOMAIN line' = 1 .. Len(line') /\ DOMAIN line = 1 .. Len(line)
        /\ \A i \in DOMAIN line : line'[i] = line[i]
        /\ line'[Len(line) + 1] = m
    BY DEF Lines
  <1>2. /\ \A i \in DOMAIN line' : i \in DOMAIN line \/ i = Len(line')
        /\ \A i, j \in DOMAIN line' : i < j => i \in DOMAIN line
        /\ line'[Len(line')] = m
    BY <1>1
  <1>3. /\ Len(wire) \in Nat /\ Len(wire') = Len(wire) - 1
        /\ DOMAIN wire' = 1 .. Len(wire') /\ DOMAIN wire = 1 .. Len(wire)
        /\ \A i \in DOMAIN wire' : wire'[i] = wire[i + 1]
        /\ Head(wire) = wire[1] /\ 1 \in DOMAIN wire
    BY DEF Lines
  <1>4. /\ \A i \in DOMAIN wire' : i + 1 \in DOMAIN wire /\ 1 < i + 1
        /\ \A i, j \in DOMAIN wire' : i < j => i + 1 < j + 1
    BY <1>3
  <1>5. x \in Requests /\ x # "ERROR" /\ x # "RESET"
    BY KindIsRequest
  <1>6. NotYet(x) => NotYet(x)'
    BY <1>1, <1>2, <1>3, <1>4, <1>5 DEF NotYet
  <1>7. ASSUME Trails(x) PROVE Trails(x)'
    <2>1. \A i, j \in DOMAIN wire' :
             wire'[i].mid = x /\ i < j => wire'[j].mid \in Retried(x)
      BY <1>3, <1>4, <1>7 DEF Trails
    <2>2. ASSUME NEW i \in DOMAIN line', line'[i] = x
          PROVE  /\ \A j \in DOMAIN line' :
                       i < j => line'[j] \in Strays \cup Retried(x)
                 /\ \A j \in DOMAIN wire' : wire'[j].mid \in Retried(x)
      <3>1. CASE i \in DOMAIN line
        <4>1. /\ \A j \in DOMAIN line : i < j => line[j] \in Strays \cup Retried(x)
              /\ \A j \in DOMAIN wire : wire[j].mid \in Retried(x)
          BY <1>1, <1>7, <2>2, <3>1 DEF Trails
        <4>2. m \in Retried(x)
          BY <1>3, <4>1 DEF Retried
        <4>3. QED
          BY <1>1, <1>2, <1>3, <1>4, <4>1, <4>2
      <3>2. CASE i = Len(line')
        <4>1. Head(wire).mid = x
          BY <1>2, <1>5, <2>2, <3>2
        <4>2. \A j \in DOMAIN wire' : wire'[j].mid \in Retried(x)
          BY <1>3, <1>4, <1>7, <4>1 DEF Trails
        <4>3. \A j \in DOMAIN line' : ~(i < j)
          BY <1>1, <3>2
        <4>4. QED
          BY <4>2, <4>3
      <3>3. QED
        BY <1>2, <2>2, <3>1, <3>2
    <2>3. QED
      BY <2>1, <2>2 DEF Trails, Retried
  <1>8. QED
    BY <1>6, <1>7 DEF Survives

----------------------------------------------------------------------------
\* The program stays where it is.
SameStep == /\ UNCHANGED <<client, stale>>
            /\ \A x : (Sending(x) <=> Sending(x)') /\ (Waiting(x) <=> Waiting(x)')
            /\ \/ UNCHANGED todo
               \/ Waiting("GOTOCONFIG")

LEMMA SameExclusive ==
  ASSUME SameStep, Exclusive, \A x \in Kinds : Survives(x)
  PROVE  Exclusive'
  <1>1. Kinds' = Kinds /\ stale' = stale
    BY DEF SameStep, Kinds
  <1>2. ASSUME NEW x PROVE Before(x)' = Before(x) /\ After(x)' = After(x)
    BY <1>1 DEF Before, After
  <1>3. ASSUME NEW k PROVE Settled(k)' <=> Settled(k)
    BY <1>1 DEF Settled
  <1>4. ASSUME NEW x \in Kinds, Later(x) PROVE Later(x)'
    <2>1. \A y \in After(x) : y \in Kinds
      BY DEF After
    <2>2. QED
      BY <1>2, <1>3, <1>4, <2>1 DEF Later, Survives
  <1>5. ASSUME NEW x \in Kinds
        PROVE  /\ Sending(x)' => Later(x)' /\ (Settled(Before(x) \cup {x})' => NotYet(x)')
               /\ Waiting(x)' => Later(x)' /\ (Settled(Before(x) \cup {x})' => Trails(x)')
    <2>1. Settled(Before(x) \cup {x})' <=> Settled(Before(x) \cup {x})
      BY <1>1, <1>2 DEF Settled
    <2>2. /\ Sending(x)' => Sending(x) /\ Later(x)
          /\ Waiting(x)' => Waiting(x) /\ Later(x)
      BY DEF SameStep, Exclusive
    <2>3. QED
      BY <1>4, <2>1, <2>2 DEF Exclusive, Survives
  <1>6. QED
    BY <1>1, <1>5 DEF Exclusive

LEMMA SensorKeeps ==
  ASSUME TypeInv, \/ Answer \/ Boot \/ Lose
                  \/ \E mid \in Strays : Stray(mid),
         NEW x \in Kinds
  PROVE  Survives(x)
  <1>1. Lines
    BY DEF TypeInv, Typed, Lines
  <1>2. CASE Answer
    <2>1. /\ wire # <<>> /\ wire' = Tail(wire)
          /\ \/ line' = line
             \/ line' = Append(line, Head(wire).mid)
             \/ /\ line' = Append(line, "ERROR")
                /\ Head(wire).mid \notin {"GOTOCONFIG", "RESET"}
      BY <1>2 DEF Answer, Emits
    <2>2. CASE line' = line
      BY <1>1, <2>1, <2>2, TakenKeeps
    <2>3. CASE line' = Append(line, Head(wire).mid)
      BY <1>1, <2>1, <2>3, AnswerKeeps
    <2>4. CASE /\ line' = Append(line, "ERROR")
               /\ Head(wire).mid \notin {"GOTOCONFIG", "RESET"}
      BY <1>1, <2>1, <2>4, AnswerKeeps
    <2>5. QED
      BY <2>1, <2>2, <2>3, <2>4
  <1>3. CASE Boot
    BY <1>3 DEF Boot, Survives, NotYet, Trails, Retried
  <1>4. CASE Lose
    BY <1>1, <1>4, TakenKeeps DEF Lose
  <1>5. ASSUME NEW mid \in Strays, Stray(mid) PROVE Survives(x)
    BY <1>1, <1>5, StrayKeeps DEF Stray, Emits
  <1>6. QED
    BY <1>2, <1>3, <1>4, <1>5

\* The answers that a request of one's own gets.
LEMMA AnswersAre ==
  ASSUME TypeInv, \/ Answer \/ Boot \/ Lose
                  \/ \E mid \in Strays : Stray(mid),
         NEW x \in {"OUTPUT", "GOTOMEASUREMENT"}
  PROVE  /\ \A i \in DOMAIN line' : line'[i] = x =>
               \/ i \in DOMAIN line /\ line[i] = x
               \/ /\ wire # <<>> /\ Head(wire).mid = x
                  /\ x = "OUTPUT" => config' \in Head(wire).preset
                  /\ x = "GOTOMEASUREMENT" => mode' = "MEASUREMENT"
         /\ \A i \in DOMAIN wire' : \/ i + 1 \in DOMAIN wire /\ wire'[i] = wire[i + 1]
                                    \/ i \in DOMAIN wire /\ wire'[i] = wire[i]
         /\ config' # config => /\ wire # <<>> /\ Head(wire).mid = "OUTPUT"
                                /\ config' \in Head(wire).preset
         /\ mode' # mode => mode' = "MEASUREMENT" \/ wire # <<>>
         /\ wire # <<>> => Head(wire) = wire[1] /\ 1 \in DOMAIN wire
         /\ wire = <<>> => wire' = <<>>
  <1>1. Lines
    BY DEF TypeInv, Typed, Lines
  <1>2. wire' \in {wire, Tail(wire)} /\ (wire' # wire => wire # <<>>)
    BY DEF Answer, Boot, Lose, Stray
  <1>3. \A i \in DOMAIN wire' : \/ i + 1 \in DOMAIN wire /\ wire'[i] = wire[i + 1]
                                \/ i \in DOMAIN wire /\ wire'[i] = wire[i]
    <2>1. CASE wire' = wire
      BY <2>1
    <2>2. CASE wire # <<>> /\ wire' = Tail(wire)
      <3>1. /\ Len(wire) \in Nat /\ Len(wire') = Len(wire) - 1
            /\ DOMAIN wire' = 1 .. Len(wire') /\ DOMAIN wire = 1 .. Len(wire)
            /\ \A i \in DOMAIN wire' : wire'[i] = wire[i + 1]
        BY <1>1, <2>2 DEF Lines
      <3>2. \A i \in DOMAIN wire' : i + 1 \in DOMAIN wire
        BY <3>1
      <3>3. \A i \in DOMAIN wire' : i + 1 \in DOMAIN wire /\ wire'[i] = wire[i + 1]
        BY <3>1, <3>2
      <3>4. QED
        BY <3>3
    <2>3. QED
      BY <1>2, <2>1, <2>2
  <1>4. wire # <<>> => Head(wire) = wire[1] /\ 1 \in DOMAIN wire
    BY <1>1 DEF Lines
  <1>5. /\ config' # config => /\ wire # <<>> /\ Head(wire).mid = "OUTPUT"
                               /\ config' \in Head(wire).preset
        /\ mode' # mode => mode' = "MEASUREMENT" \/ wire # <<>>
    BY DEF Answer, Boot, Lose, Stray, sensorVars
  <1>6. PICK m : \/ line' = line
                 \/ /\ line' = Append(line, m)
                    /\ m = x => /\ wire # <<>> /\ Head(wire).mid = x
                                /\ x = "OUTPUT" => config' \in Head(wire).preset
                                /\ x = "GOTOMEASUREMENT" => mode' = "MEASUREMENT"
    <2>1. CASE Answer
      <3>1. PICK m : \/ line' = line
                     \/ line' = Append(line, m) /\ m \in {Head(wire).mid, "ERROR"}
        BY <2>1 DEF Answer, Emits
      <3>2. CASE line' = Append(line, Head(wire).mid) /\ Head(wire).mid = x
        <4>1. CASE x = "GOTOMEASUREMENT"
          BY <2>1, <3>2, <4>1 DEF Answer
        <4>2. CASE x = "OUTPUT"
          <5>1. CASE mode = "CONFIG"
            BY <2>1, <3>2, <4>2, <5>1 DEF Answer
          <5>2. CASE mode # "CONFIG"
            <6>1. line' = Append(line, "ERROR")
              BY <2>1, <3>2, <4>2, <5>2 DEF Answer, Emits
            <6>2. QED
              BY <6>1
          <5>3. QED
            BY <5>1, <5>2
        <4>3. QED
          BY <4>1, <4>2
      <3>3. CASE line' = Append(line, Head(wire).mid) /\ Head(wire).mid # x
        BY <3>3
      <3>4. QED
        BY <3>1, <3>2, <3>3
    <2>2. CASE Boot \/ Lose
      BY <2>2 DEF Boot, Lose
    <2>3. ASSUME NEW mid \in Strays, Stray(mid)
          PROVE  line' = Append(line, mid) /\ mid # x
      BY <2>3 DEF Stray, Emits, Strays
    <2>4. QED
      BY <2>1, <2>2, <2>3
  <1>7. ASSUME NEW i \in DOMAIN line', line'[i] = x, ~(i \in DOMAIN line /\ line[i] = x)
        PROVE  /\ wire # <<>> /\ Head(wire).mid = x
               /\ x = "OUTPUT" => config' \in Head(wire).preset
               /\ x = "GOTOMEASUREMENT" => mode' = "MEASUREMENT"
    <2>1. line' # line
      BY <1>7
    <2>2. line' = Append(line, m)
      BY <1>6, <2>1
    <2>3. /\ DOMAIN line' = 1 .. Len(line) + 1 /\ DOMAIN line = 1 .. Len(line)
          /\ \A k \in DOMAIN line : line'[k] = line[k]
          /\ line'[Len(line) + 1] = m /\ Len(line) \in Nat
      BY <1>1, <2>2 DEF Lines
    <2>4. line'[i] = m
      BY <1>7, <2>3
    <2>5. QED
      BY <1>6, <1>7, <2>1, <2>4
  <1>8. wire = <<>> => wire' = <<>>
    BY <1>2
  <1>9. QED
    BY <1>3, <1>4, <1>5, <1>7, <1>8

\* What the sensor does keeps the progress.
LEMMA SensorProgress ==
  ASSUME TypeInv, Progress, IsTool(client),
         \/ Answer \/ Boot \/ Lose \/ \E mid \in Strays : Stray(mid)
  PROVE  Progress'
  <1>1. /\ UNCHANGED <<client, todo, stale>> /\ SameStep
        /\ Kinds' = Kinds
    BY DEF Answer, Boot, Lose, Stray, clientVars, SameStep, Kinds, Sending, Waiting
  <1>2. \A x \in Kinds : Survives(x)
    BY SensorKeeps
  <1>3. Exclusive'
    BY <1>1, <1>2, SameExclusive DEF Progress
  <1>4. "GOTOMEASUREMENT" \in Kinds /\ (client.do = "configure" => "OUTPUT" \in Kinds)
    BY DEF Kinds, KindsOf, IsTool
  <1>5. ASSUME Waiting("OUTPUT"), Settled({"GOTOCONFIG", "DEVICE_ID", "OUTPUT"})
        PROVE  /\ \A i \in DOMAIN wire' :
                    wire'[i].mid = "OUTPUT" => wire'[i].preset = {client.preset}
               /\ \A i \in DOMAIN line' : line'[i] = "OUTPUT" => config' = client.preset
    <2>1. /\ \A i \in DOMAIN wire :
                wire[i].mid = "OUTPUT" => wire[i].preset = {client.preset}
          /\ \A i \in DOMAIN line : line[i] = "OUTPUT" => config = client.preset
      BY <1>5 DEF Progress, OutputTaken
    <2>2. config' # config => config' = client.preset
      BY <2>1, AnswersAre
    <2>3. \A i \in DOMAIN wire' : wire'[i].mid = "OUTPUT" => wire'[i].preset = {client.preset}
      BY <2>1, AnswersAre
    <2>4. ASSUME NEW i \in DOMAIN line', line'[i] = "OUTPUT"
          PROVE  config' = client.preset
      <3>1. \/ i \in DOMAIN line /\ line[i] = "OUTPUT"
            \/ /\ wire # <<>> /\ Head(wire).mid = "OUTPUT"
               /\ config' \in Head(wire).preset
        BY <2>4, AnswersAre
      <3>2. wire # <<>> => Head(wire) = wire[1] /\ 1 \in DOMAIN wire
        BY AnswersAre
      <3>3. QED
        BY <2>1, <2>2, <3>1, <3>2
    <2>5. QED
      BY <2>3, <2>4
  <1>6. OutputTaken'
    BY <1>1, <1>5 DEF OutputTaken, SameStep, Settled
  <1>7. OutputKept'
    <2>1. SUFFICES ASSUME client.do = "configure",
                          Sending("GOTOMEASUREMENT") \/ Waiting("GOTOMEASUREMENT"),
                          Settled({"GOTOCONFIG", "DEVICE_ID", "OUTPUT"})
                   PROVE  config' = client.preset /\ NotYet("OUTPUT")'
      BY <1>1 DEF OutputKept, SameStep, Settled
    <2>2. config = client.preset /\ NotYet("OUTPUT")
      BY <2>1 DEF Progress, OutputKept
    <2>3. config' = config
      BY <2>2, AnswersAre DEF NotYet
    <2>4. QED
      BY <1>2, <1>4, <2>1, <2>2, <2>3 DEF Survives
  <1>8. Measured'
    <2>1. SUFFICES ASSUME Waiting("GOTOMEASUREMENT"), Settled(Kinds),
                          NEW i \in DOMAIN line', line'[i] = "GOTOMEASUREMENT"
                   PROVE  mode' = "MEASUREMENT"
      BY <1>1 DEF Measured, SameStep, Settled
    <2>2. Settled(Before("GOTOMEASUREMENT") \cup {"GOTOMEASUREMENT"})
      BY <1>4, <2>1 DEF Before, Settled
    <2>3. Trails("GOTOMEASUREMENT")
      BY <1>4, <2>1, <2>2 DEF Progress, Exclusive
    <2>4. CASE i \in DOMAIN line /\ line[i] = "GOTOMEASUREMENT"
      <3>1. \A j \in DOMAIN wire : FALSE
        BY <2>3, <2>4 DEF Trails, Retried
      <3>2. mode = "MEASUREMENT"
        BY <2>1, <2>4 DEF Progress, Measured
      <3>3. wire = <<>>
        BY <3>1, AnswersAre
      <3>4. QED
        BY <3>2, <3>3, AnswersAre
    <2>5. QED
      BY <2>1, <2>4, AnswersAre
  <1>9. Finished'
    <2>1. (todo = <<>> <=> todo' = <<>>) /\ (\A w : Doing(w) <=> Doing(w)')
      BY <1>1 DEF Doing
    <2>2. ASSUME wire = <<>>, mode = "MEASUREMENT"
          PROVE  wire' = <<>> /\ mode' = "MEASUREMENT" /\ config' = config
      BY <2>2, AnswersAre
    <2>3. QED
      BY <1>1, <2>1, <2>2 DEF Progress, Finished, Applied, Settled
  <1>10. QED
    BY <1>3, <1>6, <1>7, <1>8, <1>9 DEF Progress

----------------------------------------------------------------------------
\* The step that comes next in the configurator and in the recorder.
LEMMA NextStep ==
  ASSUME TypeInv, IsTool(client), todo # <<>>
  PROVE  /\ Head(todo) \in StepsOf(client)
         /\ Head(todo).do # "close" => /\ Tail(todo) # <<>>
                                       /\ Head(Tail(todo)) = Following(client, Head(todo))
         /\ Head(todo).do = "close" => Tail(todo) = <<>>
  <1>1. /\ Head(todo) \in StepsOf(client)
        /\ Tail(todo) # <<>> => Follows(client, Head(todo), Head(Tail(todo)))
        /\ Tail(todo) = <<>> => Head(todo) = todo[Len(todo)]
    BY TailOfChain DEF TypeInv
  <1>2. todo[Len(todo)].do = "close"
    BY DEF TypeInv, Ending
  <1>3. Tail(todo) # <<>> => Head(Tail(todo)) = Following(client, Head(todo))
    BY <1>1 DEF Follows
  <1>4. ASSUME Head(todo).do = "close", Tail(todo) # <<>> PROVE FALSE
    <2>1. Head(Tail(todo)).do = "open"
      BY <1>1, <1>4 DEF Follows
    <2>2. Following(client, Head(todo)).do # "open"
      BY <1>4 DEF Following, S
    <2>3. QED
      BY <1>3, <1>4, <2>1, <2>2
  <1>5. QED
    BY <1>1, <1>2, <1>3, <1>4

LEMMA WhereItIs ==
  ASSUME todo # <<>>
  PROVE  /\ \A x : Sending(x) <=> Head(todo) = S("send", x)
         /\ \A x, y : Sending(x) => ~Waiting(y)
         /\ \A x, y : Sending(x) /\ Sending(y) => x = y
         /\ \A x, y : Waiting(x) /\ Waiting(y) => x = y
  BY DEF Sending, Waiting, S

\* It goes on to send a request.
LEMMA AtSend ==
  ASSUME UNCHANGED client, NEW x \in Kinds, todo' # <<>>, Head(todo') = S("send", x),
         Later(x)', Settled(Before(x) \cup {x})' => NotYet(x)',
         (/\ client.do = "configure" /\ x = "GOTOMEASUREMENT"
          /\ Settled({"GOTOCONFIG", "DEVICE_ID", "OUTPUT"})')
           => config' = client.preset /\ NotYet("OUTPUT")'
  PROVE  Progress'
  <1>1. /\ \A y : Sending(y)' <=> y = x
        /\ \A y : ~Waiting(y)'
        /\ todo' # <<>> /\ ~Doing("close")' /\ ~Doing("read")'
    BY DEF Sending, Waiting, Doing, S
  <1>2. Exclusive'
    BY <1>1 DEF Exclusive
  <1>3. OutputKept'
    BY <1>1 DEF OutputKept
  <1>4. QED
    BY <1>1, <1>2, <1>3 DEF Progress, OutputTaken, Measured, Finished

\* It is after the acknowledgement of GOTOCONFIG, whatever it sends for it.
LEMMA AtConfig ==
  ASSUME UNCHANGED <<client, stale>>, Exclusive,
         Waiting("GOTOCONFIG"), Waiting("GOTOCONFIG")',
         \A y \in Kinds \ {"GOTOCONFIG"} : NotYet(y) => NotYet(y)',
         Trails("GOTOCONFIG") => Trails("GOTOCONFIG")'
  PROVE  Progress'
  <1> DEFINE x == "GOTOCONFIG"
  <1>1. /\ \A y : Waiting(y)' <=> y = x
        /\ \A y : ~Sending(y)'
        /\ todo' # <<>> /\ ~Doing("close")' /\ ~Doing("read")'
    BY DEF Sending, Waiting, Doing, S
  <1>2. x \in Kinds /\ Kinds' = Kinds
    BY ConfigIsKind DEF Kinds
  <1>3. Later(x) /\ (Settled(Before(x) \cup {x}) => Trails(x))
    BY <1>2 DEF Exclusive
  <1>4. /\ Before(x)' = Before(x) /\ After(x)' = After(x) /\ stale' = stale
        /\ \A y \in After(x) : y \in Kinds \ {x}
    BY <1>2 DEF Before, After
  <1>5. Later(x)'
    BY <1>3, <1>4 DEF Later, Settled
  <1>6. Settled(Before(x) \cup {x})' => Trails(x)'
    BY <1>3, <1>4 DEF Settled
  <1>7. Exclusive'
    BY <1>1, <1>5, <1>6 DEF Exclusive
  <1>8. QED
    BY <1>1, <1>7 DEF Progress, OutputTaken, OutputKept, Measured, Finished

\* It looks at what has come, and takes nothing.
LEMMA LookKeeps ==
  ASSUME Lines, Progress, IsTool(client),
         UNCHANGED <<client, todo, stale, wire, mode, config>>,
         \/ line' = line \/ line' = <<>>
         \/ \E n \in 1 .. Len(line) : line' = SubSeq(line, n + 1, Len(line))
  PROVE  Progress'
  <1>1. SameStep /\ Kinds' = Kinds
    BY DEF SameStep, Kinds, Sending, Waiting
  <1>2. ASSUME NEW x PROVE Survives(x)
    <2>1. CASE line' = line
      BY <2>1 DEF Survives, NotYet, Trails, Retried
    <2>2. CASE line' # line
      BY <2>2, CutKeeps
    <2>3. QED
      BY <2>1, <2>2
  <1>3. Exclusive'
    BY <1>1, <1>2, SameExclusive DEF Progress
  <1>4. ASSUME NEW x, NEW i \in DOMAIN line', line'[i] = x
        PROVE  \E j \in DOMAIN line : line[j] = x
    <2>1. CASE line' = line
      BY <1>4, <2>1
    <2>2. CASE line' = <<>>
      BY <1>4, <2>2
    <2>3. ASSUME NEW n \in 1 .. Len(line), line' = SubSeq(line, n + 1, Len(line))
          PROVE  \E j \in DOMAIN line : line[j] = x
      <3>1. /\ line'[i] = line[n + i] /\ n + i \in DOMAIN line
        BY <1>4, <2>3 DEF Lines
      <3>2. QED
        BY <1>4, <3>1
    <2>4. QED
      BY <2>1, <2>2, <2>3
  <1>5. \A x : (Waiting(x) <=> Waiting(x)') /\ (Sending(x) <=> Sending(x)')
    BY <1>1 DEF SameStep
  <1>6. OutputTaken' /\ Measured'
    BY <1>1, <1>4, <1>5 DEF Progress, OutputTaken, Measured, Settled
  <1>7. OutputKept' /\ Finished'
    BY <1>1, <1>2, <1>5
       DEF Progress, OutputKept, Finished, Settled, Survives, Applied, Doing
  <1>8. QED
    BY <1>3, <1>6, <1>7 DEF Progress

\* It has sent a request, and waits for the answer.
LEMMA SendProgress ==
  ASSUME TypeInv, Progress, IsTool(client), Send
  PROVE  Progress'
  <1>1. todo # <<>> /\ Head(todo).do = "send"
    BY DEF Send, Doing
  <1>2. PICK x : x = Head(todo).mid
    OBVIOUS
  <1>3. /\ x \in Kinds /\ Head(todo) = S("send", x)
        /\ Tail(todo) # <<>> /\ Head(Tail(todo)) = Following(client, Head(todo))
    BY <1>1, <1>2, NextStep DEF StepsOf, Steps, S, Kinds
  <1>4. /\ todo' # <<>> /\ Head(todo').do \in {"fast", "receive"} /\ Head(todo').mid = x
        /\ UNCHANGED <<client, stale, line, mode, config>>
        /\ wire' = Append(wire, Request(x))
    <2>1. /\ Following(client, Head(todo)).do \in {"fast", "receive"}
          /\ Following(client, Head(todo)).mid = x
      BY <1>1, <1>2 DEF Following, S
    <2>2. todo' = Tail(todo)
      BY DEF Send, Done
    <2>3. /\ UNCHANGED <<client, stale, line, mode, config>>
          /\ wire' = Append(wire, Request(x))
      BY <1>2 DEF Send, clientVars, sensorVars
    <2>4. QED
      BY <1>3, <2>1, <2>2, <2>3
  <1>5. /\ Sending(x) /\ \A y : Waiting(y)' <=> y = x
        /\ \A y : ~Sending(y)'
        /\ ~Doing("close")' /\ ~Doing("read")'
    BY <1>1, <1>3, <1>4 DEF Sending, Waiting, Doing, Subject, S
  <1>6. Lines /\ Request(x) \in Letters /\ Request(x).mid = x
    BY <1>3, RequestTyped DEF TypeInv, Typed, Lines, Kinds, Request
  <1>7. Kinds' = Kinds /\ Before(x)' = Before(x) /\ After(x)' = After(x) /\ stale' = stale
    BY <1>4 DEF Kinds, Before, After
  <1>8. Later(x) /\ (Settled(Before(x) \cup {x}) => NotYet(x))
    BY <1>3, <1>5 DEF Progress, Exclusive
  <1>9. \A y : y # x => (NotYet(y) => NotYet(y)')
    BY <1>4, <1>6, SentKeeps
  <1>10. NotYet(x) => Trails(x)'
    BY <1>4, <1>6, SentKeeps
  <1>11. Exclusive'
    <2>1. \A y \in After(x) : y # x
      BY DEF After
    <2>2. Later(x)'
      BY <1>7, <1>8, <1>9, <2>1 DEF Later, Settled
    <2>3. Settled(Before(x) \cup {x})' => Trails(x)'
      BY <1>7, <1>8, <1>10 DEF Settled
    <2>4. QED
      BY <1>5, <2>2, <2>3 DEF Exclusive
  <1>12. OutputTaken'
    <2>1. SUFFICES ASSUME x = "OUTPUT", Settled({"GOTOCONFIG", "DEVICE_ID", "OUTPUT"})'
                   PROVE  /\ \A i \in DOMAIN wire' : wire'[i].mid = "OUTPUT"
                                => wire'[i].preset = {client'.preset}
                          /\ \A i \in DOMAIN line' : line'[i] # "OUTPUT"
      BY <1>5 DEF OutputTaken
    <2>2. Before("OUTPUT") \cup {"OUTPUT"} = {"GOTOCONFIG", "DEVICE_ID", "OUTPUT"}
      BY DEF Before
    <2>3. NotYet(x)
      BY <1>7, <1>8, <2>1, <2>2 DEF Settled
    <2>4. /\ Len(wire) \in Nat /\ DOMAIN wire' = 1 .. Len(wire) + 1
          /\ DOMAIN wire = 1 .. Len(wire)
          /\ \A i \in DOMAIN wire : wire'[i] = wire[i]
          /\ wire'[Len(wire) + 1] = Request(x)
      BY <1>4, <1>6 DEF Lines
    <2>5. \A i \in DOMAIN wire' : i \in DOMAIN wire \/ i = Len(wire) + 1
      BY <2>4
    <2>6. Request(x).preset = {client.preset}
      BY <2>1 DEF Request
    <2>7. QED
      BY <1>4, <2>1, <2>3, <2>4, <2>5, <2>6 DEF NotYet
  <1>13. OutputKept'
    <2>1. SUFFICES ASSUME client.do = "configure", x = "GOTOMEASUREMENT",
                          Settled({"GOTOCONFIG", "DEVICE_ID", "OUTPUT"})
                   PROVE  config' = client.preset /\ NotYet("OUTPUT")'
      BY <1>4, <1>5, <1>7 DEF OutputKept, Settled
    <2>2. config = client.preset /\ NotYet("OUTPUT")
      BY <1>5, <2>1 DEF Progress, OutputKept
    <2>3. QED
      BY <1>4, <1>9, <2>1, <2>2
  <1>14. Measured'
    <2>1. SUFFICES ASSUME x = "GOTOMEASUREMENT", Settled(Kinds)
                   PROVE  \A i \in DOMAIN line : line[i] # "GOTOMEASUREMENT"
      BY <1>4, <1>5, <1>7 DEF Measured, Settled
    <2>2. Settled(Before(x) \cup {x})
      BY <1>3, <2>1 DEF Before, Settled
    <2>3. QED
      BY <1>8, <2>1, <2>2 DEF NotYet
  <1>15. Finished'
    BY <1>4, <1>5 DEF Finished
  <1>16. QED
    BY <1>11, <1>12, <1>13, <1>14, <1>15 DEF Progress

\* An answer is taken: nothing behind it is an answer to a later request, unless
\* all answers so far, and that one, may be stale.
LEMMA TakenAnswer ==
  ASSUME Lines, Exclusive, NEW x \in Kinds, Waiting(x),
         UNCHANGED <<client, stale, wire>>,
         NEW n \in 1 .. Len(line), NEW s \in 1 .. n, line[s] = x,
         line' = SubSeq(line, n + 1, Len(line))
  PROVE  /\ Settled(Before(x) \cup {x}) =>
               /\ \A i \in DOMAIN line' : line'[i] \in Strays \cup Retried(x)
               /\ \A i \in DOMAIN wire' : wire'[i].mid \in Retried(x)
         /\ \A y \in After(x) : Settled(Before(x) \cup {x} \cup {y}) => NotYet(y)'
  <1>1. /\ Len(line) \in Nat /\ n \in Nat /\ s \in DOMAIN line
        /\ \A i \in DOMAIN line' : /\ line'[i] = line[n + i]
                                  /\ n + i \in DOMAIN line /\ s < n + i
    BY DEF Lines
  <1>2. Later(x) /\ (Settled(Before(x) \cup {x}) => Trails(x))
    BY DEF Exclusive
  <1>3. ASSUME Trails(x)
        PROVE  /\ \A i \in DOMAIN line' : line'[i] \in Strays \cup Retried(x)
               /\ \A i \in DOMAIN wire' : wire'[i].mid \in Retried(x)
    BY <1>1, <1>3 DEF Trails
  <1>4. ASSUME NEW y \in After(x), Settled(Before(x) \cup {x} \cup {y}) PROVE NotYet(y)'
    <2>1. y \in Kinds /\ y # x
      BY DEF After
    <2>2. CASE Settled(Before(x) \cup {y})
      <3>1. NotYet(y)
        BY <1>2, <2>2 DEF Later
      <3>2. QED
        BY <3>1, CutKeeps DEF Survives
    <2>3. CASE ~Settled(Before(x) \cup {y})
      <3>1. Settled(Before(x) \cup {x})
        BY <1>4, <2>3 DEF Settled
      <3>2. y \notin Strays \cup Retried(x)
        BY <2>1, KindIsRequest DEF Retried
      <3>3. QED
        BY <1>2, <1>3, <3>1, <3>2 DEF NotYet
    <2>4. QED
      BY <2>2, <2>3
  <1>5. QED
    BY <1>2, <1>3, <1>4

LEMMA AcceptProgress ==
  ASSUME TypeInv, Progress, IsTool(client),
         NEW x \in Kinds, Waiting(x), Head(todo).do # "reset", Done,
         UNCHANGED <<client, stale, wire, mode, config>>,
         NEW n \in 1 .. Len(line), NEW s \in 1 .. n, line[s] = x,
         line' = SubSeq(line, n + 1, Len(line))
  PROVE  Progress'
  <1>1. /\ todo # <<>> /\ Head(todo).do \in {"receive", "fast", "retry"}
        /\ Head(todo).mid = x /\ Subject(Head(todo)) = x
    BY DEF Waiting, Subject
  <1>2. todo' # <<>> /\ Head(todo') = Following(client, Head(todo))
    BY <1>1, NextStep DEF Done
  <1>3. Lines /\ s \in DOMAIN line
    BY DEF TypeInv, Typed, Lines
  <1>4. /\ Settled(Before(x) \cup {x}) =>
               /\ \A i \in DOMAIN line' : line'[i] \in Strays \cup Retried(x)
               /\ \A i \in DOMAIN wire' : wire'[i].mid \in Retried(x)
        /\ \A y \in After(x) : Settled(Before(x) \cup {x} \cup {y}) => NotYet(y)'
    BY <1>3, TakenAnswer DEF Progress
  <1>5. Kinds' = Kinds /\ stale' = stale /\ (\A k : Settled(k)' <=> Settled(k))
    BY DEF Kinds, Settled
  <1>6. ASSUME NEW z \in After(x), Before(z) = Before(x) \cup {x}, After(z) \subseteq After(x)
        PROVE  Later(z)' /\ (Settled(Before(z) \cup {z})' => NotYet(z)')
    <2>1. Before(z)' = Before(z) /\ After(z)' = After(z)
      BY <1>5 DEF Before, After
    <2>2. Later(z)'
      BY <1>4, <1>5, <1>6, <2>1 DEF Later, Settled
    <2>3. Settled(Before(z) \cup {z})' => NotYet(z)'
      BY <1>4, <1>5, <1>6, <2>1 DEF Settled
    <2>4. QED
      BY <2>2, <2>3
  <1>7. CASE x = "GOTOCONFIG"
    <2> DEFINE z == "DEVICE_ID"
    <2>1. Head(todo') = S("send", z)
      BY <1>1, <1>2, <1>7 DEF Following
    <2>2. /\ z \in After(x) /\ Before(z) = Before(x) \cup {x}
          /\ After(z) \subseteq After(x) /\ z \in Kinds
      BY <1>7 DEF Before, After, Kinds, KindsOf, IsTool
    <2>3. QED
      BY <1>2, <1>6, <2>1, <2>2, AtSend
  <1>8. CASE x = "DEVICE_ID"
    <2>1. PICK z : z = IF client.do = "configure" THEN "OUTPUT" ELSE "GOTOMEASUREMENT"
      OBVIOUS
    <2>2. Head(todo') = S("send", z)
      BY <1>1, <1>2, <1>8, <2>1 DEF Following
    <2>3. /\ z \in After(x) /\ Before(z) = Before(x) \cup {x}
          /\ After(z) \subseteq After(x) /\ z \in Kinds
      BY <1>8, <2>1 DEF Before, After, Kinds, KindsOf, IsTool
    <2>4. ~(client.do = "configure" /\ z = "GOTOMEASUREMENT")
      BY <2>1
    <2>5. QED
      BY <1>2, <1>6, <2>2, <2>3, <2>4, AtSend
  <1>9. CASE x = "OUTPUT"
    <2> DEFINE z == "GOTOMEASUREMENT"
    <2>1. Head(todo') = S("send", z)
      BY <1>1, <1>2, <1>9 DEF Following
    <2>2. /\ z \in After(x) /\ Before(z) = Before(x) \cup {x}
          /\ After(z) \subseteq After(x) /\ z \in Kinds
      BY <1>9 DEF Before, After, Kinds, KindsOf, IsTool
    <2>3. ASSUME Settled({"GOTOCONFIG", "DEVICE_ID", "OUTPUT"})
          PROVE  config' = client.preset /\ NotYet("OUTPUT")'
      <3>1. config = client.preset
        BY <1>3, <1>9, <2>3 DEF Progress, OutputTaken
      <3>2. Settled(Before(x) \cup {x})
        BY <1>9, <2>3 DEF Before, Settled
      <3>3. "OUTPUT" \notin Strays \cup Retried(x)
        BY <1>9 DEF Strays, Retried
      <3>4. QED
        BY <1>4, <3>1, <3>2, <3>3 DEF NotYet
    <2>4. QED
      BY <1>2, <1>5, <1>6, <2>1, <2>2, <2>3, AtSend
  <1>10. CASE x = "GOTOMEASUREMENT"
    <2>1. Head(todo') = S(IF client.do = "configure" THEN "close" ELSE "read", "")
      BY <1>1, <1>2, <1>10 DEF Following
    <2>2. /\ \A y : ~Waiting(y)' /\ ~Sending(y)'
          /\ client.do = "record" => ~Doing("close")'
          /\ client.do = "configure" => ~Doing("read")'
      <3>1. PICK h : h = Head(todo')
        OBVIOUS
      <3>2. /\ client.do = "configure" => h = S("close", "")
            /\ client.do # "configure" => h = S("read", "")
        BY <2>1, <3>1
      <3>3. /\ h.do \in {"close", "read"} /\ (client.do = "record" => h.do = "read")
            /\ client.do = "configure" => h.do = "close"
        <4>1. S("close", "").do = "close" /\ S("read", "").do = "read"
          BY DEF S
        <4>2. QED
          BY <3>2, <4>1
      <3>4. QED
        BY <1>2, <3>1, <3>3 DEF Waiting, Sending, Doing, S
    <2>3. ASSUME Settled(Kinds)
          PROVE  wire' = <<>> /\ mode' = "MEASUREMENT"
      <3>1. Settled(Before(x) \cup {x})
        BY <1>10, <2>3 DEF Before, Settled
      <3>2. \A i \in DOMAIN wire' : FALSE
        BY <1>4, <1>10, <3>1 DEF Retried
      <3>3. wire' = <<>>
        <4>1. wire' = wire /\ wire \in Seq(Letters) /\ DOMAIN wire = 1 .. Len(wire)
          BY <1>3 DEF Lines
        <4>2. wire # <<>> => 1 \in DOMAIN wire
          BY <4>1
        <4>3. QED
          BY <3>2, <4>1, <4>2
      <3>4. mode = "MEASUREMENT"
        BY <1>3, <1>10, <2>3 DEF Progress, Measured
      <3>5. QED
        BY <3>3, <3>4
    <2>4. ASSUME client.do = "configure",
                 Settled({"GOTOCONFIG", "DEVICE_ID", "OUTPUT"})
          PROVE  wire' = <<>> /\ mode' = "MEASUREMENT" /\ config' = client.preset
      <3>1. Settled(Kinds)
        BY <2>4 DEF Kinds, KindsOf, Settled
      <3>2. config = client.preset
        BY <1>10, <2>4 DEF Progress, OutputKept
      <3>3. QED
        BY <2>3, <3>1, <3>2
    <2>5. Finished'
      BY <1>2, <1>5, <2>2, <2>3, <2>4 DEF Finished, Applied
    <2>6. QED
      BY <2>2, <2>5 DEF Progress, Exclusive, OutputTaken, OutputKept, Measured
  <1>11. QED
    BY <1>7, <1>8, <1>9, <1>10 DEF Kinds, KindsOf, IsTool

\* Nothing was asked for yet: what the port drops it drops, and what is on its
\* way to the sensor is stale.
LEMMA FlushProgress ==
  ASSUME TypeInv, IsTool(client), Flush, outcome' = "ok"
  PROVE  Progress'
  <1> DEFINE x == "GOTOCONFIG"
  <1>1. /\ todo # <<>> /\ Head(todo).do = "flush" /\ todo' = Tail(todo)
        /\ UNCHANGED <<client, wire>> /\ line' = <<>>
        /\ stale' = {wire[i].mid : i \in DOMAIN wire}
    BY DEF Flush, Doing, Done, Raise, Abandon
  <1>2. todo' # <<>> /\ Head(todo') = S("send", x)
    BY <1>1, NextStep DEF Following
  <1>3. ASSUME NEW y, y \notin stale' PROVE NotYet(y)'
    BY <1>1, <1>3 DEF NotYet
  <1>4. Before(x)' = {} /\ x \in Kinds
    BY ConfigIsKind DEF Before, Kinds
  <1>5. Later(x)' /\ (Settled(Before(x) \cup {x})' => NotYet(x)')
    BY <1>3, <1>4 DEF Later, Settled
  <1>6. QED
    BY <1>1, <1>2, <1>4, <1>5, AtSend

\* A pass over what has come.
LEMMA DecodeProgress ==
  ASSUME TypeInv, Progress, IsTool(client), outcome' = "ok", outcome = "ok",
         NEW n \in 1 .. Len(line), Receive(n) \/ Recovered(n)
  PROVE  Progress'
  <1>1. /\ Lines /\ Len(line) \in Nat /\ n \in Nat /\ n <= Len(line)
        /\ todo # <<>> /\ Head(todo) \in StepsOf(client)
        /\ line' = SubSeq(line, n + 1, Len(line))
        /\ UNCHANGED <<wire, mode, config>> /\ ~Raise
    BY NextStep
       DEF TypeInv, Typed, Lines, Receive, Recovered, Awaiting, Doing, Raise, sensorVars
  <1>2. CASE UNCHANGED <<todo, clientVars>>
    BY <1>1, <1>2, LookKeeps DEF clientVars
  <1>3. ASSUME NEW x, NEW K \in SUBSET (1 .. n), K # {}, line[Min(K)] = x, x = Head(todo).mid,
               Head(todo).do \in {"receive", "fast", "retry"}, Done, UNCHANGED clientVars
        PROVE  Progress'
    <2>1. Min(K) \in 1 .. n
      BY <1>1, <1>3, Least
    <2>2. x \in Kinds /\ Waiting(x) /\ Head(todo).do # "reset"
      BY <1>1, <1>3 DEF StepsOf, Kinds, Waiting, Subject
    <2>3. QED
      BY <1>1, <1>3, <2>1, <2>2, AcceptProgress DEF clientVars
  <1>4. CASE Receive(n)
    <2> DEFINE mid  == Head(todo).mid
               seen == {i \in 1 .. n : line[i] \in {mid, "ERROR", "WARNING"}}
    <2>1. Head(todo).do \in {"receive", "fast"}
      BY <1>1, <1>4 DEF Receive, Awaiting, Doing, StepsOf
    <2>2. \/ UNCHANGED <<todo, clientVars>>
          \/ seen # {} /\ line[Min(seen)] = mid /\ Done /\ UNCHANGED clientVars
      BY <1>1, <1>4, <2>1 DEF Receive, Doing
    <2>3. seen \in SUBSET (1 .. n)
      OBVIOUS
    <2> HIDE DEF seen
    <2>4. QED
      BY <1>2, <1>3, <2>1, <2>2, <2>3
  <1>5. CASE Recovered(n)
    <2> DEFINE acks == {i \in 1 .. n : line[i] = "GOTOCONFIG"}
    <2>1. Head(todo).do = "retry" /\ Head(todo).mid = "GOTOCONFIG"
      BY <1>1, <1>5 DEF Recovered, Doing, StepsOf
    <2>2. UNCHANGED clientVars /\ (UNCHANGED todo \/ (acks # {} /\ Done))
      BY <1>5 DEF Recovered
    <2>3. acks \in SUBSET (1 .. n) /\ \A i \in acks : line[i] = "GOTOCONFIG"
      OBVIOUS
    <2> HIDE DEF acks
    <2>4. acks # {} => line[Min(acks)] = "GOTOCONFIG"
      BY <1>1, <2>3, Least
    <2>5. QED
      BY <1>2, <1>3, <2>1, <2>2, <2>3, <2>4
  <1>6. QED
    BY <1>4, <1>5

\* The recovery sends, and sends again.
LEMMA RecoveryProgress ==
  ASSUME TypeInv, Progress, IsTool(client), outcome' = "ok", outcome = "ok",
         TimeOut \/ Reset \/ Retry
  PROVE  Progress'
  <1> DEFINE x == "GOTOCONFIG"
  <1>1. Lines /\ todo # <<>> /\ Head(todo) \in StepsOf(client)
    BY NextStep DEF TypeInv, Typed, Lines, TimeOut, Reset, Retry, Awaiting, Doing
  <1>2. x \in Kinds /\ \A y \in Kinds : y # "RESET"
    BY ConfigIsKind, KindIsRequest DEF Kinds
  <1>3. CASE TimeOut
    <2>1. /\ Head(todo).do = "fast" /\ todo' = Step("reset", "") \o Tail(todo)
          /\ UNCHANGED clientVars
      BY <1>1, <1>3 DEF TimeOut, Awaiting, Doing, Raise, StepsOf
    <2>2. todo' # <<>> /\ Head(todo') = S("reset", "")
      BY <1>1, <2>1, RecoveryTyped DEF TypeInv, TodoInv, clientVars
    <2>3. Waiting(x) /\ Waiting(x)'
      <3>1. Waiting(x)
        BY <1>1, <2>1 DEF Waiting, Subject, StepsOf
      <3>2. S("reset", "").do = "reset" /\ Subject(S("reset", "")) = x
        BY DEF Subject, S
      <3>3. Waiting(x)'
        BY <2>2, <3>2 DEF Waiting
      <3>4. QED
        BY <3>1, <3>3
    <2>4. UNCHANGED <<wire, line>>
      BY <1>3 DEF TimeOut
    <2>5. /\ \A y \in Kinds : NotYet(y) => NotYet(y)'
          /\ Trails(x) => Trails(x)'
      BY <2>4 DEF NotYet, Trails, Retried
    <2>6. QED
      BY <2>1, <2>3, <2>5, AtConfig DEF Progress, clientVars
  <1>4. CASE Reset
    <2>1. /\ Head(todo).do = "reset" /\ UNCHANGED <<client, stale, portOpen>>
          /\ todo' = Step("retry", x) \o Tail(todo)
      BY <1>4 DEF Reset, Doing
    <2>2. todo' # <<>> /\ Head(todo') = S("retry", x)
      BY <1>1, <2>1, RecoveryTyped DEF TypeInv, TodoInv
    <2>3. Waiting(x) /\ Waiting(x)'
      BY <1>1, <2>1, <2>2 DEF Waiting, Subject, S
    <2>4. PICK r \in Letters : r = Request("RESET")
      BY RequestTyped
    <2>5. \/ UNCHANGED <<wire, line>>
          \/ line' = <<>> /\ UNCHANGED wire
          \/ line' = <<>> /\ wire' = Append(wire, r)
      BY <1>4, <2>4 DEF Reset
    <2>6. /\ \A y \in Kinds : NotYet(y) => NotYet(y)'
          /\ Trails(x) => Trails(x)'
      <3>1. CASE UNCHANGED <<wire, line>>
        BY <3>1 DEF NotYet, Trails, Retried
      <3>2. CASE line' = <<>> /\ wire' = Append(wire, r)
        <4>1. r.mid = "RESET" /\ r.mid \in Retried(x)
          BY <2>4 DEF Request, Retried
        <4>2. /\ Len(wire) \in Nat /\ DOMAIN wire' = 1 .. Len(wire) + 1
              /\ DOMAIN wire = 1 .. Len(wire) /\ DOMAIN line' = {}
              /\ \A i \in DOMAIN wire : wire'[i] = wire[i]
              /\ wire'[Len(wire) + 1] = r
          BY <1>1, <3>2 DEF Lines
        <4>3. /\ \A i \in DOMAIN wire' : i \in DOMAIN wire \/ wire'[i] = r
              /\ \A i, j \in DOMAIN wire' : i < j => i \in DOMAIN wire
          BY <4>2
        <4>4. \A y \in Kinds : NotYet(y) => NotYet(y)'
          BY <1>2, <4>1, <4>2, <4>3 DEF NotYet
        <4>5. Trails(x) => Trails(x)'
          BY <4>1, <4>2, <4>3 DEF Trails, Retried
        <4>6. QED
          BY <4>4, <4>5
      <3>3. CASE line' = <<>> /\ UNCHANGED wire
        BY <3>3 DEF NotYet, Trails, Retried
      <3>4. QED
        BY <2>5, <3>1, <3>2, <3>3
    <2>7. QED
      BY <2>1, <2>3, <2>6, AtConfig DEF Progress
  <1>5. CASE Retry
    <2>1. /\ Head(todo).do = "retry" /\ UNCHANGED <<client, stale, todo, line>>
          /\ wire' = Append(wire, Request(x))
      BY <1>5 DEF Retry, Doing
    <2>2. Waiting(x) /\ Waiting(x)'
      BY <1>1, <2>1 DEF Waiting, Subject, StepsOf
    <2>3. Request(x) \in Letters /\ Request(x).mid = x /\ x \in Retried(x)
      BY ConfigIsKind, RequestTyped DEF Request, Retried
    <2>4. /\ \A y \in Kinds \ {x} : NotYet(y) => NotYet(y)'
          /\ Trails(x) => Trails(x)'
      BY <1>1, <2>1, <2>3, SentKeeps
    <2>5. QED
      BY <2>1, <2>2, <2>4, AtConfig DEF Progress
  <1>6. QED
    BY <1>3, <1>4, <1>5

\* The steps in between ask for nothing.
LEMMA AtRest ==
  ASSUME todo' # <<>>,
         \/ Head(todo').do \in {"open", "flush"}
         \/ Head(todo').do = "close" /\ client'.do = "record"
  PROVE  Progress'
  <1>1. ASSUME NEW x PROVE ~Sending(x)' /\ ~Waiting(x)'
    BY DEF Sending, Waiting, S
  <1>2. /\ ~Doing("read")' /\ todo' # <<>>
        /\ Doing("close")' => client'.do # "configure"
    BY DEF Doing
  <1>3. Finished'
    BY <1>2 DEF Finished
  <1>4. QED
    BY <1>1, <1>3 DEF Progress, Exclusive, OutputTaken, OutputKept, Measured

LEMMA FieldsOfStep == /\ S("open", "").do = "open" /\ S("flush", "").do = "flush"
                      /\ S("close", "").do = "close"
  BY DEF S

LEMMA CloseIs == Close # <<>> /\ Head(Close).do = "close" /\ Tail(Close) = <<>>
  <1>1. Block(client, Close, S("close", ""), S("close", ""))
    BY ConfigIsKind, Parts
  <1>2. Tail(Close) = <<>>
    BY DEF Close, Step
  <1>3. QED
    BY <1>1, <1>2, BlockFacts, FieldsOfStep

LEMMA RunProgress ==
  ASSUME NEW program \in Programs, Run(program)
  PROVE  Progress'
  <1>1. PICK last : Block(program, Body(program), S("open", ""), last)
    BY BodyIs
  <1>2. todo' # <<>> /\ Head(todo') = S("open", "")
    BY <1>1, BlockFacts DEF Run
  <1>3. QED
    BY <1>2, FieldsOfStep, AtRest

LEMMA OtherProgress ==
  ASSUME TypeInv, IsTool(client), outcome' = "ok", outcome = "ok" => Progress,
         OpenPort \/ EndRecording \/ ClosePort
  PROVE  Progress'
  <1>2. CASE OpenPort
    <2>1. todo # <<>> /\ Head(todo).do = "open" /\ todo' = Tail(todo)
      BY <1>2 DEF OpenPort, Doing, Raise, Done
    <2>2. todo' # <<>> /\ Head(todo') = S("flush", "")
      BY <2>1, NextStep DEF Following
    <2>3. QED
      BY <2>2, FieldsOfStep, AtRest
  <1>3. CASE EndRecording
    <2>1. /\ todo # <<>> /\ Head(todo).do = "read" /\ todo' = Tail(todo)
          /\ client' = client
      BY <1>3 DEF EndRecording, Doing, Raise, Done, clientVars
    <2>2. client'.do = "record"
      BY <2>1, NextStep DEF StepsOf
    <2>3. todo' # <<>> /\ Head(todo') = S("close", "")
      BY <2>1, NextStep DEF Following
    <2>4. QED
      BY <2>2, <2>3, FieldsOfStep, AtRest
  <1>4. CASE ClosePort
    <2>1. /\ todo # <<>> /\ Doing("close") /\ todo' = Tail(todo)
          /\ UNCHANGED <<client, outcome, stale, wire, mode, config>>
      BY <1>4 DEF ClosePort, Doing, Done, sensorVars
    <2>2. todo' = <<>>
      BY <2>1, NextStep DEF Doing
    <2>3. Finished
      BY <2>1 DEF Progress
    <2>4. Finished'
      BY <2>1, <2>2, <2>3 DEF Finished, Doing, Applied, Settled
    <2>5. QED
      BY <2>2, <2>4 DEF Progress, Exclusive, OutputTaken, OutputKept, Measured,
                        Sending, Waiting
  <1>5. QED
    BY <1>2, <1>3, <1>4

----------------------------------------------------------------------------
LEMMA RaisedNext ==
  ASSUME RaisedInv, [Next]_vars
  PROVE  RaisedInv'
  <1>1. Raise \/ Abandon => RaisedInv'
    BY DEF Raise, Abandon, RaisedInv
  <1>2. CASE (\E program \in Programs : Run(program)) \/ CloseSession
    BY <1>2 DEF Run, CloseSession, clientVars, RaisedInv
  <1>3. CASE UNCHANGED <<todo, outcome>>
    BY <1>3 DEF RaisedInv
  <1>4. CASE outcome' = outcome /\ ClosePort
    <2>2. QED
      BY <1>4, CloseIs DEF ClosePort, Done, Doing, RaisedInv
  <1>5. CASE outcome' = outcome /\ todo # <<>> /\ Head(todo).do # "close"
    <2>1. QED
      BY <1>5, CloseIs DEF RaisedInv
  <1>6. CASE CloseSession \/ Program \/ PortFails \/ Record
    BY <1>1, <1>2, <1>3, <1>4, <1>5, <1>6
       DEF Program, OpenPort, Flush, Send, TimeOut, Reset, Retry, RecoveryFails,
           EndRecording, ClosePort, PortFails, Record, Awaiting, Doing, clientVars
  <1>7. CASE Decode
    BY <1>1, <1>3, <1>5, <1>7
       DEF Decode, Receive, Recovered, Awaiting, Doing, clientVars
  <1>8. CASE \/ Answer \/ Boot \/ Lose \/ (\E mid \in Strays : Stray(mid))
             \/ UNCHANGED vars
    BY <1>3, <1>8 DEF Answer, Boot, Lose, Stray, clientVars, vars
  <1>9. QED
    BY <1>2, <1>6, <1>7, <1>8 DEF Next

LEMMA ProgressNext ==
  ASSUME Inv, [Next]_vars
  PROVE  ProgressInv'
  <1> SUFFICES ASSUME IsTool(client)', outcome' = "ok" PROVE Progress'
    BY DEF ProgressInv
  <1>1. TypeInv /\ (IsTool(client) /\ outcome = "ok" => Progress)
    BY DEF Inv, ProgressInv
  <1>2. CASE \/ \E program \in Programs : Run(program)
             \/ OpenPort \/ EndRecording \/ ClosePort
    <2>1. CASE \E program \in Programs : Run(program)
      BY <2>1, RunProgress
    <2>2. CASE OpenPort \/ EndRecording \/ ClosePort
      <3>1. IsTool(client) /\ (outcome = "ok" => Progress)
        BY <1>1, <2>2 DEF OpenPort, EndRecording, ClosePort, Raise, clientVars, IsTool
      <3>2. QED
        BY <1>1, <2>2, <3>1, OtherProgress
    <2>3. QED
      BY <1>2, <2>1, <2>2
  <1>3. CASE CloseSession
    BY <1>3 DEF CloseSession, clientVars, IsTool
  <1>4. CASE PortFails \/ RecoveryFails
    BY <1>4 DEF PortFails, RecoveryFails, Raise
  <1>5. CASE Flush \/ Send \/ TimeOut \/ Reset \/ Retry \/ Decode \/ Record
             \/ UNCHANGED vars
    <2>1. client' = client /\ outcome' = outcome
      <3>1. ~Raise
        BY DEF Raise
      <3>2. CASE Flush \/ Send \/ Reset \/ Retry \/ Record \/ UNCHANGED vars
        BY <3>2 DEF Flush, Raise, Abandon, Send, Reset, Retry, Record, clientVars, vars
      <3>3. CASE TimeOut
        BY <3>1, <3>3 DEF TimeOut, Awaiting, clientVars
      <3>4. CASE Decode
        BY <3>1, <3>4 DEF Decode, Receive, Recovered, clientVars
      <3>5. QED
        BY <1>5, <3>2, <3>3, <3>4
    <2>2. IsTool(client) /\ outcome = "ok" /\ Progress /\ TypeInv
      BY <1>1, <2>1 DEF IsTool
    <2>3. CASE Flush
      BY <2>1, <2>2, <2>3, FlushProgress
    <2>4. CASE Send
      BY <2>1, <2>2, <2>4, SendProgress
    <2>5. CASE TimeOut \/ Reset \/ Retry
      BY <2>1, <2>2, <2>5, RecoveryProgress
    <2>6. CASE Decode
      BY <2>1, <2>2, <2>6, DecodeProgress DEF Decode
    <2>7. CASE Record \/ UNCHANGED vars
      <3>1. /\ UNCHANGED <<client, todo, stale, wire, mode, config>>
            /\ line' = line \/ line' = <<>>
        BY <2>7 DEF Record, clientVars, sensorVars, vars
      <3>2. Lines
        BY <2>2 DEF TypeInv, Typed, Lines
      <3>3. QED
        BY <2>1, <2>2, <3>1, <3>2, LookKeeps
    <2>8. QED
      BY <1>5, <2>3, <2>4, <2>5, <2>6, <2>7
  <1>6. CASE \/ Answer \/ Boot \/ Lose \/ \E mid \in Strays : Stray(mid)
    <2>1. IsTool(client) /\ outcome = "ok"
      BY <1>6 DEF Answer, Boot, Lose, Stray, clientVars, IsTool
    <2>2. QED
      BY <1>1, <1>6, <2>1, SensorProgress
  <1>7. QED
    BY <1>2, <1>3, <1>4, <1>5, <1>6 DEF Next, Program

THEOREM InvAlways == Spec => []Inv
  <1>1. Init => Inv
    BY TypeInit DEF Inv, ProgressInv, RaisedInv, Init, IsTool
  <1>2. Inv /\ [Next]_vars => Inv'
    BY TypeNext, RaisedNext, ProgressNext DEF Inv
  <1>3. QED
    BY <1>1, <1>2, PTL DEF Spec

----------------------------------------------------------------------------
\* Every variable has its type, and the port is open during every step of a
\* program but the first: no step reads or writes a port that is closed.
THEOREM TypeCorrect == Spec => []TypeOK
  <1>1. Inv => TypeOK
    <2>1. SUFFICES ASSUME Inv PROVE TypeOK
      OBVIOUS
    <2>2. Typed /\ Chain(client, todo) /\ PortMatches
      BY <2>1 DEF Inv, TypeInv
    <2>3. todo \in Seq(Steps)
      BY <2>2, ChainTyped
    <2>4. todo # <<>> => (portOpen <=> ~Doing("open"))
      BY <2>2 DEF PortMatches, Doing
    <2>5. QED
      BY <2>2, <2>3, <2>4 DEF Typed, TypeOK, Letters
  <1>2. QED
    BY <1>1, InvAlways, PTL

\* The configurator that has returned normally has configured the sensor, whatever
\* the programs before it left under way and however much was lost, unless all
\* three kinds of answers it awaits before it starts the measurement may have been
\* stale (operations.py, serial_io.py, dispatch_configure_device).
THEOREM ConfiguredMeansAppliedAlways == Spec => []ConfiguredMeansApplied
  <1>1. Inv => ConfiguredMeansApplied
    <2>1. SUFFICES ASSUME Inv, Configured,
                          Settled({"GOTOCONFIG", "DEVICE_ID", "OUTPUT"})
                   PROVE  Applied
      BY DEF ConfiguredMeansApplied, Settled
    <2>2. Finished
      BY <2>1 DEF Inv, ProgressInv, Progress, Configured, IsTool
    <2>3. QED
      BY <2>1, <2>2 DEF Finished, Configured
  <1>2. QED
    BY <1>1, InvAlways, PTL

\* What the recorder writes down is measured by a sensor that measures, whatever
\* happened before, unless all three answers it awaited may have been stale.
THEOREM RecordingIsMeasuredAlways == Spec => []RecordingIsMeasured
  <1>1. Inv => RecordingIsMeasured
    <2>1. SUFFICES ASSUME Inv, Doing("read"),
                          Settled({"GOTOCONFIG", "DEVICE_ID", "GOTOMEASUREMENT"})
                   PROVE  mode = "MEASUREMENT"
      BY DEF RecordingIsMeasured, Settled
    <2>2. todo # <<>> /\ Head(todo).do = "read"
      BY <2>1 DEF Doing
    <2>3. client.do = "record"
      BY <2>1, <2>2, TailOfChain DEF Inv, TypeInv, StepsOf
    <2>4. outcome = "ok"
      BY <2>1, <2>2, CloseIs DEF Inv, RaisedInv
    <2>5. Finished /\ Kinds = {"GOTOCONFIG", "DEVICE_ID", "GOTOMEASUREMENT"}
      BY <2>1, <2>3, <2>4 DEF Inv, ProgressInv, Progress, IsTool, Kinds, KindsOf
    <2>6. QED
      BY <2>1, <2>3, <2>5 DEF Finished
  <1>2. QED
    BY <1>1, InvAlways, PTL

=============================================================================
