----------------------- MODULE IntegrationVault_proofs -----------------------
(***************************************************************************)
(* Proofs about IntegrationVault, for every kind of provider, any rows,    *)
(* clients, flows and handlers.                                            *)
(***************************************************************************)
EXTENDS IntegrationVault, FiniteSetTheorems, TLAPS

USE DEF provider, db

-----------------------------------------------------------------------------
(* Type correctness.  A handler carries a row to write once it has one, and   *)
(* an id once it knows one.                                                   *)

HandlerShape(h) ==
  /\ h \in Op
  /\ h.pc \in {"select", "store", "register", "commit"} => h.new \in Row
  /\ h.pc \in {"exchange", "reload"} => h.old \in Row
  /\ h.pc \in {"load", "exchange", "reload"} => h.flow \in Flows /\ h.by = "callback"
  /\ h.pc # "select" => h.id \in Rows
  /\ h.pc = "select" => \/ h.by = "connect" /\ h.id = None /\ h.old = NoRow
                        \/ h.by = "callback" /\ h.id \in Rows /\ h.old \in Row

SweepShape ==
  sweep # Idle =>
    /\ \A r \in Rows : sweep.old[r] = NoRow <=> sweep.new[r] = NoRow
    /\ \A r \in sweep.todo : sweep.old[r] # NoRow
    /\ sweep.pc = "flush" => sweep.id \in Rows /\ sweep.old[sweep.id] # NoRow

TypeInv ==
  /\ TypeOK
  /\ \A o \in Ops : op[o] # Idle => HandlerShape(op[o])
  /\ SweepShape

\* What a transaction has flushed is there to be changed until it ends.
Held ==
  /\ \A o \in Ops : op[o] # Idle /\ op[o].pc \in {"register", "commit"} =>
       /\ lock[op[o].id] = o
       /\ op[o].old # NoRow => Exists(op[o].id)
  /\ \A r \in Rows : lock[r] = "sweep" => sweep # Idle /\ sweep.old[r] # NoRow /\ Exists(r)

Inserts(o) == op[o] # Idle /\ op[o].pc \in {"store", "register", "commit"} /\ op[o].old = NoRow

\* An id is given once, and a row that is being inserted is nobody else's.
Owned ==
  /\ \A r \in Rows : Exists(r) => r \in used
  /\ \A f \in Flows : flow[f] \in Rows => flow[f] \in used
  /\ \A o \in Ops : op[o] # Idle /\ op[o].id # None => op[o].id \in used
  /\ \A o \in Ops : Inserts(o) =>
       /\ ~Exists(op[o].id)
       /\ \A q \in Ops : q # o /\ op[q] # Idle => op[q].id # op[o].id
       /\ \A f \in Flows : flow[f] # op[o].id

LEMMA Distinct ==
  /\ NoRow \notin Row
  /\ \A h \in Op : h # Idle
  /\ \A s \in Sweep : s # Idle
  <1>1. NoRow \notin Row
    <2>1. \A x \in Row : DOMAIN x = {"cred", "conf", "status", "shared"}
      BY DEF Row
    <2>2. DOMAIN NoRow = {"gone"}
      BY DEF NoRow
    <2> QED
      BY <2>1, <2>2
  <1>2. Idle.pc = "idle"
    BY DEF Idle
  <1>3. \A h \in Op : h.pc # "idle"
    BY DEF Op
  <1>4. \A s \in Sweep : s.pc # "idle"
    BY DEF Sweep
  <1> QED
    BY <1>1, <1>2, <1>3, <1>4

LEMMA MergeType ==
  ASSUME NEW enc \in BOOLEAN, NEW cur \in Row, NEW old, NEW new \in Row
  PROVE  Merge(enc, cur, old, new) \in Row
  BY DEF Merge, Row

LEMMA SecretType ==
  ASSUME TypeInv, NEW r \in Rows, NEW conf \in Conf, NEW ok \in BOOLEAN, Call(r, conf, ok)
  PROVE  /\ made' \in 0..MaxSecrets
         /\ hooks' \subseteq [id : Rows, url : Secret, sign : Secret]
         /\ Registered(r, conf, ok) \subseteq Conf
  <1>0. made \in Nat /\ MaxSecrets \in Nat /\ conf.secret \in Secret
    BY ConstantsAssumption DEF TypeInv, TypeOK, Conf
  <1>1. NewSecrets(conf) \in {0, 1}
    BY DEF NewSecrets
  <1>2. made' \in 0..MaxSecrets
    BY <1>0, <1>1 DEF Call
  <1>3. EnsureSecret(conf) \in Secret
    BY <1>0, <1>2 DEF EnsureSecret, Secret, Call, NewSecrets
  <1>i. ASSUME ok, kind = "issued" PROVE Issued(conf) \in Secret
    <2>1. made' = made + NewSecrets(conf) + 1 /\ made' <= MaxSecrets
      BY <1>i, <1>0, <1>1 DEF Call
    <2> QED
      BY <2>1, <1>0, <1>1 DEF Issued, Secret
  <1>4. ASSUME ok PROVE Told(r, conf) \in [id : Rows, url : Secret, sign : Secret]
    <2>1. CASE kind = "issued"
      BY <1>3, <1>4, <1>i, <2>1 DEF Told
    <2>2. CASE kind = "own"
      BY <1>0, <1>3, <2>2 DEF Told, Key, Secret
    <2>3. CASE kind \notin {"issued", "own"}
      BY <1>3, <2>3 DEF Told
    <2> QED
      BY <2>1, <2>2, <2>3
  <1>5. hooks' \subseteq [id : Rows, url : Secret, sign : Secret]
    BY <1>4 DEF Call, TypeInv, TypeOK
  <1>6. \A s \in Secret : [conf EXCEPT !.secret = s, !.reg = ok] \in Conf
    BY DEF Conf
  <1> QED
    BY <1>2, <1>3, <1>5, <1>6, <1>i DEF Registered

LEMMA EnteredType ==
  EnteredSecret \subseteq Secret
  BY ConstantsAssumption DEF EnteredSecret, Secret, Key

LEMMA AuthorizedFields ==
  ASSUME NEW cred \in Cred, NEW cur \in Row
  PROVE  /\ Authorized(cred, cur) \in Row
         /\ Authorized(cred, cur).cred.gen = cred.gen
         /\ Authorized(cred, cur).cred.token = cred.gen
         /\ Authorized(cred, cur).cred.sound = cred.sound
         /\ Authorized(cred, cur).conf.gen = cur.conf.gen
         /\ Authorized(cred, cur).conf.secret = cur.conf.secret
         /\ Authorized(cred, cur).conf.reg = cur.conf.reg
         /\ Authorized(cred, cur).shared = cur.shared
  <1> DEFINE c == [cred EXCEPT !.token = cred.gen]
             d == [cur.conf EXCEPT !.auth = TRUE]
             new == Authorized(cred, cur)
  <1>1. cur.cred \in Cred /\ cur.conf \in Conf
    BY DEF Row
  <1>2. c \in Cred /\ c.gen = cred.gen /\ c.token = cred.gen /\ c.sound = cred.sound
    BY DEF Cred
  <1>3. /\ d \in Conf /\ d.gen = cur.conf.gen /\ d.auth = TRUE
        /\ d.secret = cur.conf.secret /\ d.reg = cur.conf.reg
    BY <1>1 DEF Conf
  <1>4. new.cred = c /\ new.conf = d /\ new.status = "active" /\ new.shared = cur.shared
    BY DEF Authorized, Row
  <1> HIDE DEF c, d
  <1>6. new \in Row
    BY <1>2, <1>3, <1>4 DEF Authorized, Row, c, d
  <1> QED
    BY <1>2, <1>3, <1>4, <1>6

THEOREM InitTypeInv == Init => TypeInv /\ Held
  <1> SUFFICES ASSUME Init PROVE TypeInv /\ Held
    OBVIOUS
  <1>1. TypeOK
    <2>1. /\ row \in [Rows -> Row \cup {NoRow}]
          /\ lock \in [Rows -> Ops \cup {None, "sweep"}]
          /\ flow \in [Flows -> Rows \cup {None, "gone"}]
          /\ code \in [Flows -> Gens \cup {None}]
          /\ op \in [Ops -> Op \cup {Idle}]
      BY DEF Init
    <2>2. kind \in Kinds /\ made \in 0..MaxSecrets /\ used \subseteq Rows /\ entered \subseteq Gens
      BY ConstantsAssumption DEF Init
    <2>3. /\ hooks \subseteq [id : Rows, url : Secret, sign : Secret]
          /\ sweep \in Sweep \cup {Idle} /\ latest \in Gens \cup {None} /\ overlapped \in BOOLEAN
      BY DEF Init
    <2> QED
      BY <2>1, <2>2, <2>3 DEF TypeOK
  <1>2. /\ \A o \in Ops : op[o] = Idle
        /\ \A r \in Rows : lock[r] # "sweep"
        /\ sweep = Idle
    BY ConstantsAssumption DEF Init
  <1> QED
    BY <1>1, <1>2 DEF TypeInv, SweepShape, Held

LEMMA HandlerTyped ==
  ASSUME TypeInv, NEW o \in Ops, NEW h, op' = [op EXCEPT ![o] = h],
         h = Idle \/ HandlerShape(h)
  PROVE  /\ op' \in [Ops -> Op \cup {Idle}]
         /\ \A q \in Ops : op'[q] # Idle => HandlerShape(op'[q])
  BY DEF TypeInv, TypeOK, HandlerShape

THEOREM StepTypeInv == TypeInv /\ Held /\ [Next]_vars => TypeInv'
  <1> SUFFICES ASSUME TypeInv, Held, [Next]_vars PROVE TypeInv'
    OBVIOUS
  <1>t. /\ kind \in Kinds
        /\ row \in [Rows -> Row \cup {NoRow}]
        /\ lock \in [Rows -> Ops \cup {None, "sweep"}]
        /\ used \subseteq Rows /\ entered \subseteq Gens /\ made \in 0..MaxSecrets
        /\ flow \in [Flows -> Rows \cup {None, "gone"}]
        /\ code \in [Flows -> Gens \cup {None}]
        /\ hooks \subseteq [id : Rows, url : Secret, sign : Secret]
        /\ op \in [Ops -> Op \cup {Idle}]
        /\ sweep \in Sweep \cup {Idle}
        /\ latest \in Gens \cup {None}
        /\ overlapped \in BOOLEAN
        /\ \A o \in Ops : op[o] # Idle => HandlerShape(op[o])
        /\ SweepShape
    BY DEF TypeInv, TypeOK
  <1>o. overlapped \/ Busy \in BOOLEAN
    BY DEF Busy
  <1>r. \A r \in Rows : Exists(r) => row[r] \in Row
    BY <1>t DEF Exists
  <1>e. /\ \A t : Release(t) => lock' \in [Rows -> Ops \cup {None, "sweep"}]
        /\ \A r \in Rows, o \in Ops \cup {"sweep"} :
             [lock EXCEPT ![r] = o] \in [Rows -> Ops \cup {None, "sweep"}]
    BY <1>t DEF Release
  <1>q. UNCHANGED sweep => SweepShape'
    BY <1>t DEF SweepShape
  <1>1. ASSUME NEW o \in Ops, OpNext(o) PROVE TypeInv'
    <2> USE HandlerTyped, <1>q
    <2>1. ASSUME NEW g \in Gens, NEW tokens \in Pasted, NEW secret \in EnteredSecret,
                 NEW shared \in Sharing, BeginConnect(o, g, tokens, secret, shared)
          PROVE  TypeInv'
      <3> DEFINE new == [cred |-> [gen |-> g, token |-> IF "refresh" \in tokens THEN g ELSE None,
                                   access |-> "access" \in tokens, sound |-> TRUE],
                         conf |-> [gen |-> g, auth |-> FALSE, secret |-> secret, reg |-> FALSE],
                         status |-> "active", shared |-> shared]
                 h == [pc |-> "select", by |-> "connect", flow |-> None,
                       id |-> None, old |-> NoRow, new |-> new]
      <3>1. new \in Row
        BY EnteredType, ConstantsAssumption DEF Row, Cred, Conf
      <3>2. op' = [op EXCEPT ![o] = h] /\ overlapped' \in BOOLEAN
        BY <2>1 DEF BeginConnect, Begin, Busy
      <3> HIDE DEF new
      <3>3. HandlerShape(h)
        BY <3>1 DEF HandlerShape, Op
      <3> HIDE DEF h
      <3> QED
        BY <2>1, <3>2, <3>3, <1>t DEF BeginConnect, TypeInv, TypeOK
    <2>2. ASSUME NEW r \in Rows, Handshake(o, r) PROVE TypeInv'
      <3> DEFINE new == [row[r] EXCEPT !.conf.secret = made + 1]
                 h == [pc |-> "store", by |-> "handshake", flow |-> None, id |-> r,
                       old |-> row[r], new |-> new]
      <3>1. made + 1 \in 1..MaxSecrets /\ row[r] \in Row
        BY <2>2, <1>t, <1>r, ConstantsAssumption DEF Handshake
      <3>2. new \in Row
        BY <3>1 DEF Row, Conf, Secret
      <3>3. op' = [op EXCEPT ![o] = h] /\ overlapped' \in BOOLEAN
        BY <2>2 DEF Handshake, Begin, Busy
      <3> HIDE DEF new
      <3>4. HandlerShape(h)
        BY <3>1, <3>2 DEF HandlerShape, Op
      <3>5. made' \in 0..MaxSecrets
        BY <2>2, <3>1 DEF Handshake
      <3> HIDE DEF h
      <3> QED
        BY <2>2, <3>3, <3>4, <3>5, <1>t DEF Handshake, TypeInv, TypeOK
    <2>3. ASSUME NEW f \in Flows, ReadFlow(o, f) PROVE TypeInv'
      <3> DEFINE h == [pc |-> "load", by |-> "callback", flow |-> f, id |-> flow[f],
                       old |-> NoRow, new |-> NoRow]
      <3>1. op' = [op EXCEPT ![o] = h] /\ overlapped' \in BOOLEAN /\ flow[f] \in Rows
        BY <2>3 DEF ReadFlow, Begin, Busy
      <3>2. HandlerShape(h)
        BY <3>1 DEF HandlerShape, Op
      <3> HIDE DEF h
      <3> QED
        BY <2>3, <3>1, <3>2, <1>t DEF ReadFlow, TypeInv, TypeOK
    <2>4. ASSUME op[o] # Idle, HandlerStep(o) PROVE TypeInv'
      <3>h. HandlerShape(op[o]) /\ op[o] \in Op
        BY <2>4, <1>t DEF HandlerShape
      <3>1. ASSUME NEW r \in Rows, Select(o, r) PROVE TypeInv'
        <4>1. \/ op' = [op EXCEPT ![o] = [op[o] EXCEPT !.pc = "store", !.id = r,
                                             !.old = IF op[o].id = r THEN @ ELSE row[r]]]
              \/ op' = [op EXCEPT ![o] = [op[o] EXCEPT !.pc = "store", !.id = r, !.old = NoRow]]
          BY <3>1 DEF Select, Advance
        <4>2. /\ HandlerShape([op[o] EXCEPT !.pc = "store", !.id = r,
                                             !.old = IF op[o].id = r THEN @ ELSE row[r]])
              /\ HandlerShape([op[o] EXCEPT !.pc = "store", !.id = r, !.old = NoRow])
          <5>1. op[o].pc = "select" /\ op[o].new \in Row
            BY <3>1, <3>h DEF Select, HandlerShape
          <5>2. ASSUME NEW x \in Row \cup {NoRow}
                PROVE  HandlerShape([op[o] EXCEPT !.pc = "store", !.id = r, !.old = x])
            BY <5>1, <5>2, <3>h DEF HandlerShape, Op
          <5>3. (IF op[o].id = r THEN op[o].old ELSE row[r]) \in Row \cup {NoRow}
            BY <3>h, <1>t DEF Op
          <5> QED
            BY <5>2, <5>3
        <4>3. used' \subseteq Rows /\ overlapped' = overlapped
          BY <3>1, <1>t DEF Select, Advance
        <4> QED
          BY <3>1, <4>1, <4>2, <4>3, <1>t DEF Select, TypeInv, TypeOK
      <3>2. CASE Store(o)
        <4> DEFINE h == [op[o] EXCEPT !.pc = IF op[o].by = "connect" THEN "register" ELSE "commit"]
        <4>1. op' = [op EXCEPT ![o] = h] /\ overlapped' = overlapped
          BY <3>2 DEF Store, Advance
        <4>2. HandlerShape(h)
          BY <3>2, <3>h DEF Store, HandlerShape, Op
        <4>3. lock' \in [Rows -> Ops \cup {None, "sweep"}]
          BY <3>2, <3>h, <1>e DEF Store, HandlerShape
        <4> HIDE DEF h
        <4> QED
          BY <3>2, <4>1, <4>2, <4>3, <1>t DEF Store, TypeInv, TypeOK
      <3>3. ASSUME NEW ok \in BOOLEAN, Register(o, ok) PROVE TypeInv'
        <4> DEFINE r == op[o].id  conf == op[o].new.conf
        <4>1. op[o].new \in Row /\ conf \in Conf /\ r \in Rows /\ op[o].pc = "register"
          BY <3>3, <3>h DEF Register, HandlerShape, Row
        <4>2. \A c \in Conf : HandlerShape([op[o] EXCEPT !.pc = "commit", !.new.conf = c])
          BY <4>1, <3>h DEF HandlerShape, Op, Row
        <4>3. HandlerShape([op[o] EXCEPT !.pc = "commit"])
          BY <4>1, <3>h DEF HandlerShape, Op
        <4>4. CASE /\ Call(r, conf, ok)
                   /\ \E c \in Registered(r, conf, ok) :
                        Advance(o, [op[o] EXCEPT !.pc = "commit", !.new.conf = c])
          <5>1. /\ made' \in 0..MaxSecrets
                /\ hooks' \subseteq [id : Rows, url : Secret, sign : Secret]
                /\ Registered(r, conf, ok) \subseteq Conf
            BY <4>1, <4>4, SecretType
          <5>2. PICK c \in Conf : Advance(o, [op[o] EXCEPT !.pc = "commit", !.new.conf = c])
            BY <4>4, <5>1
          <5> QED
            BY <3>3, <5>1, <5>2, <4>2, <1>t DEF Register, Advance, TypeInv, TypeOK
        <4>5. CASE UNCHANGED <<made, hooks>> /\ Advance(o, [op[o] EXCEPT !.pc = "commit"])
          BY <3>3, <4>3, <4>5, <1>t DEF Register, Advance, TypeInv, TypeOK
        <4> QED
          BY <3>3, <4>4, <4>5 DEF Register
      <3>4. CASE Commit(o)
        <4> DEFINE r == op[o].id  h == op[o]
                   x == IF h.old = NoRow THEN h.new
                        ELSE Merge(h.by # "handshake", row[r], h.old, h.new)
        <4>1. r \in Rows /\ h.new \in Row /\ (h.old # NoRow => row[r] \in Row)
          BY <3>4, <2>4, <3>h, <1>r DEF Commit, HandlerShape, Held
        <4>2. x \in Row
          BY <4>1, MergeType
        <4>3. row' = [row EXCEPT ![r] = x]
          BY <3>4, <4>1, <1>t DEF Commit
        <4> HIDE DEF x
        <4>4. row' \in [Rows -> Row \cup {NoRow}]
          BY <4>1, <4>2, <4>3, <1>t
        <4>5. latest' \in Gens \cup {None}
          BY <3>4, <4>1, <1>t DEF Commit, Row, Cred
        <4> QED
          BY <3>4, <4>4, <4>5, <1>t, <1>e DEF Commit, Advance, TypeInv, TypeOK
      <3>5. CASE Load(o)
        <4> DEFINE h == [op[o] EXCEPT !.pc = "exchange", !.old = row[op[o].id]]
        <4>1. op' = [op EXCEPT ![o] = h] /\ overlapped' = overlapped
          BY <3>5 DEF Load, Advance
        <4>2. HandlerShape(h)
          BY <3>5, <3>h, <1>r DEF Load, HandlerShape, Op
        <4>3. flow' \in [Flows -> Rows \cup {None, "gone"}]
          BY <3>5, <1>t DEF Load
        <4> HIDE DEF h
        <4> QED
          BY <3>5, <4>1, <4>2, <4>3, <1>t DEF Load, TypeInv, TypeOK
      <3>6. CASE Exchange(o)
        <4> DEFINE h == [op[o] EXCEPT !.pc = "reload"]
        <4>1. op' = [op EXCEPT ![o] = h] /\ overlapped' = overlapped
          BY <3>6 DEF Exchange, Advance
        <4>3. HandlerShape(h)
          BY <3>6, <3>h DEF Exchange, HandlerShape, Op
        <4>4. code' \in [Flows -> Gens \cup {None}]
          BY <3>6, <1>t DEF Exchange
        <4> HIDE DEF h
        <4> QED
          BY <3>6, <4>1, <4>3, <4>4, <1>t DEF Exchange, TypeInv, TypeOK
      <3>7. CASE Abort(o)
        BY <3>7, <1>t, <1>e DEF Abort, Advance, TypeInv, TypeOK
      <3>8. CASE Reload(o)
        <4> DEFINE cur == row[op[o].id]
                   new == Authorized(op[o].old.cred, cur)
                   h == [op[o] EXCEPT !.pc = "select", !.old = cur, !.new = new]
        <4>1. op' = [op EXCEPT ![o] = h] /\ overlapped' = overlapped
          BY <3>8 DEF Reload, Advance
        <4>2. cur \in Row /\ op[o].old.cred \in Cred
          BY <3>8, <3>h, <1>r DEF Reload, HandlerShape, Row
        <4>3. new \in Row
          BY <4>2, AuthorizedFields
        <4> HIDE DEF cur, new
        <4>4. HandlerShape(h)
          BY <3>8, <3>h, <4>2, <4>3 DEF Reload, HandlerShape, Op
        <4> HIDE DEF h
        <4> QED
          BY <3>8, <4>1, <4>4, <1>t DEF Reload, TypeInv, TypeOK
      <3> QED
        BY <2>4, <3>1, <3>2, <3>3, <3>4, <3>5, <3>6, <3>7, <3>8 DEF HandlerStep
    <2> QED
      BY <1>1, <2>1, <2>2, <2>3, <2>4 DEF OpNext
  <1>2. ASSUME NEW r \in Rows, RowNext(r) PROVE TypeInv'
    <2>1. /\ flow' \in [Flows -> Rows \cup {None, "gone"}]
          /\ code' \in [Flows -> Gens \cup {None}]
      <3>1. ASSUME NEW f \in Flows, BeginAuthorize(f, r)
            PROVE  /\ flow' \in [Flows -> Rows \cup {None, "gone"}]
                   /\ code' \in [Flows -> Gens \cup {None}]
        BY <3>1, <1>t, <1>r DEF BeginAuthorize, Row, Cred
      <3> QED
        BY <1>2, <1>t, <3>1 DEF RowNext, SetSharing, Disconnect, Damage
    <2>2. row' \in [Rows -> Row \cup {NoRow}]
      <3>1. ASSUME NEW shared \in BOOLEAN, SetSharing(r, shared)
            PROVE  row' \in [Rows -> Row \cup {NoRow}]
        <4>1. [row[r] EXCEPT !.shared = shared] \in Row
          BY <3>1, <1>r DEF SetSharing, Row
        <4> QED
          BY <3>1, <4>1, <1>t DEF SetSharing
      <3>2. CASE Damage(r)
        <4>1. [row[r] EXCEPT !.cred.sound = FALSE] \in Row
          BY <3>2, <1>r DEF Damage, Row, Cred
        <4> QED
          BY <3>2, <4>1, <1>t DEF Damage
      <3> QED
        BY <1>2, <1>t, <3>1, <3>2 DEF RowNext, BeginAuthorize, Disconnect
    <2>3. UNCHANGED <<kind, lock, used, entered, made, hooks, op, sweep>>
      BY <1>2 DEF RowNext, BeginAuthorize, SetSharing, Disconnect, Damage, Now
    <2>4. latest' \in Gens \cup {None} /\ overlapped' \in BOOLEAN
      BY <1>2, <1>t DEF RowNext, BeginAuthorize, SetSharing, Disconnect, Damage, Now, Busy
    <2> QED
      BY <2>1, <2>2, <2>3, <2>4, <1>t DEF TypeInv, TypeOK, SweepShape
  <1>3. ASSUME NEW f \in Flows, FlowExpires(f) PROVE TypeInv'
    BY <1>3, <1>t, <1>q DEF FlowExpires, TypeInv, TypeOK
  <1>4. CASE BeginSweep
    <2> DEFINE live == {r \in Rows : Exists(r) /\ row[r].status = "active"}
               s == [pc |-> "run", todo |-> live, id |-> None, old |-> Loaded(live),
                     new |-> Loaded(live)]
    <2>1. Loaded(live) \in [Rows -> Row \cup {NoRow}]
      BY <1>t DEF Loaded
    <2>2. \A r \in live : Loaded(live)[r] # NoRow
      BY DEF Loaded, Exists
    <2>3. sweep' = s /\ overlapped' \in BOOLEAN
      BY <1>4 DEF BeginSweep, Busy
    <2>4. live \subseteq Rows
      OBVIOUS
    <2> HIDE DEF live
    <2>5. s \in Sweep
      BY <2>1, <2>4 DEF Sweep
    <2>6. SweepShape'
      BY <2>2, <2>3 DEF SweepShape
    <2> QED
      BY <1>4, <2>3, <2>5, <2>6, <1>t DEF BeginSweep, TypeInv, TypeOK
  <1>5. CASE SweepNext
    <2>1. ASSUME NEW r \in Rows, NEW ok \in BOOLEAN, Renew(r, ok) PROVE TypeInv'
      <3> DEFINE old == sweep.old[r]
      <3>1. /\ sweep \in Sweep /\ sweep.old \in [Rows -> Row \cup {NoRow}]
            /\ sweep.new \in [Rows -> Row \cup {NoRow}]
            /\ old \in Row /\ old.conf \in Conf /\ sweep.new[r] \in Row
        <4>1. sweep # Idle /\ r \in sweep.todo
          BY <2>1 DEF Renew, Sweep, Idle
        <4>2. /\ sweep \in Sweep /\ sweep.old \in [Rows -> Row \cup {NoRow}]
              /\ sweep.new \in [Rows -> Row \cup {NoRow}]
          BY <4>1, <1>t DEF Sweep
        <4>3. old # NoRow /\ sweep.new[r] # NoRow
          BY <4>1, <1>t DEF SweepShape
        <4>4. old \in Row /\ sweep.new[r] \in Row
          BY <4>2, <4>3
        <4> QED
          BY <4>2, <4>4 DEF Row
      <3>2. ASSUME NEW c \in Conf,
                   sweep' = [sweep EXCEPT !.pc = "flush", !.id = r, !.todo = @ \ {r},
                                          !.new[r].conf = c]
            PROVE  sweep' \in Sweep /\ SweepShape'
        <4>1. [sweep.new[r] EXCEPT !.conf = c] \in Row
          BY <3>1 DEF Row
        <4>2. [sweep.new EXCEPT ![r].conf = c] \in [Rows -> Row \cup {NoRow}]
          BY <3>1, <4>1
        <4>3. sweep' \in Sweep
          BY <3>1, <3>2, <4>2 DEF Sweep
        <4>4. /\ sweep'.old = sweep.old /\ sweep'.todo \subseteq sweep.todo /\ sweep'.id = r
              /\ \A q \in Rows : q # r => sweep'.new[q] = sweep.new[q]
              /\ sweep'.new[r] = [sweep.new[r] EXCEPT !.conf = c]
          BY <3>1, <3>2 DEF Sweep
        <4> QED
          BY <3>1, <4>1, <4>3, <4>4, <2>1, <1>t, Distinct DEF SweepShape, Renew
      <3>3. ASSUME sweep' = [sweep EXCEPT !.todo = @ \ {r}] PROVE sweep' \in Sweep /\ SweepShape'
        <4>1. sweep' \in Sweep
          BY <3>1, <3>3 DEF Sweep
        <4>2. /\ sweep'.old = sweep.old /\ sweep'.todo \subseteq sweep.todo
              /\ sweep'.new = sweep.new /\ sweep'.pc = sweep.pc
          BY <3>1, <3>3 DEF Sweep
        <4> QED
          BY <4>1, <4>2, <2>1, <1>t DEF SweepShape, Renew
      <3>4. ASSUME sweep' = [sweep EXCEPT !.pc = "flush", !.id = r, !.todo = @ \ {r},
                                          !.new[r].status = "error"]
            PROVE  sweep' \in Sweep /\ SweepShape'
        <4>1. [sweep.new[r] EXCEPT !.status = "error"] \in Row
          BY <3>1 DEF Row
        <4>2. [sweep.new EXCEPT ![r].status = "error"] \in [Rows -> Row \cup {NoRow}]
          BY <3>1, <4>1
        <4>3. sweep' \in Sweep
          BY <3>1, <3>4, <4>2 DEF Sweep
        <4>4. /\ sweep'.old = sweep.old /\ sweep'.todo \subseteq sweep.todo /\ sweep'.id = r
              /\ \A q \in Rows : q # r => sweep'.new[q] = sweep.new[q]
              /\ sweep'.new[r] = [sweep.new[r] EXCEPT !.status = "error"]
          BY <3>1, <3>4 DEF Sweep
        <4> QED
          BY <3>1, <4>1, <4>3, <4>4, <2>1, <1>t, Distinct DEF SweepShape, Renew
      <3>5. CASE /\ UNCHANGED <<made, hooks>>
                 /\ \/ sweep' = [sweep EXCEPT !.todo = @ \ {r}]
                    \/ sweep' = [sweep EXCEPT !.pc = "flush", !.id = r, !.todo = @ \ {r},
                                              !.new[r].status = "error"]
        BY <2>1, <3>3, <3>4, <3>5, <1>t DEF Renew, TypeInv, TypeOK
      <3>6. CASE /\ Call(r, old.conf, ok)
                 /\ \E c \in Registered(r, old.conf, ok) :
                      sweep' = [sweep EXCEPT !.pc = "flush", !.id = r, !.todo = @ \ {r},
                                             !.new[r].conf = c]
        <4>1. /\ made' \in 0..MaxSecrets
              /\ hooks' \subseteq [id : Rows, url : Secret, sign : Secret]
              /\ Registered(r, old.conf, ok) \subseteq Conf
          BY <3>1, <3>6, SecretType
        <4> QED
          BY <2>1, <3>2, <3>6, <4>1, <1>t DEF Renew, TypeInv, TypeOK
      <3> QED
        BY <2>1, <3>5, <3>6 DEF Renew
    <2>2. CASE Flush
      <3>1. sweep \in Sweep /\ sweep.id \in Rows
        BY <2>2, <1>t DEF Flush, SweepShape
      <3>2. lock' \in [Rows -> Ops \cup {None, "sweep"}]
        BY <2>2, <3>1, <1>t, <1>e DEF Flush
      <3>3. \E p \in {"run", "broken"} : sweep' = [sweep EXCEPT !.pc = p, !.id = None]
        BY <2>2 DEF Flush
      <3>4. /\ sweep' \in Sweep /\ sweep'.old = sweep.old /\ sweep'.new = sweep.new
            /\ sweep'.todo = sweep.todo /\ sweep'.pc # "flush"
        BY <3>1, <3>3 DEF Sweep
      <3> QED
        BY <2>2, <3>2, <3>4, <1>t DEF Flush, SweepShape, TypeInv, TypeOK
    <2>3. CASE EndSweep
      <3>1. sweep \in Sweep /\ sweep.new \in [Rows -> Row \cup {NoRow}]
        BY <2>3, <1>t DEF EndSweep, Sweep
      <3>2. \A r \in Rows : lock[r] = "sweep" =>
              Merge(FALSE, row[r], sweep.old[r], sweep.new[r]) \in Row
        <4> TAKE r \in Rows
        <4> HAVE lock[r] = "sweep"
        <4>1. row[r] \in Row /\ sweep.new[r] \in Row
          BY <3>1, <1>t, <1>r, <2>3 DEF Held, SweepShape, EndSweep
        <4> QED
          BY <4>1, MergeType
      <3>3. row' \in [Rows -> Row \cup {NoRow}]
        BY <2>3, <3>2, <1>t DEF EndSweep
      <3> QED
        BY <2>3, <3>3, <1>t, <1>e DEF EndSweep, SweepShape, TypeInv, TypeOK
    <2>4. CASE LoseSweep
      BY <2>4, <1>t, <1>e DEF LoseSweep, SweepShape, TypeInv, TypeOK
    <2> QED
      BY <1>5, <2>1, <2>2, <2>3, <2>4 DEF SweepNext
  <1>6. CASE UNCHANGED vars
    BY <1>6, <1>t DEF vars, TypeInv, TypeOK, SweepShape
  <1> QED
    BY <1>1, <1>2, <1>3, <1>4, <1>5, <1>6 DEF Next

-----------------------------------------------------------------------------
(* Locks and ids *)

\* The handlers' steps, by what they do to the handler.
LEMMA HandlerSteps ==
  ASSUME TypeInv, NEW o \in Ops, op[o] # Idle, HandlerStep(o)
  PROVE  /\ op' = [op EXCEPT ![o] = op'[o]]
         /\ UNCHANGED <<kind, entered, sweep, overlapped>>
         /\ \/ \E r \in Rows : Select(o, r)
            \/ op'[o] = Idle /\ (Commit(o) \/ Abort(o))
            \/ /\ op'[o].id = op[o].id /\ op'[o].by = op[o].by
               /\ Store(o) \/ (\E ok \in BOOLEAN : Register(o, ok)) \/ Load(o) \/ Exchange(o)
                  \/ Reload(o)
  <1>t. op \in [Ops -> Op \cup {Idle}] /\ op[o] \in Op
    BY DEF TypeInv, TypeOK
  <1>i. \A p, x : /\ [op[o] EXCEPT !.pc = p, !.new.conf = x].id = op[o].id
                  /\ [op[o] EXCEPT !.pc = p, !.new.conf = x].by = op[o].by
                  /\ [op[o] EXCEPT !.pc = p, !.new = x].id = op[o].id
                  /\ [op[o] EXCEPT !.pc = p, !.new = x].by = op[o].by
                  /\ [op[o] EXCEPT !.pc = p, !.old = x].id = op[o].id
                  /\ [op[o] EXCEPT !.pc = p, !.old = x].by = op[o].by
    BY <1>t DEF Op
  <1>1. ASSUME NEW h, Advance(o, h)
        PROVE  op' = [op EXCEPT ![o] = op'[o]] /\ op'[o] = h /\ UNCHANGED overlapped
    BY <1>1, <1>t DEF Advance
  <1>2. ASSUME NEW r \in Rows, Select(o, r)
        PROVE  op' = [op EXCEPT ![o] = op'[o]] /\ UNCHANGED <<kind, entered, sweep, overlapped>>
    BY <1>2, <1>1 DEF Select
  <1>3. CASE Store(o)
    <2>1. /\ Advance(o, [op[o] EXCEPT !.pc = IF op[o].by = "connect" THEN "register" ELSE "commit"])
          /\ UNCHANGED <<kind, entered, sweep>>
      BY <1>3 DEF Store
    <2> QED
      BY <2>1, <1>1, <1>3, <1>t DEF Op
  <1>4. ASSUME NEW ok \in BOOLEAN, Register(o, ok)
        PROVE  /\ op' = [op EXCEPT ![o] = op'[o]] /\ UNCHANGED <<kind, entered, sweep, overlapped>>
               /\ op'[o].id = op[o].id /\ op'[o].by = op[o].by
    <2>1. UNCHANGED <<kind, entered, sweep>>
      BY <1>4 DEF Register
    <2>2. CASE \E c : Advance(o, [op[o] EXCEPT !.pc = "commit", !.new.conf = c])
      <3>1. PICK c : Advance(o, [op[o] EXCEPT !.pc = "commit", !.new.conf = c])
        BY <2>2
      <3>2. op'[o] = [op[o] EXCEPT !.pc = "commit", !.new.conf = c]
        BY <3>1, <1>1
      <3> QED
        BY <2>1, <3>1, <3>2, <1>1, <1>i
    <2>3. CASE Advance(o, [op[o] EXCEPT !.pc = "commit"])
      BY <2>1, <2>3, <1>1, <1>t DEF Op
    <2> QED
      BY <1>4, <2>2, <2>3 DEF Register
  <1>5. CASE Commit(o) \/ Abort(o)
    BY <1>5, <1>1 DEF Commit, Abort
  <1>6. CASE Load(o)
    <2>1. /\ Advance(o, [op[o] EXCEPT !.pc = "exchange", !.old = row[op[o].id]])
          /\ UNCHANGED <<kind, entered, sweep>>
      BY <1>6 DEF Load
    <2>2. op'[o] = [op[o] EXCEPT !.pc = "exchange", !.old = row[op[o].id]]
      BY <2>1, <1>1
    <2>3. op'[o].id = op[o].id /\ op'[o].by = op[o].by
      BY <2>2, <1>i
    <2>4. op' = [op EXCEPT ![o] = op'[o]] /\ UNCHANGED overlapped
      BY <2>1, <1>1
    <2> QED
      BY <2>1, <2>3, <2>4, <1>6
  <1>7. CASE Exchange(o)
    <2>1. /\ Advance(o, [op[o] EXCEPT !.pc = "reload"])
          /\ UNCHANGED <<kind, entered, sweep>>
      BY <1>7 DEF Exchange
    <2> QED
      BY <2>1, <1>1, <1>7, <1>t DEF Op
  <1>8. CASE Reload(o)
    <2>1. PICK x, y : /\ Advance(o, [op[o] EXCEPT !.pc = "select", !.old = x, !.new = y])
                      /\ UNCHANGED <<kind, entered, sweep>>
      BY <1>8 DEF Reload
    <2>2. op'[o] = [op[o] EXCEPT !.pc = "select", !.old = x, !.new = y]
      BY <2>1, <1>1
    <2>3. op'[o].id = op[o].id /\ op'[o].by = op[o].by
      BY <2>2, <1>t DEF Op
    <2>4. op' = [op EXCEPT ![o] = op'[o]] /\ UNCHANGED overlapped
      BY <2>1, <1>1
    <2> QED
      BY <2>1, <2>3, <2>4, <1>8
  <1> QED
    BY <1>2, <1>3, <1>4, <1>5, <1>6, <1>7, <1>8 DEF HandlerStep

\* A locked row stays until the lock is released, and a row appears only when
\* its handler commits.
LEMMA RowsChange ==
  ASSUME TypeInv, Held, TypeInv', Next, NEW r \in Rows
  PROVE  /\ Exists(r) /\ lock[r] # None => Exists(r)'
         /\ Exists(r)' /\ ~Exists(r) =>
              \E o \in Ops : op[o] # Idle /\ Commit(o) /\ op[o].id = r
  <1>t. /\ row \in [Rows -> Row \cup {NoRow}] /\ row' \in [Rows -> Row \cup {NoRow}]
        /\ sweep \in Sweep \cup {Idle}
    BY DEF TypeInv, TypeOK
  <1>1. CASE UNCHANGED row
    BY <1>1 DEF Exists
  <1>2. ASSUME NEW o \in Ops, op[o] # Idle, Commit(o) PROVE
             /\ Exists(r) => Exists(r)'
             /\ Exists(r)' /\ ~Exists(r) => op[o].id = r
    <2>1. op[o].id \in Rows /\ op[o].new \in Row
      BY <1>2 DEF Commit, TypeInv, HandlerShape
    <2>2. \A q \in Rows : q # op[o].id => row'[q] = row[q]
      BY <1>2, <2>1, <1>t DEF Commit
    <2>3. row'[op[o].id] # NoRow
      <3>1. CASE op[o].old = NoRow
        BY <1>2, <2>1, <3>1, <1>t, Distinct DEF Commit
      <3>2. CASE op[o].old # NoRow
        <4>1. row[op[o].id] \in Row
          BY <1>2, <3>2, <2>1, <1>t DEF Held, Commit, Exists
        <4>2. row'[op[o].id] = Merge(op[o].by # "handshake", row[op[o].id], op[o].old, op[o].new)
          BY <1>2, <2>1, <3>2, <1>t DEF Commit
        <4> QED
          BY <2>1, <4>1, <4>2, MergeType, Distinct
      <3> QED
        BY <3>1, <3>2
    <2> QED
      BY <2>1, <2>2, <2>3 DEF Exists
  <1>3. ASSUME NEW q \in Rows, RowNext(q)
        PROVE  /\ Exists(r) /\ lock[r] # None => Exists(r)'
               /\ Exists(r)' => Exists(r)
    <2>1. CASE \E shared \in BOOLEAN : SetSharing(q, shared)
      <3>1. PICK shared \in BOOLEAN : SetSharing(q, shared)
        BY <2>1
      <3>2. row[q] \in Row /\ row'[q] = [row[q] EXCEPT !.shared = shared]
        BY <3>1, <1>t DEF SetSharing, Exists
      <3>3. row'[q] \in Row
        BY <3>2 DEF Row
      <3> QED
        BY <3>1, <3>2, <3>3, <1>t, Distinct DEF SetSharing, Exists
    <2>2. CASE Damage(q)
      <3>1. row[q] \in Row /\ row'[q] = [row[q] EXCEPT !.cred.sound = FALSE]
        BY <2>2, <1>t DEF Damage, Exists
      <3>2. row'[q] \in Row
        BY <3>1 DEF Row, Cred
      <3> QED
        BY <2>2, <3>1, <3>2, <1>t, Distinct DEF Damage, Exists
    <2>3. CASE Disconnect(q)
      BY <2>3, <1>t DEF Disconnect, Exists, Free
    <2> QED
      BY <1>3, <1>1, <2>1, <2>2, <2>3 DEF RowNext, BeginAuthorize, Exists
  <1>4. CASE EndSweep
    <2>1. ASSUME lock[r] = "sweep" PROVE Exists(r) /\ Exists(r)'
      <3>1. Exists(r) /\ sweep # Idle /\ sweep.old[r] # NoRow
        BY <2>1 DEF Held
      <3>2. sweep.new[r] \in Row /\ row[r] \in Row
        BY <3>1, <1>t DEF TypeInv, SweepShape, Sweep, Exists
      <3>3. row'[r] = Merge(FALSE, row[r], sweep.old[r], sweep.new[r])
        BY <1>4, <2>1 DEF EndSweep
      <3> QED
        BY <3>1, <3>2, <3>3, MergeType, Distinct DEF Exists
    <2>2. lock[r] # "sweep" => row'[r] = row[r]
      BY <1>4 DEF EndSweep
    <2> QED
      BY <2>1, <2>2 DEF Exists
  <1>5. CASE BeginSweep \/ \E f \in Flows : FlowExpires(f)
    BY <1>5, <1>1 DEF BeginSweep, FlowExpires
  <1>6. CASE SweepNext /\ ~EndSweep
    BY <1>6, <1>1 DEF SweepNext, Renew, Flush, LoseSweep
  <1>7. ASSUME NEW o \in Ops, OpNext(o), ~(op[o] # Idle /\ Commit(o)) PROVE UNCHANGED row
    BY <1>7 DEF OpNext, HandlerStep, BeginConnect, Handshake, ReadFlow, Select, Store, Register,
       Load, Exchange, Reload, Abort
  <1> QED
    BY <1>1, <1>2, <1>3, <1>4, <1>5, <1>6, <1>7 DEF Next
\* The id of a handler: none yet, that of a row or of a flow, or one just given.
LEMMA IdsChange ==
  ASSUME TypeInv, TypeInv', Next, NEW o \in Ops, op'[o] # Idle
  PROVE  \/ op[o] # Idle /\ op'[o].id = op[o].id /\ (Inserts(o)' => Inserts(o))
         \/ op'[o].id = None
         \/ op'[o].id \in Rows /\ Exists(op'[o].id) /\ ~Inserts(o)'
         \/ op'[o].id \in Rows /\ ~Inserts(o)' /\ \E f \in Flows : flow[f] = op'[o].id
         \/ /\ op'[o].id \in used' \ used /\ UNCHANGED <<row, flow>>
            /\ \A q \in Ops : q # o => op'[q] = op[q]
  <1>t. op \in [Ops -> Op \cup {Idle}]
    BY DEF TypeInv, TypeOK
  <1>0. CASE op'[o] = op[o]
    BY <1>0 DEF Inserts
  <1>1. CASE OpNext(o)
    <2>1. ASSUME NEW g \in Gens, NEW tokens \in Pasted, NEW secret \in EnteredSecret,
                 NEW shared \in Sharing, BeginConnect(o, g, tokens, secret, shared)
          PROVE  op'[o].id = None
      BY <2>1, <1>t DEF BeginConnect, Begin
    <2>2. ASSUME NEW r \in Rows, Handshake(o, r)
          PROVE  op'[o].id = r /\ Exists(r) /\ ~Inserts(o)'
      BY <2>2, <1>t DEF Handshake, Begin, Inserts, Exists
    <2>3. ASSUME NEW f \in Flows, ReadFlow(o, f)
          PROVE  op'[o].id = flow[f] /\ flow[f] \in Rows /\ ~Inserts(o)'
      BY <2>3, <1>t DEF ReadFlow, Begin, Inserts
    <2>4. ASSUME op[o] # Idle, NEW r \in Rows, Select(o, r)
          PROVE  /\ op'[o].id = r
                 /\ \/ Exists(r) /\ ~Inserts(o)'
                    \/ /\ r \in used' \ used /\ UNCHANGED <<row, flow>>
                       /\ \A q \in Ops : q # o => op'[q] = op[q]
      <3>h. HandlerShape(op[o]) /\ op[o] \in Op
        BY <2>4, <1>t DEF TypeInv
      <3> DEFINE x == IF op[o].id = r THEN op[o].old ELSE row[r]
      <3>1. CASE Exists(r) /\ Advance(o, [op[o] EXCEPT !.pc = "store", !.id = r, !.old = x])
        <4>1. op'[o] = [op[o] EXCEPT !.pc = "store", !.id = r, !.old = x]
          BY <3>1, <1>t DEF Advance
        <4>2. x # NoRow
          BY <2>4, <3>1, <3>h, ConstantsAssumption, Distinct DEF Select, HandlerShape, Exists
        <4> HIDE DEF x
        <4>3. op'[o].id = r /\ op'[o].old = x
          BY <4>1, <3>h DEF Op
        <4> QED
          BY <3>1, <4>2, <4>3 DEF Inserts
      <3>2. CASE /\ r \notin used /\ used' = used \cup {r}
                 /\ Advance(o, [op[o] EXCEPT !.pc = "store", !.id = r, !.old = NoRow])
        <4>1. op'[o] = [op[o] EXCEPT !.pc = "store", !.id = r, !.old = NoRow]
          BY <3>2, <1>t DEF Advance
        <4>2. op'[o].id = r
          BY <4>1, <3>h DEF Op
        <4> QED
          BY <2>4, <3>2, <4>2, <1>t DEF Select, Advance
      <3> QED
        BY <2>4, <3>1, <3>2 DEF Select
    <2>5. ASSUME op[o] # Idle, HandlerStep(o), ~\E r \in Rows : Select(o, r)
          PROVE  op[o] # Idle /\ op'[o].id = op[o].id /\ (Inserts(o)' => Inserts(o))
      <3>h. op[o] \in Op
        BY <2>5, <1>t
      <3>1. /\ op'[o].id = op[o].id
            /\ Store(o) \/ (\E ok \in BOOLEAN : Register(o, ok)) \/ Load(o) \/ Exchange(o)
               \/ Reload(o)
        BY <2>5, HandlerSteps
      <3>2. CASE Store(o)
        BY <2>5, <3>1, <3>2, <3>h, <1>t DEF Store, Advance, Inserts, Op
      <3>3. CASE \E ok \in BOOLEAN : Register(o, ok)
        <4>1. op'[o].old = op[o].old /\ op[o].pc = "register"
          <5>1. ASSUME NEW c, Advance(o, [op[o] EXCEPT !.pc = "commit", !.new.conf = c])
                PROVE  op'[o].old = op[o].old
            BY <5>1, <3>h, <1>t DEF Advance, Op
          <5>2. ASSUME Advance(o, [op[o] EXCEPT !.pc = "commit"])
                PROVE  op'[o].old = op[o].old
            BY <5>2, <3>h, <1>t DEF Advance, Op
          <5> QED
            BY <3>3, <5>1, <5>2 DEF Register
        <4> QED
          BY <2>5, <3>1, <4>1 DEF Inserts
      <3>4. CASE Load(o)
        <4>1. op'[o].pc = "exchange"
          BY <3>4, <3>h, <1>t DEF Load, Advance, Op
        <4> QED
          BY <2>5, <3>1, <4>1 DEF Inserts
      <3>5. CASE Exchange(o)
        <4>1. op'[o].pc = "reload"
          BY <3>5, <3>h, <1>t DEF Exchange, Advance, Op
        <4> QED
          BY <2>5, <3>1, <4>1 DEF Inserts
      <3>6. CASE Reload(o)
        <4>1. op'[o].pc = "select"
          BY <3>6, <3>h, <1>t DEF Reload, Advance, Op
        <4> QED
          BY <2>5, <3>1, <4>1 DEF Inserts
      <3> QED
        BY <3>1, <3>2, <3>3, <3>4, <3>5, <3>6
    <2> QED
      BY <1>1, <2>1, <2>2, <2>3, <2>4, <2>5 DEF OpNext
  <1>2. ASSUME NEW q \in Ops, OpNext(q), q # o PROVE op'[o] = op[o]
    BY <1>2, <1>t, HandlerSteps DEF OpNext, BeginConnect, Handshake, ReadFlow, Begin
  <1>3. ASSUME ~\E q \in Ops : OpNext(q) PROVE op'[o] = op[o]
    BY <1>3 DEF Next, RowNext, BeginAuthorize, SetSharing, Disconnect, Damage, Now, FlowExpires,
       BeginSweep, SweepNext, Renew, Flush, EndSweep, LoseSweep
  <1> QED
    BY <1>0, <1>1, <1>2, <1>3

LEMMA FlowsChange ==
  ASSUME TypeInv, Next, NEW f \in Flows, flow'[f] \in Rows
  PROVE  flow'[f] = flow[f] \/ Exists(flow'[f])
  <1>t. flow \in [Flows -> Rows \cup {None, "gone"}]
    BY DEF TypeInv, TypeOK
  <1>1. ASSUME NEW g \in Flows, NEW r \in Rows, BeginAuthorize(g, r)
        PROVE  flow'[f] = flow[f] \/ Exists(flow'[f])
    BY <1>1, <1>t DEF BeginAuthorize
  <1>2. ASSUME NEW g \in Flows, FlowExpires(g) PROVE flow'[f] = flow[f]
    BY <1>2, <1>t, ConstantsAssumption DEF FlowExpires
  <1>3. ASSUME NEW o \in Ops, op[o] # Idle, Load(o) PROVE flow'[f] = flow[f]
    BY <1>3, <1>t, ConstantsAssumption DEF Load
  <1>4. ASSUME ~\E g \in Flows, r \in Rows : BeginAuthorize(g, r),
               ~\E g \in Flows : FlowExpires(g),
               ~\E o \in Ops : op[o] # Idle /\ Load(o)
        PROVE  flow' = flow
    BY <1>4
    DEF Next, OpNext, BeginConnect, Handshake, ReadFlow, HandlerStep, Select, Store, Register,
        Commit, Exchange, Reload, Abort, RowNext, SetSharing, Disconnect, Damage, BeginSweep, SweepNext,
        Renew, Flush, EndSweep, LoseSweep
  <1> QED
    BY <1>1, <1>2, <1>3, <1>4

LEMMA UsedGrows ==
  ASSUME TypeInv, Next
  PROVE  used \subseteq used'
  BY DEF Next, OpNext, BeginConnect, Handshake, ReadFlow, HandlerStep, Select, Store, Register,
     Commit, Load, Exchange, Reload, Abort, RowNext, BeginAuthorize, SetSharing, Disconnect, Damage,
     FlowExpires, BeginSweep, SweepNext, Renew, Flush, EndSweep, LoseSweep
THEOREM StepOwned == TypeInv /\ TypeInv' /\ Held /\ Owned /\ Next => Owned'
  <1> SUFFICES ASSUME TypeInv, TypeInv', Held, Owned, Next PROVE Owned'
    OBVIOUS
  <1>t. /\ used \subseteq Rows /\ used' \subseteq Rows /\ None \notin Rows
        /\ flow \in [Flows -> Rows \cup {None, "gone"}]
        /\ flow' \in [Flows -> Rows \cup {None, "gone"}]
        /\ used \subseteq used'
    BY UsedGrows, ConstantsAssumption DEF TypeInv, TypeOK
  <1>u. \A f \in Flows : flow[f] \in Rows => flow[f] \in used
    BY DEF Owned
  <1>1. ASSUME NEW r \in Rows, Exists(r)' PROVE r \in used'
    <2>1. CASE Exists(r)
      BY <2>1, <1>t DEF Owned
    <2>2. CASE ~Exists(r)
      <3>1. PICK o \in Ops : op[o] # Idle /\ op[o].id = r
        BY <1>1, <2>2, RowsChange
      <3> QED
        BY <3>1, <1>t DEF Owned
    <2> QED
      BY <2>1, <2>2
  <1>2. ASSUME NEW f \in Flows, flow'[f] \in Rows PROVE flow'[f] \in used'
    BY <1>2, <1>t, FlowsChange DEF Owned
  <1>3. ASSUME NEW o \in Ops, op'[o] # Idle, op'[o].id # None PROVE op'[o].id \in used'
    <2>1. op'[o].id \in Rows /\ Exists(op'[o].id) => op'[o].id \in used
      BY DEF Owned
    <2>2. op[o] # Idle /\ op'[o].id = op[o].id => op'[o].id \in used
      BY <1>3 DEF Owned
    <2> QED
      BY <1>3, <1>t, <1>u, <2>1, <2>2, IdsChange
  <1>4. ASSUME NEW o \in Ops, Inserts(o)'
        PROVE  /\ ~Exists(op[o].id)'
               /\ \A q \in Ops : q # o /\ op'[q] # Idle => op'[q].id # op'[o].id
               /\ \A f \in Flows : flow'[f] # op'[o].id
    <2>0. op'[o] # Idle /\ op'[o].id \in Rows
      BY <1>4, Distinct DEF Inserts, TypeInv, HandlerShape
    <2>1. CASE op[o] # Idle /\ op'[o].id = op[o].id /\ Inserts(o)
      <3>1. /\ ~Exists(op[o].id)
            /\ \A q \in Ops : q # o /\ op[q] # Idle => op[q].id # op[o].id
            /\ \A f \in Flows : flow[f] # op[o].id
            /\ op[o].id \in used
        BY <2>1, <2>0, <1>t DEF Owned
      <3>2. ~Exists(op[o].id)'
        <4> SUFFICES ASSUME Exists(op[o].id)' PROVE FALSE
          OBVIOUS
        <4>1. PICK q \in Ops : op[q] # Idle /\ Commit(q) /\ op[q].id = op[o].id
          BY <2>0, <2>1, <3>1, RowsChange
        <4>2. q = o
          BY <3>1, <4>1
        <4>3. op'[o] = Idle
          BY <4>1, <4>2 DEF Commit, Advance, TypeInv, TypeOK
        <4> QED
          BY <2>0, <4>3
      <3>3. ASSUME NEW q \in Ops, q # o, op'[q] # Idle PROVE op'[q].id # op'[o].id
        BY <3>1, <3>3, <2>0, <2>1, <1>t, IdsChange
      <3>4. \A f \in Flows : flow'[f] # op'[o].id
        BY <3>1, <2>0, <2>1, FlowsChange
      <3> QED
        BY <3>2, <3>3, <3>4
    <2>2. CASE /\ op'[o].id \in used' \ used /\ UNCHANGED <<row, flow>>
               /\ \A q \in Ops : q # o => op'[q] = op[q]
      <3>1. ~Exists(op[o].id)'
        BY <2>0, <2>2 DEF Owned, Exists
      <3>2. \A q \in Ops : q # o /\ op'[q] # Idle => op'[q].id # op'[o].id
        BY <2>0, <2>2, <1>t DEF Owned
      <3>3. \A f \in Flows : flow'[f] # op'[o].id
        BY <2>0, <2>2, <1>u
      <3> QED
        BY <3>1, <3>2, <3>3
    <2> QED
      BY <1>4, <2>0, <2>1, <2>2, <1>t, IdsChange
  <1> QED
    BY <1>1, <1>2, <1>3, <1>4 DEF Owned

THEOREM StepHeld == TypeInv /\ TypeInv' /\ Held /\ Owned /\ Next => Held'
  <1> SUFFICES ASSUME TypeInv, TypeInv', Held, Owned, Next PROVE Held'
    OBVIOUS
  <1>t. /\ op \in [Ops -> Op \cup {Idle}] /\ op' \in [Ops -> Op \cup {Idle}]
        /\ lock \in [Rows -> Ops \cup {None, "sweep"}]
        /\ sweep \in Sweep \cup {Idle}
        /\ None \notin Ops /\ "sweep" \notin Ops /\ None # "sweep"
    BY ConstantsAssumption DEF TypeInv, TypeOK
  <1>r. \A r \in Rows : Exists(r) /\ lock[r] # None => Exists(r)'
    BY RowsChange
  \* a step that leaves what is locked, and by whom, alone
  <1>f. ASSUME \A r \in Rows : lock'[r] = "sweep" => lock[r] = "sweep",
               sweep # Idle /\ (\E r \in Rows : lock'[r] = "sweep") =>
                 sweep' # Idle /\ sweep'.old = sweep.old,
               \A o \in Ops : op'[o] # Idle /\ op'[o].pc \in {"register", "commit"} =>
                 /\ op[o] # Idle /\ op[o].pc \in {"register", "commit"}
                 /\ op'[o].id = op[o].id /\ op'[o].old = op[o].old
                 /\ lock'[op[o].id] = lock[op[o].id]
        PROVE  Held'
    <2>1. ASSUME NEW o \in Ops, op'[o] # Idle, op'[o].pc \in {"register", "commit"}
          PROVE  lock'[op'[o].id] = o /\ (op'[o].old # NoRow => Exists(op[o].id)')
      <3>1. op[o].id \in Rows
        BY <1>f, <2>1 DEF TypeInv, HandlerShape
      <3> QED
        BY <1>f, <2>1, <3>1, <1>r, <1>t DEF Held
    <2>2. ASSUME NEW r \in Rows, lock'[r] = "sweep"
          PROVE  sweep' # Idle /\ sweep'.old[r] # NoRow /\ Exists(r)'
      <3>1. lock[r] = "sweep" /\ sweep # Idle /\ sweep.old[r] # NoRow /\ Exists(r)
        BY <1>f, <2>2 DEF Held
      <3> QED
        BY <1>f, <2>2, <3>1, <1>r, <1>t
    <2> QED
      BY <2>1, <2>2 DEF Held
  <1>1. ASSUME NEW o \in Ops, OpNext(o) PROVE Held'
    <2>1. CASE \/ \E g \in Gens, tokens \in Pasted, secret \in EnteredSecret, shared \in Sharing :
                     BeginConnect(o, g, tokens, secret, shared)
               \/ \E r \in Rows : Handshake(o, r)
               \/ \E f \in Flows : ReadFlow(o, f)
      <3>1. /\ op[o] = Idle /\ op'[o].pc \notin {"register", "commit"}
            /\ \A q \in Ops : q # o => op'[q] = op[q]
            /\ UNCHANGED <<lock, sweep>>
        BY <2>1, <1>t DEF BeginConnect, Handshake, ReadFlow, Begin
      <3> QED
        BY <3>1, <1>f
    <2>2. ASSUME op[o] # Idle, HandlerStep(o) PROVE Held'
      <3>h. HandlerShape(op[o]) /\ op[o] \in Op
        BY <2>2, <1>t DEF TypeInv
      <3>q. (\A q \in Ops : q # o => op'[q] = op[q]) /\ UNCHANGED sweep
        BY <2>2, <1>t, HandlerSteps
      <3>1. ASSUME NEW r \in Rows, Select(o, r) PROVE Held'
        <4>1. op'[o].pc = "store" /\ UNCHANGED lock
          <5>1. ASSUME NEW x, Advance(o, [op[o] EXCEPT !.pc = "store", !.id = r, !.old = x])
                PROVE  op'[o].pc = "store"
            BY <5>1, <3>h, <1>t DEF Advance, Op
          <5> QED
            BY <3>1, <5>1 DEF Select
        <4> QED
          BY <4>1, <3>q, <1>f
      <3>2. CASE Store(o)
        <4> DEFINE r == op[o].id
        <4>1. /\ op'[o].id = r /\ op'[o].old = op[o].old /\ r \in Rows /\ op[o].pc = "store"
              /\ lock' = [lock EXCEPT ![r] = o] /\ row' = row
              /\ op[o].old # NoRow => Exists(r) /\ lock[r] = None
          BY <3>2, <3>h, <1>t DEF Store, Advance, Op, HandlerShape, Free
        <4>2. ASSUME NEW q \in Ops, q # o, op[q] # Idle, op[q].pc \in {"register", "commit"}
              PROVE  op[q].id # r
          <5>1. CASE op[o].old = NoRow
            BY <4>1, <4>2, <5>1, <2>2 DEF Owned, Inserts
          <5>2. CASE op[o].old # NoRow
            BY <4>1, <4>2, <5>2, <1>t DEF Held
          <5> QED
            BY <5>1, <5>2
        <4>3. lock[r] # "sweep"
          <5>1. CASE op[o].old = NoRow
            BY <4>1, <5>1, <2>2 DEF Owned, Inserts, Held
          <5>2. CASE op[o].old # NoRow
            BY <4>1, <5>2, <1>t
          <5> QED
            BY <5>1, <5>2
        <4>4. ASSUME NEW q \in Ops, op'[q] # Idle, op'[q].pc \in {"register", "commit"}
              PROVE  lock'[op'[q].id] = q /\ (op'[q].old # NoRow => Exists(op[q].id)')
          <5>1. CASE q = o
            BY <5>1, <4>1, <1>t DEF Exists
          <5>2. CASE q # o
            BY <5>2, <4>1, <4>2, <4>4, <3>q, <1>t DEF Held, Exists
          <5> QED
            BY <5>1, <5>2
        <4>5. ASSUME NEW s \in Rows, lock'[s] = "sweep"
              PROVE  sweep' # Idle /\ sweep'.old[s] # NoRow /\ Exists(s)'
          BY <4>1, <4>5, <3>q, <1>t DEF Held, Exists
        <4> QED
          BY <4>4, <4>5 DEF Held
      <3>3. ASSUME NEW ok \in BOOLEAN, Register(o, ok) PROVE Held'
        <4>1. op[o].pc = "register" /\ UNCHANGED lock
          BY <3>3 DEF Register
        <4>2. op'[o].id = op[o].id /\ op'[o].old = op[o].old
          <5>1. ASSUME NEW c, Advance(o, [op[o] EXCEPT !.pc = "commit", !.new.conf = c])
                PROVE  op'[o].id = op[o].id /\ op'[o].old = op[o].old
            BY <5>1, <3>h, <1>t DEF Advance, Op
          <5>2. ASSUME Advance(o, [op[o] EXCEPT !.pc = "commit"])
                PROVE  op'[o].id = op[o].id /\ op'[o].old = op[o].old
            BY <5>2, <3>h, <1>t DEF Advance, Op
          <5> QED
            BY <3>3, <5>1, <5>2 DEF Register
        <4> QED
          BY <2>2, <4>1, <4>2, <3>q, <1>f
      <3>4. CASE Commit(o) \/ Abort(o)
        <4>1. /\ op'[o] = Idle
              /\ \A r \in Rows : lock'[r] = IF lock[r] = o THEN None ELSE lock[r]
          BY <3>4, <1>t DEF Commit, Abort, Advance, Release
        <4>2. ASSUME NEW q \in Ops, q # o, op[q] # Idle, op[q].pc \in {"register", "commit"}
              PROVE  lock'[op[q].id] = lock[op[q].id]
          BY <4>1, <4>2 DEF Held, TypeInv, HandlerShape
        <4> QED
          BY <4>1, <4>2, <3>q, <1>f, <1>t
      <3>5. CASE Load(o) \/ Exchange(o) \/ Reload(o)
        <4>1. op'[o].pc \notin {"register", "commit"} /\ UNCHANGED lock
          <5>1. CASE Load(o)
            BY <5>1, <3>h, <1>t DEF Load, Advance, Op
          <5>2. CASE Exchange(o)
            BY <5>2, <3>h, <1>t DEF Exchange, Advance, Op
          <5>3. CASE Reload(o)
            BY <5>3, <3>h, <1>t DEF Reload, Advance, Op
          <5> QED
            BY <3>5, <5>1, <5>2, <5>3
        <4> QED
          BY <4>1, <3>q, <1>f
      <3> QED
        BY <2>2, <3>1, <3>2, <3>3, <3>4, <3>5 DEF HandlerStep
    <2> QED
      BY <1>1, <2>1, <2>2 DEF OpNext
  <1>2. CASE (\E r \in Rows : RowNext(r)) \/ \E f \in Flows : FlowExpires(f)
    <2>1. UNCHANGED <<lock, sweep, op>>
      BY <1>2 DEF RowNext, BeginAuthorize, SetSharing, Disconnect, Damage, Now, FlowExpires
    <2> QED
      BY <2>1, <1>f
  <1>3. CASE BeginSweep
    <2>1. UNCHANGED <<lock, op>> /\ sweep = Idle
      BY <1>3 DEF BeginSweep
    <2> QED
      BY <2>1, <1>f DEF Held
  <1>4. CASE SweepNext
    <2>1. ASSUME NEW r \in Rows, NEW ok \in BOOLEAN, Renew(r, ok) PROVE Held'
      <3>1. UNCHANGED <<lock, op>> /\ sweep \in Sweep
        BY <2>1, <1>t DEF Renew
      <3>2. sweep'.old = sweep.old /\ sweep'.pc \in {"run", "flush"}
        BY <2>1, <3>1 DEF Renew, Sweep
      <3>3. sweep' # Idle
        BY <3>2 DEF Idle
      <3> QED
        BY <3>1, <3>2, <3>3, <1>f
    <2>2. CASE Flush
      <3> DEFINE r == sweep.id
      <3>1. sweep \in Sweep /\ r \in Rows /\ sweep.old[r] # NoRow /\ UNCHANGED <<op, row>>
        BY <2>2, <1>t DEF Flush, TypeInv, SweepShape
      <3>2. sweep'.old = sweep.old /\ sweep'.pc \in {"run", "broken"}
        BY <2>2, <3>1 DEF Flush, Sweep
      <3>3. sweep' # Idle
        BY <3>2 DEF Idle
      <3>4. CASE lock' = lock
        BY <3>1, <3>2, <3>3, <3>4, <1>f
      <3>5. CASE lock' = [lock EXCEPT ![r] = "sweep"] /\ Exists(r) /\ lock[r] = None
        <4>1. \A q \in Ops : op[q] # Idle /\ op[q].pc \in {"register", "commit"} => op[q].id # r
          BY <3>5, <1>t DEF Held
        <4> QED
          BY <3>1, <3>2, <3>3, <3>5, <4>1, <1>t DEF Held, Exists
      <3>6. CASE Release("sweep")
        <4>1. \A s \in Rows : lock'[s] = IF lock[s] = "sweep" THEN None ELSE lock[s]
          BY <3>6 DEF Release
        <4>2. \A q \in Ops : op[q] # Idle /\ op[q].pc \in {"register", "commit"} =>
                lock'[op[q].id] = lock[op[q].id]
          BY <4>1, <1>t DEF Held, TypeInv, HandlerShape
        <4> QED
          BY <3>1, <3>2, <3>3, <4>1, <4>2, <1>f, <1>t
      <3> QED
        BY <2>2, <3>4, <3>5, <3>6 DEF Flush, Free
    <2>3. CASE EndSweep \/ LoseSweep
      <3>1. /\ UNCHANGED op
            /\ \A s \in Rows : lock'[s] = IF lock[s] = "sweep" THEN None ELSE lock[s]
        BY <2>3 DEF EndSweep, LoseSweep, Release
      <3>2. \A q \in Ops : op[q] # Idle /\ op[q].pc \in {"register", "commit"} =>
              lock'[op[q].id] = lock[op[q].id]
        BY <3>1, <1>t DEF Held, TypeInv, HandlerShape
      <3> QED
        BY <3>1, <3>2, <1>f, <1>t
    <2> QED
      BY <1>4, <2>1, <2>2, <2>3 DEF SweepNext
  <1> QED
    BY <1>1, <1>2, <1>3, <1>4 DEF Next

Inv == TypeInv /\ Held /\ Owned

THEOREM Invariant == Spec => []Inv
  <1>1. Init => Inv
    <2>1. Init => Owned
      BY ConstantsAssumption DEF Init, Owned, Inserts, Exists
    <2> QED
      BY <2>1, InitTypeInv DEF Inv
  <1>2. Inv /\ [Next]_vars => Inv'
    <2>1. CASE UNCHANGED vars
      BY <2>1 DEF vars, Inv, TypeInv, TypeOK, SweepShape, Held, Owned, Inserts, Exists
    <2> QED
      BY <2>1, StepTypeInv, StepHeld, StepOwned DEF Inv
  <1> QED
    BY <1>1, <1>2, PTL DEF Spec
-----------------------------------------------------------------------------
(* What a handler carries, and what becomes of a row, in one step *)

Connects(o) ==
  /\ op[o] = Idle /\ op'[o].pc = "select" /\ op'[o].by = "connect"
  /\ op'[o].id = None /\ op'[o].old = NoRow
  /\ \E g \in Gens, t \in Gens \cup {None}, access \in BOOLEAN, secret \in Secret,
        shared \in BOOLEAN :
       /\ t \in {g, None}
       /\ op'[o].new = [cred |-> [gen |-> g, token |-> t, access |-> access, sound |-> TRUE],
                        conf |-> [gen |-> g, auth |-> FALSE, secret |-> secret, reg |-> FALSE],
                        status |-> "active", shared |-> shared]
  /\ entered' # entered

ShakesHands(o) ==
  /\ op[o] = Idle /\ op'[o].pc = "store" /\ op'[o].by = "handshake"
  /\ op'[o].id \in Rows /\ row[op'[o].id] \in Row /\ op'[o].old = row[op'[o].id]
  /\ op'[o].new = [row[op'[o].id] EXCEPT !.conf.secret = made + 1]
  /\ kind = "handshake" /\ \E c \in Ops : op[c] # Idle
  /\ overlapped' = (overlapped \/ Busy)

Reads(o) ==
  /\ op[o] = Idle /\ op'[o].pc = "load" /\ op'[o].by = "callback"
  /\ op'[o].id \in Rows
  /\ op'[o].flow \in Flows /\ flow[op'[o].flow] = op'[o].id

Selects(o) ==
  /\ op[o].pc = "select" /\ op'[o].pc = "store"
  /\ op'[o].new = op[o].new /\ op'[o].by = op[o].by /\ op'[o].flow = op[o].flow
  /\ op'[o].id \in Rows /\ row[op'[o].id] \in Row
  /\ op'[o].old = IF op[o].id = op'[o].id THEN op[o].old ELSE row[op'[o].id]

StartsRow(o) ==
  /\ op[o].pc = "select" /\ op'[o].pc = "store"
  /\ op'[o].new = op[o].new /\ op'[o].by = op[o].by /\ op'[o].flow = op[o].flow
  /\ op'[o].id \in used' \ used /\ op'[o].old = NoRow
  /\ \A q \in Rows : ~Exists(q)

Flushes(o) ==
  /\ op[o].pc = "store" /\ op'[o].pc = IF op[o].by = "connect" THEN "register" ELSE "commit"
  /\ op'[o].id = op[o].id /\ op'[o].by = op[o].by /\ op'[o].flow = op[o].flow
  /\ op'[o].old = op[o].old /\ op'[o].new = op[o].new

Registers(o) ==
  /\ op[o].pc = "register" /\ op'[o].pc = "commit"
  /\ op'[o].id = op[o].id /\ op'[o].by = op[o].by /\ op'[o].old = op[o].old
  /\ op'[o].flow = op[o].flow
  /\ \/ op'[o].new = op[o].new
     \/ \E ok \in BOOLEAN :
          /\ ok => CanRegister(op[o].id, op[o].new.cred)
          /\ Call(op[o].id, op[o].new.conf, ok)
          /\ \E c \in Registered(op[o].id, op[o].new.conf, ok) :
               op'[o].new = [op[o].new EXCEPT !.conf = c]

Loads(o) ==
  /\ op[o].pc = "load" /\ op'[o].pc = "exchange"
  /\ op'[o].id = op[o].id /\ op'[o].by = op[o].by /\ op'[o].flow = op[o].flow
  /\ row[op[o].id] \in Row /\ op'[o].old = row[op[o].id] /\ row[op[o].id].cred.sound
  /\ flow' = [flow EXCEPT ![op[o].flow] = "gone"]

Exchanges(o) ==
  /\ op[o].pc = "exchange" /\ op'[o].pc = "reload"
  /\ op'[o].id = op[o].id /\ op'[o].by = op[o].by /\ op'[o].old = op[o].old
  /\ op'[o].flow = op[o].flow
  /\ code[op[o].flow] = op[o].old.cred.gen /\ code' = [code EXCEPT ![op[o].flow] = None]

Reloads(o) ==
  /\ op[o].pc = "reload" /\ op'[o].pc = "select"
  /\ op'[o].id = op[o].id /\ op'[o].by = op[o].by /\ op'[o].flow = op[o].flow
  /\ row[op[o].id] \in Row /\ op'[o].old = row[op[o].id]
  /\ op'[o].new = Authorized(op[o].old.cred, row[op[o].id])

LEMMA Carries ==
  ASSUME TypeInv, Next, NEW o \in Ops, op'[o] # Idle
  PROVE  \/ op'[o] = op[o]
         \/ Connects(o) \/ ShakesHands(o) \/ Reads(o)
         \/ /\ op[o] # Idle
            /\ Selects(o) \/ StartsRow(o) \/ Flushes(o) \/ Registers(o) \/ Loads(o)
               \/ Exchanges(o) \/ Reloads(o)
  <1>t. /\ op \in [Ops -> Op \cup {Idle}] /\ row \in [Rows -> Row \cup {NoRow}]
        /\ Sharing \subseteq BOOLEAN
    BY ConstantsAssumption DEF TypeInv, TypeOK
  <1>1. CASE OpNext(o)
    <2>1. ASSUME NEW g \in Gens, NEW tokens \in Pasted, NEW secret \in EnteredSecret,
                 NEW shared \in Sharing, BeginConnect(o, g, tokens, secret, shared)
          PROVE  Connects(o)
      <3> DEFINE t == IF "refresh" \in tokens THEN g ELSE None
                 access == "access" \in tokens
      <3>1. /\ t \in Gens \cup {None} /\ t \in {g, None} /\ shared \in BOOLEAN
            /\ access \in BOOLEAN /\ secret \in Secret
        BY <1>t, EnteredType
      <3> DEFINE new == [cred |-> [gen |-> g, token |-> t, access |-> access, sound |-> TRUE],
                         conf |-> [gen |-> g, auth |-> FALSE, secret |-> secret, reg |-> FALSE],
                         status |-> "active", shared |-> shared]
      <3>2. /\ op[o] = Idle
            /\ op'[o] = [pc |-> "select", by |-> "connect", flow |-> None,
                         id |-> None, old |-> NoRow, new |-> new]
        BY <2>1, <1>t DEF BeginConnect, Begin
      <3>3. /\ op'[o].new = new /\ op'[o].pc = "select" /\ op'[o].by = "connect"
            /\ op'[o].id = None /\ op'[o].old = NoRow
        BY <3>2
      <3> HIDE DEF t, access
      <3>4. \E g1 \in Gens, t1 \in Gens \cup {None}, access1 \in BOOLEAN, secret1 \in Secret,
              shared1 \in BOOLEAN :
              /\ t1 \in {g1, None}
              /\ op'[o].new = [cred |-> [gen |-> g1, token |-> t1, access |-> access1, sound |-> TRUE],
                   conf |-> [gen |-> g1, auth |-> FALSE, secret |-> secret1, reg |-> FALSE],
                   status |-> "active", shared |-> shared1]
        BY <3>1, <3>3, Zenon
      <3>5. entered' # entered
        BY <2>1 DEF BeginConnect
      <3> QED
        BY <3>2, <3>3, <3>4, <3>5, Zenon DEF Connects
    <2>2. ASSUME NEW r \in Rows, Handshake(o, r) PROVE ShakesHands(o)
      <3>1. op'[o] = [pc |-> "store", by |-> "handshake", flow |-> None, id |-> r,
                      old |-> row[r], new |-> [row[r] EXCEPT !.conf.secret = made + 1]]
        BY <2>2, <1>t DEF Handshake, Begin
      <3>2. /\ row[r] \in Row /\ kind = "handshake" /\ op[o] = Idle /\ \E c \in Ops : op[c] # Idle
            /\ overlapped' = (overlapped \/ Busy)
        BY <2>2, <1>t DEF Handshake, Begin, Exists
      <3> QED
        BY <3>1, <3>2 DEF ShakesHands
    <2>3. ASSUME NEW f \in Flows, ReadFlow(o, f) PROVE Reads(o)
      BY <2>3, <1>t DEF ReadFlow, Begin, Reads
    <2>4. ASSUME op[o] # Idle, HandlerStep(o)
          PROVE  Selects(o) \/ StartsRow(o) \/ Flushes(o) \/ Registers(o) \/ Loads(o)
                 \/ Exchanges(o) \/ Reloads(o)
      <3>h. HandlerShape(op[o]) /\ op[o] \in Op
        BY <2>4, <1>t DEF TypeInv
      <3>e. \A p, i, x : /\ [op[o] EXCEPT !.pc = p, !.id = i, !.old = x].pc = p
                         /\ [op[o] EXCEPT !.pc = p, !.id = i, !.old = x].id = i
                         /\ [op[o] EXCEPT !.pc = p, !.id = i, !.old = x].old = x
                         /\ [op[o] EXCEPT !.pc = p, !.id = i, !.old = x].by = op[o].by
                         /\ [op[o] EXCEPT !.pc = p, !.id = i, !.old = x].new = op[o].new
                         /\ [op[o] EXCEPT !.pc = p, !.id = i, !.old = x].flow = op[o].flow
        BY <3>h DEF Op
      <3>1. ASSUME NEW r \in Rows, Select(o, r) PROVE Selects(o) \/ StartsRow(o)
        <4> DEFINE x == IF op[o].id = r THEN op[o].old ELSE row[r]
        <4>1. CASE Exists(r) /\ Advance(o, [op[o] EXCEPT !.pc = "store", !.id = r, !.old = x])
          <5>1. op'[o] = [op[o] EXCEPT !.pc = "store", !.id = r, !.old = x] /\ row[r] \in Row
            BY <4>1, <1>t DEF Advance, Exists
          <5>2. op[o].pc = "select"
            BY <3>1 DEF Select
          <5> QED
            BY <5>1, <5>2, <3>e DEF Selects
        <4>2. CASE /\ r \notin used /\ used' = used \cup {r} /\ \A q \in Rows : ~Exists(q)
                   /\ Advance(o, [op[o] EXCEPT !.pc = "store", !.id = r, !.old = NoRow])
          <5>1. op'[o] = [op[o] EXCEPT !.pc = "store", !.id = r, !.old = NoRow]
            BY <4>2, <1>t DEF Advance
          <5>2. op[o].pc = "select"
            BY <3>1 DEF Select
          <5> QED
            BY <4>2, <5>1, <5>2, <3>e DEF StartsRow
        <4> QED
          BY <3>1, <4>1, <4>2 DEF Select
      <3>2. CASE Store(o)
        <4>1. /\ op[o].pc = "store"
              /\ op'[o] = [op[o] EXCEPT !.pc = IF op[o].by = "connect" THEN "register" ELSE "commit"]
          BY <3>2, <1>t DEF Store, Advance
        <4> QED
          BY <4>1, <3>h DEF Flushes, Op
      <3>3. ASSUME NEW ok \in BOOLEAN, Register(o, ok) PROVE Registers(o)
        <4> DEFINE r == op[o].id  conf == op[o].new.conf
        <4>1. op[o].pc = "register" /\ (ok => CanRegister(r, op[o].new.cred))
          BY <3>3 DEF Register
        <4>2. CASE /\ Call(r, conf, ok)
                   /\ \E c \in Registered(r, conf, ok) :
                        Advance(o, [op[o] EXCEPT !.pc = "commit", !.new.conf = c])
          <5>1. PICK c \in Registered(r, conf, ok) :
                  Advance(o, [op[o] EXCEPT !.pc = "commit", !.new.conf = c])
            BY <4>2
          <5>2. op'[o] = [op[o] EXCEPT !.pc = "commit", !.new.conf = c]
            BY <5>1, <1>t DEF Advance
          <5>3. /\ op'[o].pc = "commit" /\ op'[o].id = r /\ op'[o].by = op[o].by
                /\ op'[o].flow = op[o].flow
                /\ op'[o].old = op[o].old /\ op'[o].new = [op[o].new EXCEPT !.conf = c]
            BY <5>2, <3>h DEF Op
          <5> QED
            BY <4>1, <4>2, <5>1, <5>3 DEF Registers
        <4>3. CASE Advance(o, [op[o] EXCEPT !.pc = "commit"])
          <5>1. op'[o] = [op[o] EXCEPT !.pc = "commit"]
            BY <4>3, <1>t DEF Advance
          <5> QED
            BY <4>1, <5>1, <3>h DEF Registers, Op
        <4> QED
          BY <3>3, <4>2, <4>3 DEF Register
      <3>4. CASE Load(o)
        <4>1. /\ op[o].pc = "load" /\ row[op[o].id] \in Row /\ row[op[o].id].cred.sound
              /\ flow' = [flow EXCEPT ![op[o].flow] = "gone"]
              /\ op'[o] = [op[o] EXCEPT !.pc = "exchange", !.old = row[op[o].id]]
          BY <3>4, <3>h, <1>t DEF Load, Advance, Exists, HandlerShape
        <4> QED
          BY <4>1, <3>h DEF Loads, Op
      <3>5. CASE Exchange(o)
        <4>1. /\ op[o].pc = "exchange" /\ code[op[o].flow] = op[o].old.cred.gen
              /\ code' = [code EXCEPT ![op[o].flow] = None]
              /\ op'[o] = [op[o] EXCEPT !.pc = "reload"]
          BY <3>5, <1>t DEF Exchange, Advance
        <4> QED
          BY <4>1, <3>h DEF Exchanges, Op
      <3>6. ~(Commit(o) \/ Abort(o))
        BY <1>t DEF Commit, Abort, Advance
      <3>7. CASE Reload(o)
        <4> DEFINE x == row[op[o].id]  y == Authorized(op[o].old.cred, row[op[o].id])
        <4>1. op[o].pc = "reload" /\ x \in Row
          BY <3>7, <3>h, <1>t DEF Reload, Exists, HandlerShape
        <4>2. op'[o] = [op[o] EXCEPT !.pc = "select", !.old = x, !.new = y]
          BY <3>7, <1>t DEF Reload, Advance
        <4> HIDE DEF x, y
        <4>3. /\ op'[o].pc = "select" /\ op'[o].id = op[o].id /\ op'[o].by = op[o].by
              /\ op'[o].flow = op[o].flow /\ op'[o].old = x /\ op'[o].new = y
          BY <4>2, <3>h DEF Op
        <4> QED
          BY <4>1, <4>3 DEF Reloads, x, y
      <3> QED
        BY <2>4, <3>1, <3>2, <3>3, <3>4, <3>5, <3>6, <3>7 DEF HandlerStep
    <2> QED
      BY <1>1, <2>1, <2>2, <2>3, <2>4 DEF OpNext
  <1>2. ASSUME NEW q \in Ops, OpNext(q), q # o PROVE op'[o] = op[o]
    BY <1>2, <1>t, HandlerSteps DEF OpNext, BeginConnect, Handshake, ReadFlow, Begin
  <1>3. ASSUME ~\E q \in Ops : OpNext(q) PROVE op'[o] = op[o]
    BY <1>3 DEF Next, RowNext, BeginAuthorize, SetSharing, Disconnect, Damage, Now, FlowExpires,
       BeginSweep, SweepNext, Renew, Flush, EndSweep, LoseSweep
  <1> QED
    BY <1>1, <1>2, <1>3

Commits(o, r) ==
  /\ op[o] # Idle /\ op[o].pc = "commit" /\ op[o].id = r /\ op'[o] = Idle
  /\ row'[r] = IF op[o].old = NoRow THEN op[o].new
               ELSE Merge(op[o].by # "handshake", row[r], op[o].old, op[o].new)
  /\ op[o].old # NoRow => row[r] \in Row
  /\ latest' = IF op[o].by = "connect" THEN op[o].new.cred.gen ELSE latest
  /\ UNCHANGED <<sweep, used, hooks>> /\ \A q \in Rows : q # r => row'[q] = row[q]

Touched(r) ==
  /\ row[r] \in Row /\ row'[r] \in Row
  /\ row'[r].cred.gen = row[r].cred.gen /\ row'[r].cred.token = row[r].cred.token
  /\ row'[r].conf = row[r].conf
  /\ UNCHANGED <<op, sweep>>

Renewed(r) ==
  /\ sweep # Idle /\ lock[r] = "sweep"
  /\ row[r] \in Row /\ sweep.old[r] \in Row /\ sweep.new[r] \in Row
  /\ row'[r] = Merge(FALSE, row[r], sweep.old[r], sweep.new[r])

LEMMA RowEffects ==
  ASSUME TypeInv, TypeInv', Held, Next, NEW r \in Rows, Exists(r)'
  PROVE  row'[r] = row[r] \/ (\E o \in Ops : Commits(o, r)) \/ Touched(r) \/ Renewed(r)
  <1>t. /\ op \in [Ops -> Op \cup {Idle}] /\ row \in [Rows -> Row \cup {NoRow}]
        /\ row' \in [Rows -> Row \cup {NoRow}] /\ sweep \in Sweep \cup {Idle}
    BY DEF TypeInv, TypeOK
  <1>1. ASSUME NEW o \in Ops, op[o] # Idle, Commit(o) PROVE row'[r] = row[r] \/ Commits(o, r)
    <2>1. op[o].pc = "commit" /\ op[o].id \in Rows
      BY <1>1 DEF Commit, TypeInv, HandlerShape
    <2>2. op[o].old # NoRow => row[op[o].id] \in Row
      BY <1>1, <2>1, <1>t DEF Held, Exists
    <2> QED
      BY <1>1, <2>1, <2>2, <1>t DEF Commit, Commits, Advance
  <1>2. ASSUME NEW o \in Ops, OpNext(o), ~(op[o] # Idle /\ Commit(o)) PROVE UNCHANGED row
    BY <1>2 DEF OpNext, HandlerStep, BeginConnect, Handshake, ReadFlow, Select, Store, Register,
       Load, Exchange, Reload, Abort
  <1>3. ASSUME NEW q \in Rows, RowNext(q) PROVE row'[r] = row[r] \/ Touched(r)
    <2>1. ASSUME NEW shared \in BOOLEAN, SetSharing(q, shared) PROVE row'[r] = row[r] \/ Touched(r)
      <3>1. row[q] \in Row /\ row' = [row EXCEPT ![q].shared = shared] /\ UNCHANGED <<op, sweep>>
        BY <2>1, <1>t DEF SetSharing, Exists, Now
      <3>2. CASE q = r
        <4>1. row'[r] = [row[r] EXCEPT !.shared = shared]
          BY <3>1, <3>2, <1>t
        <4>2. row'[r] \in Row /\ row'[r].cred = row[r].cred /\ row'[r].conf = row[r].conf
          BY <2>1, <3>1, <3>2, <4>1 DEF Row
        <4> QED
          BY <3>1, <3>2, <4>2 DEF Touched
      <3> QED
        BY <3>1, <3>2, <1>t
    <2>2. CASE Damage(q)
      <3>1. row[q] \in Row /\ row' = [row EXCEPT ![q].cred.sound = FALSE] /\ UNCHANGED <<op, sweep>>
        BY <2>2, <1>t DEF Damage, Exists
      <3>2. CASE q = r
        <4>1. row'[r] = [row[r] EXCEPT !.cred.sound = FALSE]
          BY <3>1, <3>2, <1>t
        <4>2. row[r].cred \in Cred /\ row'[r].cred = [row[r].cred EXCEPT !.sound = FALSE]
          BY <3>1, <3>2, <4>1 DEF Row
        <4>3. /\ row'[r].cred \in Cred /\ row'[r].cred.gen = row[r].cred.gen
              /\ row'[r].cred.token = row[r].cred.token
          BY <4>2 DEF Cred
        <4>4. row'[r] \in Row
          BY <1>t DEF Exists
        <4>5. row'[r].conf = row[r].conf
          BY <3>1, <3>2, <4>1 DEF Row
        <4> QED
          BY <3>1, <3>2, <4>3, <4>4, <4>5 DEF Touched
      <3> QED
        BY <3>1, <3>2, <1>t
    <2>3. CASE Disconnect(q)
      BY <2>3, <1>t DEF Disconnect, Exists
    <2> QED
      BY <1>3, <2>1, <2>2, <2>3 DEF RowNext, BeginAuthorize
  <1>4. CASE EndSweep
    <2>1. ASSUME lock[r] = "sweep" PROVE Renewed(r)
      <3>1. sweep # Idle /\ sweep.old[r] # NoRow /\ Exists(r)
        BY <2>1 DEF Held
      <3>2. sweep.old[r] \in Row /\ sweep.new[r] \in Row /\ row[r] \in Row
        BY <3>1, <1>t DEF TypeInv, SweepShape, Sweep, Exists
      <3> QED
        BY <1>4, <2>1, <3>1, <3>2 DEF EndSweep, Renewed
    <2> QED
      BY <1>4, <2>1 DEF EndSweep
  <1>5. CASE BeginSweep \/ (\E f \in Flows : FlowExpires(f)) \/ (SweepNext /\ ~EndSweep)
    BY <1>5 DEF BeginSweep, FlowExpires, SweepNext, Renew, Flush, LoseSweep
  <1> QED
    BY <1>1, <1>2, <1>3, <1>4, <1>5 DEF Next
LEMMA NewIsRow ==
  ASSUME TypeInv, NEW o \in Ops, op[o] # Idle,
         op[o].pc \in {"select", "store", "register", "commit"}
  PROVE  op[o].new \in Row
  BY DEF TypeInv, HandlerShape

-----------------------------------------------------------------------------
(* Tokens and clients.  Whatever is written, a token comes from an exchange   *)
(* with the client that is written with it, or was entered with it.           *)

Fits(x) == x.cred.token # None => x.cred.token = x.cred.gen

HandlersFit ==
  \A o \in Ops : op[o] # Idle /\ op[o].pc \in {"select", "store", "register", "commit"} =>
    Fits(op[o].new)

THEOREM StepFits ==
  Inv /\ Inv' /\ TokensFitClient /\ HandlersFit /\ Next => TokensFitClient' /\ HandlersFit'
  <1> SUFFICES ASSUME Inv, Inv', TokensFitClient, HandlersFit, Next
               PROVE  TokensFitClient' /\ HandlersFit'
    OBVIOUS
  <1>i. TypeInv /\ TypeInv' /\ Held
    BY DEF Inv
  <1>f. \A r \in Rows : Exists(r) => Fits(row[r])
    BY DEF TokensFitClient, Fits
  <1>1. ASSUME NEW r \in Rows, Exists(r)' PROVE Fits(row'[r])
    <2>1. CASE row'[r] = row[r]
      BY <1>1, <2>1, <1>f DEF Exists
    <2>2. ASSUME NEW o \in Ops, Commits(o, r) PROVE Fits(row'[r])
      <3>1. Fits(op[o].new)
        BY <2>2 DEF HandlersFit, Commits
      <3>2. CASE op[o].old = NoRow
        BY <2>2, <3>1, <3>2 DEF Commits
      <3>3. CASE op[o].old # NoRow
        <4>1. Fits(row[r])
          BY <2>2, <3>3, <1>f, Distinct DEF Commits, Exists
        <4>2. row'[r] = Merge(op[o].by # "handshake", row[r], op[o].old, op[o].new)
          BY <2>2, <3>3 DEF Commits
        <4>3. row'[r].cred \in {row[r].cred, op[o].new.cred}
          BY <4>2 DEF Merge
        <4> QED
          BY <3>1, <4>1, <4>3 DEF Fits
      <3> QED
        BY <3>2, <3>3
    <2>3. CASE Touched(r)
      BY <2>3, <1>f, Distinct DEF Touched, Fits, Exists
    <2>4. CASE Renewed(r)
      <3>1. row'[r].cred = row[r].cred
        BY <2>4 DEF Renewed, Merge
      <3> QED
        BY <2>4, <3>1, <1>f, Distinct DEF Renewed, Fits, Exists
    <2> QED
      BY <1>1, <1>i, <2>1, <2>2, <2>3, <2>4, RowEffects
  <1>2. ASSUME NEW o \in Ops, op'[o] # Idle, op'[o].pc \in {"select", "store", "register", "commit"}
        PROVE  Fits(op'[o].new)
    <2>1. CASE op'[o] = op[o]
      BY <1>2, <2>1 DEF HandlersFit
    <2>2. CASE Connects(o)
      BY <2>2 DEF Connects, Fits
    <2>3. CASE ShakesHands(o)
      <3>1. op'[o].new.cred = row[op'[o].id].cred
        BY <2>3 DEF ShakesHands, Row
      <3> QED
        BY <2>3, <3>1, <1>f, Distinct DEF ShakesHands, Exists, Fits
    <2>4. CASE op[o] # Idle /\ (Selects(o) \/ StartsRow(o) \/ Flushes(o))
      BY <2>4 DEF Selects, StartsRow, Flushes, HandlersFit
    <2>5. CASE op[o] # Idle /\ Registers(o)
      <3>1. op[o].new \in Row /\ Fits(op[o].new)
        BY <2>5, <1>i, NewIsRow DEF Registers, HandlersFit
      <3>2. op'[o].new.cred = op[o].new.cred
        BY <2>5, <3>1 DEF Registers, Row
      <3> QED
        BY <3>1, <3>2 DEF Fits
    <2>6. CASE op[o] # Idle /\ Reloads(o)
      <3>1. op[o].old.cred \in Cred
        BY <2>6, <1>i DEF Reloads, TypeInv, HandlerShape, Row
      <3>2. row[op[o].id] \in Row /\ op'[o].new = Authorized(op[o].old.cred, row[op[o].id])
        BY <2>6 DEF Reloads
      <3>3. op'[o].new.cred.token = op'[o].new.cred.gen
        BY <3>1, <3>2, AuthorizedFields
      <3> QED
        BY <3>3 DEF Fits
    <2>7. ~Reads(o) /\ ~Loads(o) /\ ~Exchanges(o)
      BY <1>2 DEF Reads, Loads, Exchanges
    <2> QED
      BY <1>2, <1>i, <2>1, <2>2, <2>3, <2>4, <2>5, <2>6, <2>7, Carries
  <1> QED
    BY <1>1, <1>2 DEF TokensFitClient, HandlersFit, Fits

\* A stored refresh token was issued to the client stored with it, whatever
\* connects, authorizations, handshakes and renewals overlap.
THEOREM TokensFit == Spec => []TokensFitClient
  <1> DEFINE J == TokensFitClient /\ HandlersFit
  <1>1. Init => J
    BY DEF Init, TokensFitClient, HandlersFit, Exists
  <1>2. Inv /\ Inv' /\ J /\ [Next]_vars => J'
    <2>1. CASE UNCHANGED vars
      BY <2>1 DEF vars, TokensFitClient, HandlersFit, Exists
    <2> QED
      BY <2>1, StepFits
  <1> QED
    BY <1>1, <1>2, Invariant, PTL DEF Spec

-----------------------------------------------------------------------------
(* Sharing.  As long as only one id has been given, a callback or a handshake *)
(* writes the sharing it has loaded.                                          *)

OneId == \A p, q \in used : p = q

KeepsSharing ==
  /\ OneId => \A o \in Ops :
       (op[o] # Idle /\ op[o].by # "connect" /\ op[o].pc \in {"select", "store", "register", "commit"}
          /\ op[o].old # NoRow) => op[o].new.shared = op[o].old.shared
  /\ sweep # Idle => \A r \in Rows : sweep.old[r] # NoRow => sweep.new[r].shared = sweep.old[r].shared

THEOREM StepKeepsSharing == Inv /\ Inv' /\ KeepsSharing /\ Next => KeepsSharing'
  <1> SUFFICES ASSUME Inv, Inv', KeepsSharing, Next PROVE KeepsSharing'
    OBVIOUS
  <1>i. TypeInv /\ TypeInv' /\ Owned /\ Owned'
    BY DEF Inv
  <1>n. None \notin Rows /\ used \subseteq used'
    BY <1>i, UsedGrows, ConstantsAssumption
  <1>1. ASSUME OneId', NEW o \in Ops, op'[o] # Idle, op'[o].by # "connect",
               op'[o].pc \in {"select", "store", "register", "commit"}, op'[o].old # NoRow
        PROVE  op'[o].new.shared = op'[o].old.shared
    <2>0. OneId
      BY <1>1, <1>n DEF OneId
    <2>1. CASE op'[o] = op[o]
      BY <1>1, <2>0, <2>1 DEF KeepsSharing
    <2>2. CASE ShakesHands(o)
      BY <2>2 DEF ShakesHands, Row
    <2>3. CASE op[o] # Idle /\ Selects(o)
      <3>1. op[o].by = "callback" /\ op[o].id \in Rows /\ op[o].old \in Row
        BY <1>1, <2>3, <1>i DEF Selects, TypeInv, HandlerShape
      <3>2. op[o].id \in used /\ op'[o].id \in used'
        BY <1>1, <2>3, <3>1, <1>i, <1>n DEF Owned, Selects
      <3>3. op'[o].id = op[o].id
        BY <1>1, <1>n, <3>2 DEF OneId
      <3> QED
        BY <2>0, <2>3, <3>1, <3>3, Distinct DEF Selects, KeepsSharing
    <2>4. CASE op[o] # Idle /\ Flushes(o)
      BY <1>1, <2>0, <2>4 DEF Flushes, KeepsSharing
    <2>5. CASE op[o] # Idle /\ Registers(o)
      <3>1. op[o].new \in Row /\ op[o].new.shared = op[o].old.shared
        BY <1>1, <2>0, <2>5, <1>i, NewIsRow DEF Registers, KeepsSharing
      <3> QED
        BY <2>5, <3>1 DEF Registers, Row
    <2>6. CASE op[o] # Idle /\ Reloads(o)
      <3>1. op[o].old.cred \in Cred
        BY <2>6, <1>i DEF Reloads, TypeInv, HandlerShape, Row
      <3> QED
        BY <2>6, <3>1, AuthorizedFields DEF Reloads
    <2>7. ~Connects(o) /\ ~Reads(o) /\ ~Loads(o) /\ ~StartsRow(o) /\ ~Exchanges(o)
      BY <1>1 DEF Connects, Reads, Loads, StartsRow, Exchanges
    <2> QED
      BY <1>1, <1>i, <2>1, <2>2, <2>3, <2>4, <2>5, <2>6, <2>7, Carries
  <1>2. ASSUME sweep' # Idle, NEW r \in Rows, sweep'.old[r] # NoRow
        PROVE  sweep'.new[r].shared = sweep'.old[r].shared
    <2>1. CASE UNCHANGED sweep
      BY <1>2, <2>1 DEF KeepsSharing
    <2>2. CASE BeginSweep
      BY <2>2 DEF BeginSweep
    <2>3. ASSUME NEW q \in Rows, NEW ok \in BOOLEAN, Renew(q, ok)
          PROVE  sweep'.new[r].shared = sweep'.old[r].shared
      <3>1. /\ sweep \in Sweep /\ sweep.new \in [Rows -> Row \cup {NoRow}]
            /\ sweep # Idle
        BY <2>3, <1>i DEF Renew, TypeInv, TypeOK, Sweep
      <3>2. /\ sweep'.old = sweep.old
            /\ \/ sweep'.new = sweep.new
               \/ \E c : sweep'.new = [sweep.new EXCEPT ![q].conf = c]
               \/ sweep'.new = [sweep.new EXCEPT ![q].status = "error"]
        BY <2>3, <3>1 DEF Renew, Sweep
      <3>3. sweep.new[r] \in Row /\ sweep.new[r].shared = sweep.old[r].shared
        BY <1>2, <3>1, <3>2, <1>i DEF KeepsSharing, TypeInv, SweepShape
      <3>4. sweep'.new[r].shared = sweep.new[r].shared
        <4>1. ASSUME NEW c, sweep'.new = [sweep.new EXCEPT ![q].conf = c]
              PROVE  sweep'.new[r].shared = sweep.new[r].shared
          <5>1. sweep'.new[r] = sweep.new[r] \/ sweep'.new[r] = [sweep.new[r] EXCEPT !.conf = c]
            BY <4>1, <3>1
          <5> QED
            BY <5>1, <3>3 DEF Row
        <4>2. ASSUME sweep'.new = [sweep.new EXCEPT ![q].status = "error"]
              PROVE  sweep'.new[r].shared = sweep.new[r].shared
          <5>1. sweep'.new[r] = sweep.new[r] \/ sweep'.new[r] = [sweep.new[r] EXCEPT !.status = "error"]
            BY <4>2, <3>1
          <5> QED
            BY <5>1, <3>3 DEF Row
        <4> QED
          BY <3>2, <4>1, <4>2
      <3> QED
        BY <3>2, <3>3, <3>4
    <2>4. CASE Flush
      <3>1. sweep \in Sweep /\ sweep # Idle
        BY <2>4, <1>i DEF Flush, TypeInv, TypeOK
      <3>2. sweep'.old = sweep.old /\ sweep'.new = sweep.new
        BY <2>4, <3>1 DEF Flush, Sweep
      <3> QED
        BY <1>2, <3>1, <3>2 DEF KeepsSharing
    <2>5. ~EndSweep /\ ~LoseSweep
      BY <1>2 DEF EndSweep, LoseSweep
    <2>6. CASE ~BeginSweep /\ ~SweepNext
      <3>1. UNCHANGED sweep
        BY <2>6, <1>i, HandlerSteps
        DEF Next, OpNext, BeginConnect, Handshake, ReadFlow, RowNext, BeginAuthorize, SetSharing,
            Disconnect, Damage, FlowExpires
      <3> QED
        BY <2>1, <3>1
    <2> QED
      BY <2>2, <2>3, <2>4, <2>5, <2>6 DEF SweepNext
  <1> QED
    BY <1>1, <1>2 DEF KeepsSharing

THEOREM StepSharingSticks ==
  Inv /\ Inv' /\ KeepsSharing /\ Next =>
    \A r \in Rows :
      (Exists(r) /\ row'[r] # NoRow /\ row'[r].shared # row[r].shared /\ used = {r}) =>
        \/ UNCHANGED <<op, sweep>>
        \/ \E o \in Ops : op[o] # Idle /\ op'[o] = Idle /\ op[o].by = "connect"
  <1> SUFFICES ASSUME Inv, Inv', KeepsSharing, Next, NEW r \in Rows, Exists(r), row'[r] # NoRow,
                      row'[r].shared # row[r].shared, used = {r}
               PROVE  \/ UNCHANGED <<op, sweep>>
                      \/ \E o \in Ops : op[o] # Idle /\ op'[o] = Idle /\ op[o].by = "connect"
    OBVIOUS
  <1>i. TypeInv /\ TypeInv' /\ Held /\ Owned /\ OneId
    BY DEF Inv, OneId
  <1>1. ASSUME NEW o \in Ops, Commits(o, r) PROVE op[o].by = "connect"
    <2>1. CASE op[o].old = NoRow
      BY <1>1, <2>1, <1>i DEF Commits, Owned, Inserts
    <2>2. CASE op[o].old # NoRow
      <3>1. row'[r] = Merge(op[o].by # "handshake", row[r], op[o].old, op[o].new)
        BY <1>1, <2>2 DEF Commits
      <3>2. op[o].new.shared # op[o].old.shared
        BY <3>1 DEF Merge
      <3> QED
        BY <1>1, <2>2, <3>2, <1>i DEF Commits, KeepsSharing
    <2> QED
      BY <2>1, <2>2
  <1>2. ~Renewed(r)
    <2> SUFFICES ASSUME Renewed(r) PROVE FALSE
      OBVIOUS
    <2>1. sweep.new[r].shared = sweep.old[r].shared
      BY Distinct DEF Renewed, KeepsSharing
    <2> QED
      BY <2>1 DEF Renewed, Merge
  <1> QED
    BY <1>i, <1>1, <1>2, RowEffects DEF Exists, Commits, Touched

\* A callback, a handshake or a renewal that overlaps with a toggle of the sharing
\* does not undo it, as long as the integration keeps its id.
THEOREM SharingIsKept == Spec => SharingSticks
  <1>1. Init => KeepsSharing
    BY DEF Init, KeepsSharing
  <1>2. Inv /\ Inv' /\ KeepsSharing /\ [Next]_vars => KeepsSharing'
    <2>1. CASE UNCHANGED vars
      BY <2>1 DEF vars, KeepsSharing, OneId
    <2> QED
      BY <2>1, StepKeepsSharing
  <1>3. Spec => []KeepsSharing
    BY <1>1, <1>2, Invariant, PTL DEF Spec
  <1>4. Inv /\ Inv' /\ KeepsSharing /\ [Next]_vars =>
          [\A r \in Rows :
            (Exists(r) /\ row'[r] # NoRow /\ row'[r].shared # row[r].shared /\ used = {r}) =>
              \/ UNCHANGED <<op, sweep>>
              \/ \E o \in Ops : op[o] # Idle /\ op'[o] = Idle /\ op[o].by = "connect"]_vars
    BY StepSharingSticks
  <1> QED
    BY <1>3, <1>4, Invariant, PTL DEF Spec, SharingSticks
-----------------------------------------------------------------------------
(* Webhooks.  A config that says it was registered goes with the webhook the  *)
(* provider was told of, wherever it is carried.                              *)

Hook(r, c) == [id |-> r, url |-> c.secret, sign |-> IF kind = "own" THEN Key ELSE c.secret]

Heard(r, c) == c.reg => kind # "handshake" /\ Hook(r, c) \in hooks

RowsHeard == \A r \in Rows : Exists(r) => Heard(r, row[r].conf)

HandlersHeard == \A o \in Ops :
  op[o] # Idle /\ op[o].pc \in {"select", "store", "register", "commit"} =>
    IF op[o].id = None THEN ~op[o].new.conf.reg ELSE Heard(op[o].id, op[o].new.conf)

SweepHeard == sweep # Idle => \A r \in Rows : sweep.old[r] # NoRow =>
  Heard(r, sweep.old[r].conf) /\ Heard(r, sweep.new[r].conf)

WebhooksHeard == kind \notin {"issued", "pubsub"} /\ OneId => RowsHeard /\ HandlersHeard /\ SweepHeard

LEMMA HooksStay == TypeInv /\ Next => kind' = kind /\ hooks \subseteq hooks'
  <1> SUFFICES ASSUME TypeInv, Next PROVE kind' = kind /\ hooks \subseteq hooks'
    OBVIOUS
  <1>1. ASSUME NEW o \in Ops, OpNext(o) PROVE kind' = kind /\ hooks \subseteq hooks'
    BY <1>1 DEF OpNext, BeginConnect, Handshake, ReadFlow, HandlerStep, Select, Store, Register,
       Call, Commit, Load, Exchange, Reload, Abort
  <1>2. ASSUME NEW r \in Rows, RowNext(r) PROVE UNCHANGED <<kind, hooks>>
    BY <1>2 DEF RowNext, BeginAuthorize, SetSharing, Disconnect, Damage
  <1>3. CASE SweepNext
    BY <1>3 DEF SweepNext, Renew, Call, Flush, EndSweep, LoseSweep
  <1> QED
    BY <1>1, <1>2, <1>3 DEF Next, FlowExpires, BeginSweep

LEMMA RegisteredFields ==
  ASSUME NEW r \in Rows, NEW conf \in Conf, NEW ok \in BOOLEAN, NEW c \in Registered(r, conf, ok)
  PROVE  /\ c.gen = conf.gen /\ c.auth = conf.auth /\ c.reg = ok
         /\ c.secret = EnsureSecret(conf) \/ (kind = "issued" /\ c.secret = Issued(conf))
  <1>1. PICK s \in {EnsureSecret(conf)} \cup IF ok /\ kind = "issued" THEN {Issued(conf)} ELSE {} :
          c = [conf EXCEPT !.secret = s, !.reg = ok]
    BY DEF Registered
  <1> QED
    BY <1>1 DEF Conf

LEMMA RegisteredHeard ==
  ASSUME kind \notin {"issued", "pubsub"}, kind' = kind, NEW r \in Rows, NEW conf \in Conf,
         NEW ok \in BOOLEAN, ok => kind # "handshake", Call(r, conf, ok),
         NEW c \in Registered(r, conf, ok)
  PROVE  c.reg => kind' # "handshake" /\ Hook(r, c) \in hooks'
  <1> SUFFICES ASSUME c.reg PROVE kind' # "handshake" /\ Hook(r, c) \in hooks'
    OBVIOUS
  <1>1. c.reg = ok /\ c.secret = EnsureSecret(conf)
    BY RegisteredFields
  <1>2. Told(r, conf) = Hook(r, c)
    <2>1. CASE kind = "own"
      BY <1>1, <2>1 DEF Told, Hook
    <2>2. CASE kind # "own"
      BY <1>1, <2>2 DEF Told, Hook
    <2> QED
      BY <2>1, <2>2
  <1>3. Told(r, conf) \in hooks'
    BY <1>1 DEF Call
  <1> QED
    BY <1>1, <1>2, <1>3

THEOREM StepWebhooksHeard == Inv /\ Inv' /\ WebhooksHeard /\ Next => WebhooksHeard'
  <1> SUFFICES ASSUME Inv, Inv', WebhooksHeard, Next, kind' \notin {"issued", "pubsub"}, OneId'
               PROVE  RowsHeard' /\ HandlersHeard' /\ SweepHeard'
    BY DEF WebhooksHeard
  <1>i. TypeInv /\ TypeInv' /\ Held /\ Owned /\ Owned'
    BY DEF Inv
  <1>n. /\ None \notin Rows /\ used \subseteq used' /\ kind' = kind /\ hooks \subseteq hooks'
        /\ OneId
    BY <1>i, UsedGrows, HooksStay, ConstantsAssumption DEF OneId
  <1>h. RowsHeard /\ HandlersHeard /\ SweepHeard /\ kind \notin {"issued", "pubsub"}
    BY <1>n DEF WebhooksHeard
  <1>1. ASSUME NEW r \in Rows, Exists(r)' PROVE Heard(r, row[r].conf)'
    <2>1. CASE row'[r] = row[r]
      BY <1>1, <1>h, <1>n, <2>1 DEF RowsHeard, Heard, Hook, Exists
    <2>2. ASSUME NEW o \in Ops, Commits(o, r) PROVE Heard(r, row[r].conf)'
      <3>1. Heard(r, op[o].new.conf)
        BY <1>h, <1>n, <2>2 DEF HandlersHeard, Commits
      <3>2. op[o].old # NoRow => Heard(r, row[r].conf)
        BY <1>h, <2>2, Distinct DEF RowsHeard, Commits, Exists
      <3>3. row'[r].conf = op[o].new.conf \/ (op[o].old # NoRow /\ row'[r].conf = row[r].conf)
        BY <2>2 DEF Commits, Merge
      <3> QED
        BY <3>1, <3>2, <3>3, <1>n DEF Heard, Hook
    <2>3. CASE Touched(r)
      BY <2>3, <1>h, <1>n, Distinct DEF Touched, RowsHeard, Exists, Heard, Hook
    <2>4. CASE Renewed(r)
      <3>1. Heard(r, row[r].conf) /\ Heard(r, sweep.new[r].conf)
        BY <2>4, <1>h, Distinct DEF Renewed, RowsHeard, SweepHeard, Exists
      <3>2. row'[r].conf \in {row[r].conf, sweep.new[r].conf}
        BY <2>4 DEF Renewed, Merge
      <3> QED
        BY <3>1, <3>2, <1>n DEF Heard, Hook
    <2> QED
      BY <1>1, <1>i, <2>1, <2>2, <2>3, <2>4, RowEffects
  <1>2. ASSUME NEW o \in Ops, op'[o] # Idle, op'[o].pc \in {"select", "store", "register", "commit"}
        PROVE  IF op'[o].id = None THEN ~op'[o].new.conf.reg
               ELSE Heard(op[o].id, op[o].new.conf)'
    <2>1. CASE op'[o] = op[o]
      BY <1>2, <1>h, <1>n, <2>1 DEF HandlersHeard, Heard, Hook
    <2>2. CASE Connects(o)
      BY <2>2 DEF Connects
    <2>3. CASE ShakesHands(o)
      <3>1. ~row[op'[o].id].conf.reg
        BY <2>3, <1>h, Distinct DEF ShakesHands, RowsHeard, Exists, Heard, Hook
      <3>2. op'[o].new.conf.reg = row[op'[o].id].conf.reg
        BY <2>3 DEF ShakesHands, Row, Conf
      <3> QED
        BY <2>3, <3>1, <3>2 DEF ShakesHands, Heard, Hook
    <2>4. CASE op[o] # Idle /\ (Selects(o) \/ StartsRow(o))
      <3>1. /\ op'[o].id \in used' /\ op'[o].new = op[o].new /\ op[o].pc = "select"
            /\ op'[o].id \in Rows /\ op'[o].pc = "store"
        BY <1>2, <2>4, <1>i, <1>n DEF Owned, Selects, StartsRow, TypeInv, TypeOK
      <3>2. CASE op[o].id = None
        BY <2>4, <3>1, <3>2, <1>h DEF HandlersHeard, Heard, Hook
      <3>3. CASE op[o].id # None
        <4>1. op[o].id \in used'
          BY <2>4, <3>3, <1>i, <1>n DEF Owned
        <4>2. op'[o].id = op[o].id
          BY <3>1, <4>1 DEF OneId
        <4>3. Heard(op[o].id, op[o].new.conf)
          BY <2>4, <3>1, <3>3, <1>h DEF HandlersHeard
        <4> QED
          BY <3>1, <3>3, <4>2, <4>3, <1>n DEF Heard, Hook
      <3> QED
        BY <3>2, <3>3
    <2>5. CASE op[o] # Idle /\ Flushes(o)
      BY <2>5, <1>h, <1>n DEF Flushes, HandlersHeard, Heard, Hook
    <2>6. CASE op[o] # Idle /\ Registers(o)
      <3>1. /\ op[o].new \in Row /\ op[o].new.conf \in Conf /\ op[o].id \in Rows
            /\ op'[o].id = op[o].id /\ op'[o].pc = "commit"
        BY <2>6, <1>i, NewIsRow DEF Registers, TypeInv, HandlerShape, Row
      <3>2. CASE op'[o].new = op[o].new
        BY <2>6, <3>1, <3>2, <1>h, <1>n DEF HandlersHeard, Heard, Hook, Registers
      <3>3. CASE op'[o].new # op[o].new
        <4>1. PICK ok \in BOOLEAN :
                /\ ok => CanRegister(op[o].id, op[o].new.cred)
                /\ Call(op[o].id, op[o].new.conf, ok)
                /\ \E c \in Registered(op[o].id, op[o].new.conf, ok) :
                     op'[o].new = [op[o].new EXCEPT !.conf = c]
          BY <2>6, <3>3 DEF Registers
        <4>2. PICK c \in Registered(op[o].id, op[o].new.conf, ok) :
                op'[o].new = [op[o].new EXCEPT !.conf = c]
          BY <4>1
        <4>3. op'[o].new.conf = c
          BY <4>2, <3>1 DEF Row
        <4>4. ok => kind # "handshake"
          BY <4>1 DEF CanRegister, Answers
        <4>5. c.reg => kind' # "handshake"
                       /\ Hook(op[o].id, c) \in hooks'
          BY <3>1, <4>1, <4>4, <1>h, <1>n, RegisteredHeard
        <4> QED
          BY <3>1, <4>3, <4>5, <1>n DEF Heard, Hook
      <3> QED
        BY <3>2, <3>3
    <2>7. CASE op[o] # Idle /\ Reloads(o)
      <3>1. op[o].old.cred \in Cred /\ op[o].id \in Rows
        BY <2>7, <1>i DEF Reloads, TypeInv, HandlerShape, Row
      <3>2. Heard(op[o].id, row[op[o].id].conf)
        BY <2>7, <3>1, <1>h, Distinct DEF Reloads, RowsHeard, Exists
      <3> QED
        BY <2>7, <3>1, <3>2, <1>n, AuthorizedFields DEF Reloads, Heard, Hook
    <2>8. ~Reads(o) /\ ~Loads(o) /\ ~Exchanges(o)
      BY <1>2 DEF Reads, Loads, Exchanges
    <2> QED
      BY <1>2, <1>i, <2>1, <2>2, <2>3, <2>4, <2>5, <2>6, <2>7, <2>8, Carries
  <1>3. ASSUME sweep' # Idle, NEW r \in Rows, sweep'.old[r] # NoRow
        PROVE  Heard(r, sweep.old[r].conf)' /\ Heard(r, sweep.new[r].conf)'
    <2>1. CASE UNCHANGED sweep
      BY <1>3, <2>1, <1>h, <1>n DEF SweepHeard, Heard, Hook
    <2>2. CASE BeginSweep
      <3>1. sweep'.old[r] = sweep'.new[r] /\ sweep'.old[r] \in {row[r], NoRow}
        BY <2>2 DEF BeginSweep, Loaded
      <3> QED
        BY <1>3, <3>1, <1>h, <1>n DEF RowsHeard, Exists, Heard, Hook
    <2>3. ASSUME NEW q \in Rows, NEW ok \in BOOLEAN, Renew(q, ok)
          PROVE  Heard(r, sweep.old[r].conf)' /\ Heard(r, sweep.new[r].conf)'
      <3>1. /\ sweep \in Sweep /\ sweep.new \in [Rows -> Row \cup {NoRow}]
            /\ sweep.old \in [Rows -> Row \cup {NoRow}]
            /\ sweep # Idle
        BY <2>3, <1>i DEF Renew, TypeInv, TypeOK, Sweep
      <3>2. /\ sweep'.old = sweep.old
            /\ \/ sweep'.new = sweep.new
               \/ /\ ok => CanRegister(q, sweep.old[q].cred)
                  /\ Call(q, sweep.old[q].conf, ok)
                  /\ \E c \in Registered(q, sweep.old[q].conf, ok) :
                       sweep'.new = [sweep.new EXCEPT ![q].conf = c]
               \/ sweep'.new = [sweep.new EXCEPT ![q].status = "error"]
        BY <2>3, <3>1 DEF Renew, Sweep
      <3>3. /\ sweep.new[r] \in Row /\ sweep.old[r] \in Row
            /\ Heard(r, sweep.old[r].conf) /\ Heard(r, sweep.new[r].conf)
        BY <1>3, <3>1, <3>2, <1>h, <1>i DEF SweepHeard, TypeInv, SweepShape
      <3>4. CASE sweep'.new[r].conf = sweep.new[r].conf
        BY <3>2, <3>3, <3>4, <1>n DEF Heard, Hook
      <3>5. ASSUME NEW c \in Registered(q, sweep.old[q].conf, ok),
                   ok => CanRegister(q, sweep.old[q].cred), Call(q, sweep.old[q].conf, ok),
                   sweep'.new = [sweep.new EXCEPT ![q].conf = c]
            PROVE  Heard(r, sweep.new[r].conf)'
        <4>1. CASE q # r
          BY <4>1, <3>1, <3>3, <3>5, <1>n DEF Heard, Hook
        <4>2. CASE q = r
          <5>1. sweep'.new[r] = [sweep.new[r] EXCEPT !.conf = c]
            BY <3>1, <3>5, <4>2
          <5>2. sweep'.new[r].conf = c /\ sweep.old[r].conf \in Conf
            BY <5>1, <3>3 DEF Row
          <5>3. ok => kind # "handshake"
            BY <3>5 DEF CanRegister, Answers
          <5>4. c.reg => kind' # "handshake"
                         /\ Hook(r, c) \in hooks'
            BY <3>5, <4>2, <5>2, <5>3, <1>h, <1>n, RegisteredHeard
          <5> QED
            BY <5>2, <5>4, <1>n DEF Heard, Hook
        <4> QED
          BY <4>1, <4>2
      <3>6. CASE sweep'.new = [sweep.new EXCEPT ![q].status = "error"]
        <4>1. sweep'.new[r] = sweep.new[r] \/ sweep'.new[r] = [sweep.new[r] EXCEPT !.status = "error"]
          BY <3>1, <3>6
        <4>2. sweep'.new[r].conf = sweep.new[r].conf
          BY <4>1, <3>3 DEF Row
        <4> QED
          BY <4>2, <3>4
      <3>7. Heard(r, sweep.old[r].conf)'
        BY <3>2, <3>3, <1>n DEF Heard, Hook
      <3> QED
        BY <3>2, <3>4, <3>5, <3>6, <3>7
    <2>4. CASE Flush
      <3>1. sweep \in Sweep /\ sweep # Idle
        BY <2>4, <1>i DEF Flush, TypeInv, TypeOK
      <3>2. sweep'.old = sweep.old /\ sweep'.new = sweep.new
        BY <2>4, <3>1 DEF Flush, Sweep
      <3> QED
        BY <1>3, <3>1, <3>2, <1>h, <1>n DEF SweepHeard, Heard, Hook
    <2>5. ~EndSweep /\ ~LoseSweep
      BY <1>3 DEF EndSweep, LoseSweep
    <2>6. CASE ~BeginSweep /\ ~SweepNext
      <3>1. UNCHANGED sweep
        BY <2>6, <1>i, HandlerSteps
        DEF Next, OpNext, BeginConnect, Handshake, ReadFlow, RowNext, BeginAuthorize, SetSharing,
            Disconnect, Damage, FlowExpires
      <3> QED
        BY <2>1, <3>1
    <2> QED
      BY <2>2, <2>3, <2>4, <2>5, <2>6 DEF SweepNext
  <1> QED
    BY <1>1, <1>2, <1>3 DEF RowsHeard, HandlersHeard, SweepHeard

\* The deliveries of a webhook that is shown as registered are accepted, for
\* providers that sign with our secret, as long as the integration keeps its id.
THEOREM RegisteredOursAreHeard == Spec => []OursAreHeard
  <1>1. Init => WebhooksHeard
    BY DEF Init, WebhooksHeard, RowsHeard, HandlersHeard, SweepHeard, Exists
  <1>2. Inv /\ Inv' /\ WebhooksHeard /\ [Next]_vars => WebhooksHeard'
    <2>1. CASE UNCHANGED vars
      BY <2>1 DEF vars, WebhooksHeard, RowsHeard, HandlersHeard, SweepHeard, Heard, Hook, Exists, OneId
    <2> QED
      BY <2>1, StepWebhooksHeard
  <1>3. WebhooksHeard => OursAreHeard
    <2> SUFFICES ASSUME WebhooksHeard, kind \notin {"issued", "pubsub"}, OneId,
                        NEW r \in Rows, Exists(r), row[r].conf.reg,
                        kind = "own" => row[r].conf.secret = Key
                 PROVE  Hears(r)
      BY DEF OursAreHeard, OneId
    <2> DEFINE h == Hook(r, row[r].conf)
    <2>1. h \in hooks
      BY DEF WebhooksHeard, RowsHeard, Heard
    <2>2. h.id = r /\ h.url = row[r].conf.secret /\ h.sign = row[r].conf.secret
      BY DEF Hook
    <2> HIDE DEF h
    <2> QED
      BY <2>1, <2>2 DEF Hears, Accepted
  <1> QED
    BY <1>1, <1>2, <1>3, Invariant, PTL DEF Spec
-----------------------------------------------------------------------------
(* The latest connect.  As long as no two transactions overlap, whoever is in *)
(* progress carries what it loaded from a row that is still the same.         *)

Alone ==
  /\ \A o, q \in Ops : op[o] # Idle /\ op[q] # Idle => o = q
  /\ sweep # Idle => \A o \in Ops : op[o] = Idle

RowsLatest == \A r \in Rows : Exists(r) =>
  /\ \A q \in Rows : Exists(q) => q = r
  /\ row[r].cred.gen = latest /\ row[r].conf.gen = latest
  /\ row[r].conf.auth => row[r].cred.token # None

Holds(h) == h.id \in Rows /\ Exists(h.id) /\ h.old = row[h.id]

HandlersLatest == \A o \in Ops : op[o] # Idle =>
  /\ op[o].by = "connect" /\ op[o].pc \in {"select", "store", "register", "commit"} =>
       /\ op[o].new.conf.gen = op[o].new.cred.gen /\ ~op[o].new.conf.auth
       /\ op[o].pc # "select" =>
            Holds(op[o]) \/ (op[o].old = NoRow /\ \A q \in Rows : ~Exists(q))
  /\ op[o].by # "connect" => op[o].by = "callback"
  /\ op[o].by = "callback" /\ op[o].pc # "load" => Holds(op[o])
  /\ op[o].by = "callback" /\ op[o].pc \in {"select", "store", "register", "commit"} =>
       /\ op[o].new.cred.gen = op[o].old.cred.gen /\ op[o].new.conf.gen = op[o].old.conf.gen
       /\ op[o].new.cred.token = op[o].new.cred.gen

SweepLatest == sweep # Idle => \A r \in Rows : sweep.old[r] # NoRow =>
  /\ sweep.old[r] = row[r]
  /\ sweep.new[r].conf.gen = row[r].conf.gen /\ sweep.new[r].conf.auth = row[r].conf.auth

LatestInv == ~overlapped => Alone /\ RowsLatest /\ HandlersLatest /\ SweepLatest

LEMMA BusyMeans == Busy <=> (sweep # Idle \/ \E o \in Ops : op[o] # Idle)
  <1> DEFINE S == {o \in Ops : op[o] # Idle}
             n == IF sweep = Idle THEN 0 ELSE 1
  <1>1. IsFiniteSet(S)
    BY ConstantsAssumption, FS_Subset
  <1>2. Cardinality(S) \in Nat /\ (Cardinality(S) = 0 <=> S = {})
    BY <1>1, FS_CardinalityType, FS_EmptySet
  <1>3. Open = Cardinality(S) + n
    BY DEF Open
  <1>4. n \in {0, 1} /\ (n = 0 <=> sweep = Idle)
    OBVIOUS
  <1>5. S = {} <=> \A o \in Ops : op[o] = Idle
    OBVIOUS
  <1> HIDE DEF S, n
  <1>6. Open = 0 <=> S = {} /\ sweep = Idle
    BY <1>2, <1>3, <1>4
  <1> QED
    BY <1>5, <1>6 DEF Busy

LEMMA StepAlone ==
  ASSUME TypeInv, TypeInv', Next, ~overlapped', ~overlapped => Alone
  PROVE  /\ ~overlapped /\ Alone'
         /\ \A o \in Ops : op'[o] # Idle => UNCHANGED <<row, latest>> /\ ~ShakesHands(o)
         /\ sweep' # Idle => UNCHANGED <<row, latest>>
  <1>t. op \in [Ops -> Op \cup {Idle}] /\ overlapped \in BOOLEAN
    BY DEF TypeInv, TypeOK
  <1>1. ASSUME NEW o \in Ops, NEW h, Begin(o, h), UNCHANGED <<row, latest, sweep>>
        PROVE  /\ ~overlapped /\ Alone' /\ UNCHANGED <<row, latest>>
    <2>1. ~overlapped /\ ~Busy
      BY <1>1 DEF Begin
    <2> QED
      BY <1>1, <2>1, <1>t, BusyMeans DEF Begin, Alone
  <1>2. ASSUME NEW o \in Ops, op[o] # Idle, HandlerStep(o)
        PROVE  /\ ~overlapped /\ Alone'
               /\ \A q \in Ops : op'[q] # Idle => UNCHANGED <<row, latest>>
               /\ sweep' = Idle
    <2>1. ~overlapped /\ UNCHANGED sweep /\ \A q \in Ops : q # o => op'[q] = op[q]
      BY <1>2, <1>t, HandlerSteps
    <2>2. Alone
      BY <2>1
    <2>3. sweep = Idle /\ \A q \in Ops : op'[q] # Idle => q = o
      BY <1>2, <2>1, <2>2 DEF Alone
    <2>4. CASE op'[o] = Idle
      BY <2>1, <2>3, <2>4 DEF Alone
    <2>5. CASE op'[o] # Idle
      <3>1. UNCHANGED <<row, latest>>
        BY <1>2, <2>5, <1>t DEF HandlerStep, Select, Store, Register, Commit, Load, Exchange,
           Reload, Abort, Advance
      <3> QED
        BY <2>1, <2>3, <3>1 DEF Alone
    <2> QED
      BY <2>4, <2>5
  <1>3. ASSUME NEW r \in Rows, RowNext(r)
        PROVE  ~overlapped /\ ~Busy /\ UNCHANGED <<op, sweep>>
    BY <1>3, <1>t DEF RowNext, BeginAuthorize, SetSharing, Disconnect, Damage, Now
  <1>4. CASE BeginSweep
    <2>1. ~overlapped /\ ~Busy /\ UNCHANGED <<op, row, latest>>
      BY <1>4 DEF BeginSweep
    <2> QED
      BY <2>1, BusyMeans DEF Alone, ShakesHands
  <1>5. CASE SweepNext
    <2>1. ~overlapped /\ UNCHANGED <<op, latest>> /\ sweep # Idle
      <3>1. ASSUME NEW r \in Rows, NEW ok \in BOOLEAN, Renew(r, ok)
            PROVE  ~overlapped /\ UNCHANGED <<op, latest>> /\ sweep # Idle
        BY <3>1 DEF Renew
      <3>2. CASE Flush
        BY <3>2 DEF Flush
      <3>3. CASE EndSweep
        BY <3>3 DEF EndSweep
      <3>4. CASE LoseSweep
        BY <3>4 DEF LoseSweep
      <3> QED
        BY <1>5, <3>1, <3>2, <3>3, <3>4 DEF SweepNext
    <2>2. \A o \in Ops : op[o] = Idle
      BY <2>1 DEF Alone
    <2>3. sweep' # Idle => UNCHANGED row
      BY <1>5 DEF SweepNext, Renew, Flush, EndSweep, LoseSweep
    <2> QED
      BY <2>1, <2>2, <2>3 DEF Alone
  <1>6. ASSUME NEW f \in Flows, FlowExpires(f)
        PROVE  ~overlapped /\ UNCHANGED <<op, sweep, row, latest>>
    BY <1>6 DEF FlowExpires
  <1>7. \A o \in Ops : ~ShakesHands(o)
    BY <1>t, BusyMeans DEF ShakesHands
  <1>8. CASE \E o \in Ops : OpNext(o)
    <2>1. PICK o \in Ops : OpNext(o)
      BY <1>8
    <2>2. CASE op[o] # Idle /\ HandlerStep(o)
      BY <1>2, <1>7, <2>2
    <2>3. CASE ~(op[o] # Idle /\ HandlerStep(o))
      <3>1. (\E h : Begin(o, h)) /\ UNCHANGED <<row, latest, sweep>>
        BY <2>1, <2>3 DEF OpNext, BeginConnect, Handshake, ReadFlow
      <3> QED
        BY <1>1, <1>7, <3>1
    <2> QED
      BY <2>2, <2>3
  <1>9. CASE \E r \in Rows : RowNext(r)
    BY <1>3, <1>9, BusyMeans DEF Alone
  <1>10. CASE \E f \in Flows : FlowExpires(f)
    BY <1>6, <1>7, <1>10 DEF Alone
  <1> QED
    BY <1>4, <1>5, <1>8, <1>9, <1>10 DEF Next

THEOREM StepLatest == Inv /\ Inv' /\ LatestInv /\ Next => LatestInv'
  <1> SUFFICES ASSUME Inv, Inv', LatestInv, Next, ~overlapped'
               PROVE  Alone' /\ RowsLatest' /\ HandlersLatest' /\ SweepLatest'
    BY DEF LatestInv
  <1>i. TypeInv /\ TypeInv' /\ Held
    BY DEF Inv
  <1>a. /\ ~overlapped /\ Alone'
        /\ \A o \in Ops : op'[o] # Idle => UNCHANGED <<row, latest>> /\ ~ShakesHands(o)
        /\ sweep' # Idle => UNCHANGED <<row, latest>>
    BY <1>i, StepAlone DEF LatestInv
  <1>h. Alone /\ RowsLatest /\ HandlersLatest /\ SweepLatest
    BY <1>a DEF LatestInv
  <1>t. /\ row \in [Rows -> Row \cup {NoRow}] /\ row' \in [Rows -> Row \cup {NoRow}]
        /\ op \in [Ops -> Op \cup {Idle}] /\ None \notin Gens
    BY <1>i, ConstantsAssumption DEF TypeInv, TypeOK
  <1>1. ASSUME NEW o \in Ops, op'[o] # Idle
        PROVE  /\ op'[o].by = "connect" /\ op'[o].pc \in {"select", "store", "register", "commit"} =>
                    /\ op'[o].new.conf.gen = op'[o].new.cred.gen /\ ~op'[o].new.conf.auth
                    /\ op'[o].pc # "select" =>
                         \/ op'[o].id \in Rows /\ Exists(op[o].id)' /\ op'[o].old = row'[op'[o].id]
                         \/ op'[o].old = NoRow /\ \A q \in Rows : ~Exists(q)'
               /\ op'[o].by # "connect" => op'[o].by = "callback"
               /\ op'[o].by = "callback" /\ op'[o].pc # "load" =>
                    op'[o].id \in Rows /\ Exists(op[o].id)' /\ op'[o].old = row'[op'[o].id]
               /\ op'[o].by = "callback" /\ op'[o].pc \in {"select", "store", "register", "commit"} =>
                    /\ op'[o].new.cred.gen = op'[o].old.cred.gen
                    /\ op'[o].new.conf.gen = op'[o].old.conf.gen
                    /\ op'[o].new.cred.token = op'[o].new.cred.gen
    <2>0. UNCHANGED <<row, latest>>
      BY <1>1, <1>a
    <2>1. CASE op'[o] = op[o]
      BY <1>1, <1>h, <2>0, <2>1 DEF HandlersLatest, Holds, Exists
    <2>2. CASE Connects(o)
      BY <2>2 DEF Connects
    <2>3. CASE Reads(o)
      BY <2>3 DEF Reads
    <2>4. CASE op[o] # Idle /\ Selects(o)
      <3>1. HandlerShape(op[o]) /\ op[o].pc = "select"
        BY <2>4, <1>i DEF TypeInv, Selects
      <3>2. Exists(op'[o].id)
        BY <2>4, Distinct DEF Selects, Exists
      <3>3. CASE op[o].by = "connect"
        <4>1. op[o].id = None /\ op'[o].old = row[op'[o].id]
          BY <2>4, <3>1, <3>3, ConstantsAssumption DEF Selects, HandlerShape
        <4> QED
          BY <2>4, <3>1, <3>2, <3>3, <4>1, <1>h, <2>0 DEF Selects, HandlersLatest, Exists
      <3>4. CASE op[o].by = "callback"
        <4>1. Holds(op[o])
          BY <2>4, <3>1, <3>4, <1>h DEF HandlersLatest
        <4>2. op'[o].id = op[o].id /\ op'[o].old = op[o].old
          BY <2>4, <3>2, <4>1, <1>h DEF Selects, Holds, RowsLatest
        <4> QED
          BY <2>4, <3>1, <3>4, <4>1, <4>2, <1>h, <2>0 DEF Selects, HandlersLatest, Holds, Exists
      <3> QED
        BY <3>1, <3>3, <3>4 DEF HandlerShape
    <2>5. CASE op[o] # Idle /\ StartsRow(o)
      <3>1. HandlerShape(op[o]) /\ op[o].pc = "select"
        BY <2>5, <1>i DEF TypeInv, StartsRow
      <3>2. op[o].by # "callback"
        BY <2>5, <3>1, <1>h DEF StartsRow, HandlersLatest, Holds
      <3>3. op[o].by = "connect"
        BY <3>1, <3>2 DEF HandlerShape
      <3> QED
        BY <2>5, <3>1, <3>3, <1>h, <2>0 DEF StartsRow, HandlersLatest, Exists
    <2>6. CASE op[o] # Idle /\ Flushes(o)
      BY <2>6, <1>h, <2>0 DEF Flushes, HandlersLatest, Holds, Exists
    <2>7. CASE op[o] # Idle /\ Registers(o)
      <3>1. op[o].new \in Row /\ op[o].new.conf \in Conf /\ op[o].id \in Rows
        BY <2>7, <1>i, NewIsRow DEF Registers, TypeInv, HandlerShape, Row
      <3>2. /\ op'[o].new.cred = op[o].new.cred /\ op'[o].new.conf.gen = op[o].new.conf.gen
            /\ op'[o].new.conf.auth = op[o].new.conf.auth
        <4>1. CASE op'[o].new = op[o].new
          BY <4>1
        <4>2. ASSUME NEW ok \in BOOLEAN, NEW c \in Registered(op[o].id, op[o].new.conf, ok),
                     op'[o].new = [op[o].new EXCEPT !.conf = c]
              PROVE  /\ op'[o].new.cred = op[o].new.cred
                     /\ op'[o].new.conf.gen = op[o].new.conf.gen
                     /\ op'[o].new.conf.auth = op[o].new.conf.auth
          <5>1. c.gen = op[o].new.conf.gen /\ c.auth = op[o].new.conf.auth
            BY <3>1, RegisteredFields
          <5> QED
            BY <4>2, <5>1, <3>1 DEF Row
        <4> QED
          BY <2>7, <4>1, <4>2 DEF Registers
      <3> QED
        BY <2>7, <3>2, <1>h, <2>0 DEF Registers, HandlersLatest, Holds, Exists
    <2>8. CASE op[o] # Idle /\ Loads(o)
      <3>1. op[o].id \in Rows /\ op[o].by = "callback" /\ op[o].pc = "load"
        BY <2>8, <1>i DEF Loads, TypeInv, HandlerShape
      <3> QED
        BY <2>8, <3>1, <2>0, Distinct DEF Loads, Exists
    <2>9. CASE op[o] # Idle /\ Exchanges(o)
      <3>1. op[o].by = "callback" /\ op[o].pc = "exchange"
        BY <2>9, <1>i DEF Exchanges, TypeInv, HandlerShape
      <3>2. Holds(op[o])
        BY <2>9, <3>1, <1>h DEF HandlersLatest
      <3> QED
        BY <2>9, <3>1, <3>2, <2>0 DEF Exchanges, Holds, Exists
    <2>10. CASE op[o] # Idle /\ Reloads(o)
      <3>1. op[o].by = "callback" /\ op[o].pc = "reload" /\ op[o].old \in Row
            /\ op[o].old.cred \in Cred
        BY <2>10, <1>i DEF Reloads, TypeInv, HandlerShape, Row
      <3>2. Holds(op[o])
        BY <2>10, <3>1, <1>h DEF HandlersLatest
      <3>3. op'[o].old = op[o].old /\ op'[o].new = Authorized(op[o].old.cred, op[o].old)
        BY <2>10, <3>2 DEF Reloads, Holds
      <3> QED
        BY <2>10, <3>1, <3>2, <3>3, <2>0, AuthorizedFields DEF Reloads, Holds, Exists
    <2> QED
      BY <1>1, <1>a, <1>i, <2>1, <2>2, <2>3, <2>4, <2>5, <2>6, <2>7, <2>8, <2>9, <2>10, Carries
  <1>2. HandlersLatest'
    BY <1>1 DEF HandlersLatest, Holds
  <1>3. ASSUME NEW r \in Rows, Exists(r)'
        PROVE  /\ \A q \in Rows : Exists(q)' => q = r
               /\ row'[r].cred.gen = latest' /\ row'[r].conf.gen = latest'
               /\ row'[r].conf.auth => row'[r].cred.token # None
    <2>1. CASE UNCHANGED <<row, latest>>
      BY <1>3, <1>h, <2>1 DEF RowsLatest, Exists
    <2>2. ASSUME NEW o \in Ops, NEW q \in Rows, Commits(o, q)
          PROVE  /\ q = r /\ \A s \in Rows : Exists(s)' => s = r
                 /\ row'[r].cred.gen = latest' /\ row'[r].conf.gen = latest'
                 /\ row'[r].conf.auth => row'[r].cred.token # None
      <3>1. op[o] # Idle /\ op[o].pc = "commit" /\ op[o].id = q /\ op[o].new \in Row
        BY <2>2, <1>i, NewIsRow DEF Commits
      <3>2. Holds(op[o]) \/ (op[o].by = "connect" /\ op[o].old = NoRow /\ \A s \in Rows : ~Exists(s))
        BY <3>1, <1>h DEF HandlersLatest
      <3>3. \A s \in Rows : Exists(s)' => s = q
        BY <2>2, <3>1, <3>2, <1>h DEF Commits, Holds, RowsLatest, Exists
      <3>4. q = r
        BY <1>3, <3>3
      <3>5. row'[r].cred = op[o].new.cred /\ row'[r].conf = op[o].new.conf
        <4>1. CASE op[o].old = NoRow
          BY <2>2, <3>4, <4>1 DEF Commits
        <4>2. CASE op[o].old # NoRow
          <5>1. op[o].by # "handshake" /\ op[o].old = row[r]
            BY <3>1, <3>2, <3>4, <4>2, <1>h DEF HandlersLatest, Holds
          <5>2. row'[r] = Merge(TRUE, row[r], op[o].old, op[o].new)
            BY <2>2, <3>4, <4>2, <5>1 DEF Commits
          <5> QED
            BY <5>1, <5>2 DEF Merge
        <4> QED
          BY <4>1, <4>2
      <3>6. CASE op[o].by = "connect"
        <4>1. latest' = op[o].new.cred.gen
          BY <2>2, <3>6 DEF Commits
        <4> QED
          BY <3>1, <3>3, <3>4, <3>5, <3>6, <4>1, <1>h DEF HandlersLatest
      <3>7. CASE op[o].by # "connect"
        <4>1. op[o].by = "callback" /\ latest' = latest
          BY <2>2, <3>1, <3>7, <1>h DEF Commits, HandlersLatest
        <4>2. Exists(r) /\ op[o].old = row[r]
          BY <3>2, <3>1, <3>4, <3>7 DEF Holds
        <4>3. op[o].new.cred.gen = latest /\ op[o].new.conf.gen = latest
              /\ op[o].new.cred.token = op[o].new.cred.gen
          BY <3>1, <4>1, <4>2, <1>h DEF HandlersLatest, RowsLatest
        <4>4. op[o].new.cred.gen \in Gens
          BY <3>1 DEF Row, Cred
        <4> QED
          BY <3>3, <3>4, <3>5, <4>1, <4>3, <4>4, <1>t
      <3> QED
        BY <3>3, <3>4, <3>6, <3>7
    <2>3. CASE (\E q \in Rows : RowNext(q)) \/ EndSweep
      <3>1. \A s \in Rows : Exists(s)' => Exists(s)
        <4>1. ASSUME NEW s \in Rows, Exists(s)', ~Exists(s) PROVE FALSE
          <5>1. PICK o \in Ops : op[o] # Idle /\ Commit(o)
            BY <4>1, <1>i, RowsChange
          <5>2. op'[o] = Idle
            BY <5>1, <1>t DEF Commit, Advance
          <5>3. CASE EndSweep
            BY <5>1, <5>2, <5>3 DEF EndSweep
          <5>4. CASE \E q \in Rows : RowNext(q)
            BY <5>1, <5>2, <5>4
            DEF RowNext, BeginAuthorize, SetSharing, Disconnect, Damage, Now
          <5> QED
            BY <2>3, <5>3, <5>4
        <4> QED
          BY <4>1
      <3>2. Exists(r) /\ \A s \in Rows : Exists(s)' => s = r
        BY <1>3, <3>1, <1>h DEF RowsLatest
      <3>3. latest' = latest
        <4>1. \A q \in Rows : ~Disconnect(q)
          BY <1>3, <3>2, <1>h, <1>t DEF Disconnect, RowsLatest, Exists
        <4> QED
          BY <2>3, <4>1 DEF RowNext, BeginAuthorize, SetSharing, Damage, EndSweep
      <3>4. UNCHANGED op
        BY <2>3 DEF RowNext, BeginAuthorize, SetSharing, Disconnect, Damage, Now, EndSweep
      <3>5. \A o \in Ops : ~Commits(o, r)
        BY <3>4 DEF Commits
      <3>6. CASE row'[r] = row[r]
        BY <3>2, <3>3, <3>6, <1>h DEF RowsLatest
      <3>7. CASE Touched(r)
        BY <3>2, <3>3, <3>7, <1>h DEF RowsLatest, Touched
      <3>8. CASE Renewed(r)
        <4>1. /\ sweep.old[r] = row[r] /\ sweep.new[r].conf.gen = row[r].conf.gen
              /\ sweep.new[r].conf.auth = row[r].conf.auth
          BY <3>8, <1>h, Distinct DEF Renewed, SweepLatest
        <4>2. row'[r].cred = row[r].cred /\ row'[r].conf \in {row[r].conf, sweep.new[r].conf}
          BY <3>8 DEF Renewed, Merge
        <4> QED
          BY <3>2, <3>3, <4>1, <4>2, <1>h DEF RowsLatest
      <3> QED
        BY <1>3, <1>i, <3>5, <3>6, <3>7, <3>8, RowEffects
    <2>4. CASE \E o \in Ops : op[o] # Idle /\ Commit(o)
      <3>1. PICK o \in Ops : op[o] # Idle /\ Commit(o)
        BY <2>4
      <3>2. op[o].pc = "commit" /\ op[o].id \in Rows
        BY <3>1, <1>i DEF Commit, TypeInv, HandlerShape
      <3>3. op[o].old # NoRow => row[op[o].id] \in Row
        BY <3>1, <3>2, <1>i, <1>t DEF Held, Exists
      <3>4. Commits(o, op[o].id)
        BY <3>1, <3>2, <3>3, <1>t DEF Commit, Commits, Advance
      <3> QED
        BY <2>2, <3>2, <3>4
    <2>5. CASE ~(\E q \in Rows : RowNext(q)) /\ ~EndSweep /\ ~(\E o \in Ops : op[o] # Idle /\ Commit(o))
      <3>1. UNCHANGED <<row, latest>>
        BY <2>5
        DEF Next, OpNext, BeginConnect, Handshake, ReadFlow, HandlerStep, Select, Store, Register,
            Load, Exchange, Reload, Abort, FlowExpires, BeginSweep, SweepNext, Renew, Flush, LoseSweep
      <3> QED
        BY <2>1, <3>1
    <2> QED
      BY <2>3, <2>4, <2>5
  <1>4. ASSUME sweep' # Idle, NEW r \in Rows, sweep'.old[r] # NoRow
        PROVE  /\ sweep'.old[r] = row'[r]
               /\ sweep'.new[r].conf.gen = row'[r].conf.gen
               /\ sweep'.new[r].conf.auth = row'[r].conf.auth
    <2>0. UNCHANGED row
      BY <1>4, <1>a
    <2>1. CASE UNCHANGED sweep
      BY <1>4, <1>h, <2>0, <2>1 DEF SweepLatest
    <2>2. CASE BeginSweep
      BY <1>4, <2>0, <2>2 DEF BeginSweep, Loaded
    <2>3. ASSUME NEW q \in Rows, NEW ok \in BOOLEAN, Renew(q, ok)
          PROVE  /\ sweep'.old[r] = row'[r]
                 /\ sweep'.new[r].conf.gen = row'[r].conf.gen
                 /\ sweep'.new[r].conf.auth = row'[r].conf.auth
      <3>1. /\ sweep \in Sweep /\ sweep.new \in [Rows -> Row \cup {NoRow}]
            /\ sweep.old \in [Rows -> Row \cup {NoRow}]
            /\ sweep # Idle /\ sweep.old[q] # NoRow
        BY <2>3, <1>i DEF Renew, TypeInv, TypeOK, Sweep, SweepShape
      <3>2. /\ sweep'.old = sweep.old
            /\ \/ sweep'.new = sweep.new
               \/ \E c \in Registered(q, sweep.old[q].conf, ok) :
                    sweep'.new = [sweep.new EXCEPT ![q].conf = c]
               \/ sweep'.new = [sweep.new EXCEPT ![q].status = "error"]
        BY <2>3, <3>1 DEF Renew, Sweep
      <3>3. /\ sweep.new[r] \in Row /\ sweep.old[r] = row[r]
            /\ sweep.new[r].conf.gen = row[r].conf.gen /\ sweep.new[r].conf.auth = row[r].conf.auth
        BY <1>4, <3>1, <3>2, <1>h, <1>i DEF SweepLatest, TypeInv, SweepShape
      <3>4. CASE sweep'.new[r].conf = sweep.new[r].conf
        BY <3>2, <3>3, <3>4, <2>0
      <3>5. ASSUME NEW c \in Registered(q, sweep.old[q].conf, ok),
                   sweep'.new = [sweep.new EXCEPT ![q].conf = c]
            PROVE  /\ sweep'.new[r].conf.gen = row'[r].conf.gen
                   /\ sweep'.new[r].conf.auth = row'[r].conf.auth
        <4>1. CASE q # r
          BY <4>1, <3>1, <3>3, <3>5, <2>0
        <4>2. CASE q = r
          <5>1. sweep'.new[r] = [sweep.new[r] EXCEPT !.conf = c]
            BY <3>1, <3>5, <4>2
          <5>2. sweep'.new[r].conf = c
            BY <5>1, <3>3 DEF Row
          <5>3. sweep.old[r].conf \in Conf
            BY <3>1, <4>2 DEF Row
          <5>4. c.gen = sweep.old[r].conf.gen /\ c.auth = sweep.old[r].conf.auth
            BY <3>5, <4>2, <5>3, RegisteredFields
          <5> QED
            BY <5>2, <5>4, <3>3, <2>0
        <4> QED
          BY <4>1, <4>2
      <3>6. CASE sweep'.new = [sweep.new EXCEPT ![q].status = "error"]
        <4>1. sweep'.new[r] = sweep.new[r] \/ sweep'.new[r] = [sweep.new[r] EXCEPT !.status = "error"]
          BY <3>1, <3>6
        <4>2. sweep'.new[r].conf = sweep.new[r].conf
          BY <4>1, <3>3 DEF Row
        <4> QED
          BY <4>2, <3>4
      <3> QED
        BY <3>2, <3>3, <3>4, <3>5, <3>6, <2>0
    <2>4. CASE Flush
      <3>1. sweep \in Sweep /\ sweep # Idle
        BY <2>4, <1>i DEF Flush, TypeInv, TypeOK
      <3>2. sweep'.old = sweep.old /\ sweep'.new = sweep.new
        BY <2>4, <3>1 DEF Flush, Sweep
      <3> QED
        BY <1>4, <3>1, <3>2, <1>h, <2>0 DEF SweepLatest
    <2>5. ~EndSweep /\ ~LoseSweep
      BY <1>4 DEF EndSweep, LoseSweep
    <2>6. CASE ~BeginSweep /\ ~SweepNext
      <3>1. UNCHANGED sweep
        BY <2>6, <1>i, HandlerSteps
        DEF Next, OpNext, BeginConnect, Handshake, ReadFlow, RowNext, BeginAuthorize, SetSharing,
            Disconnect, Damage, FlowExpires
      <3> QED
        BY <2>1, <3>1
    <2> QED
      BY <2>2, <2>3, <2>4, <2>5, <2>6 DEF SweepNext
  <1> QED
    BY <1>a, <1>2, <1>3, <1>4 DEF RowsLatest, SweepLatest

\* As long as no two transactions overlap, there is at most one row, it holds what
\* the last answered connect had entered, and it is shown as authorized only with
\* a refresh token.
THEOREM SerialRowIsLatest == Spec => []RowIsLatest
  <1>1. Init => LatestInv
    BY DEF Init, LatestInv, Alone, RowsLatest, HandlersLatest, SweepLatest, Exists
  <1>2. Inv /\ Inv' /\ LatestInv /\ [Next]_vars => LatestInv'
    <2>1. CASE UNCHANGED vars
      BY <2>1 DEF vars, LatestInv, Alone, RowsLatest, HandlersLatest, SweepLatest, Holds, Exists
    <2> QED
      BY <2>1, StepLatest
  <1>3. LatestInv => RowIsLatest
    BY DEF LatestInv, RowsLatest, RowIsLatest
  <1> QED
    BY <1>1, <1>2, <1>3, Invariant, PTL DEF Spec

-----------------------------------------------------------------------------
(* Connection.  What the handlers carry, whatever overlaps, and what it       *)
(* amounts to while nothing does.                                             *)

\* A callback has the flow it took, and the code once it is redeemed.
FlowShape(o) == op[o].by = "callback" =>
  /\ op[o].pc # "register"
  /\ op[o].flow \in Flows /\ flow[op[o].flow] # None
  /\ op[o].pc # "load" => flow[op[o].flow] = "gone"
  /\ op[o].pc \notin {"load", "exchange"} => code[op[o].flow] = None

\* A connect carries nothing but what was entered.
EnteredShape(o) == op[o].by = "connect" =>
  /\ op[o].new.cred.token \in {op[o].new.cred.gen, None} /\ op[o].new.cred.sound
  /\ op[o].new.conf.gen = op[o].new.cred.gen /\ ~op[o].new.conf.auth
  /\ op[o].new.status = "active"

HandlersCarry == \A o \in Ops : op[o] # Idle => FlowShape(o) /\ EnteredShape(o)

\* A renewal shows at most that the credentials cannot be decrypted.
SweepShows == sweep # Idle => \A r \in Rows : sweep.old[r] # NoRow =>
  /\ sweep.new[r].shared = sweep.old[r].shared
  /\ \/ sweep.new[r].status = sweep.old[r].status
     \/ sweep.new[r].status = "error" /\ ~sweep.old[r].cred.sound

\* A callback adds the tokens to what it loaded.
Adds(o) == op[o].by = "callback" /\ op[o].pc # "load" =>
  /\ op[o].old.cred.sound
  /\ op[o].pc \notin {"exchange", "reload"} =>
       op[o].new = Authorized(op[o].old.cred, op[o].old)

CarryInv ==
  /\ HandlersCarry /\ SweepShows
  /\ ~overlapped => \A o \in Ops : op[o] # Idle => Adds(o)

\* A flow that was begun is not begun again, and its code only goes.
LEMMA FlowsPass ==
  ASSUME TypeInv, HandlersCarry, Next, NEW f \in Flows
  PROVE  /\ flow[f] # None => flow'[f] \in {flow[f], "gone"} /\ code'[f] \in {code[f], None}
         /\ (\A r \in Rows : ~BeginAuthorize(f, r)) =>
              flow'[f] \in {flow[f], "gone"} /\ code'[f] \in {code[f], None}
  <1>t. flow \in [Flows -> Rows \cup {None, "gone"}] /\ code \in [Flows -> Gens \cup {None}]
    BY DEF TypeInv, TypeOK
  <1>1. ASSUME NEW g \in Flows, NEW r \in Rows, BeginAuthorize(g, r)
        PROVE  /\ g # f => flow'[f] = flow[f] /\ code'[f] = code[f]
               /\ flow[g] = None
    BY <1>1, <1>t DEF BeginAuthorize
  <1>2. ASSUME NEW g \in Flows, FlowExpires(g) PROVE flow'[f] \in {flow[f], "gone"} /\ code' = code
    BY <1>2, <1>t DEF FlowExpires
  <1>3. ASSUME NEW o \in Ops, op[o] # Idle, Load(o)
        PROVE  flow'[f] \in {flow[f], "gone"} /\ code' = code
    BY <1>3, <1>t DEF Load
  <1>4. ASSUME NEW o \in Ops, op[o] # Idle, Exchange(o)
        PROVE  flow' = flow /\ code'[f] \in {code[f], None}
    BY <1>4, <1>t DEF Exchange
  <1>5. ASSUME ~\E g \in Flows, r \in Rows : BeginAuthorize(g, r),
               ~\E g \in Flows : FlowExpires(g),
               ~\E o \in Ops : op[o] # Idle /\ (Load(o) \/ Exchange(o))
        PROVE  flow' = flow /\ code' = code
    BY <1>5
    DEF Next, OpNext, BeginConnect, Handshake, ReadFlow, HandlerStep, Select, Store, Register,
        Commit, Reload, Abort, RowNext, SetSharing, Disconnect, Damage, BeginSweep, SweepNext,
        Renew, Flush, EndSweep, LoseSweep
  <1> QED
    BY <1>1, <1>2, <1>3, <1>4, <1>5

LEMMA StepFlowShape ==
  ASSUME TypeInv, HandlersCarry, Next, NEW o \in Ops, op'[o] # Idle
  PROVE  FlowShape(o)'
  <1>t. /\ op \in [Ops -> Op \cup {Idle}] /\ flow \in [Flows -> Rows \cup {None, "gone"}]
        /\ code \in [Flows -> Gens \cup {None}] /\ None # "gone" /\ None \notin Rows
    BY ConstantsAssumption DEF TypeInv, TypeOK
  <1>1. ASSUME op[o] # Idle, op'[o].by = op[o].by, op'[o].flow = op[o].flow, op'[o].pc # "register",
               op'[o].pc # "load" => op[o].pc # "load" \/ flow'[op[o].flow] = "gone",
               op'[o].pc \notin {"load", "exchange"} =>
                 op[o].pc \notin {"load", "exchange"} \/ code'[op[o].flow] = None
        PROVE  FlowShape(o)'
    <2>1. CASE op'[o].by = "callback"
      <3>1. op[o].flow \in Flows /\ flow[op[o].flow] # None
        BY <1>1, <2>1 DEF HandlersCarry, FlowShape
      <3>2. flow'[op[o].flow] \in {flow[op[o].flow], "gone"}
            /\ code'[op[o].flow] \in {code[op[o].flow], None}
        BY <3>1, FlowsPass
      <3>3. flow'[op[o].flow] # None
        BY <3>1, <3>2, <1>t
      <3>4. op'[o].pc # "load" => flow'[op[o].flow] = "gone"
        BY <1>1, <2>1, <3>2 DEF HandlersCarry, FlowShape
      <3>5. op'[o].pc \notin {"load", "exchange"} => code'[op[o].flow] = None
        BY <1>1, <2>1, <3>2 DEF HandlersCarry, FlowShape
      <3> QED
        BY <1>1, <3>1, <3>3, <3>4, <3>5 DEF FlowShape
    <2> QED
      BY <2>1 DEF FlowShape
  <1>2. CASE op'[o] = op[o]
    BY <1>1, <1>2 DEF HandlersCarry, FlowShape
  <1>3. CASE Connects(o) \/ ShakesHands(o)
    BY <1>3 DEF Connects, ShakesHands, FlowShape
  <1>4. CASE Reads(o)
    <2>1. op'[o].flow \in Flows /\ flow[op'[o].flow] # None
      BY <1>4, <1>t DEF Reads
    <2>2. flow'[op'[o].flow] # None
      BY <2>1, <1>t, FlowsPass
    <2> QED
      BY <1>4, <2>1, <2>2 DEF Reads, FlowShape
  <1>5. CASE op[o] # Idle /\ (Selects(o) \/ StartsRow(o) \/ Flushes(o) \/ Registers(o))
    <2>1. CASE op'[o].by = "connect"
      BY <2>1 DEF FlowShape
    <2>2. CASE op'[o].by # "connect"
      BY <1>1, <1>5, <2>2 DEF Selects, StartsRow, Flushes, Registers
    <2> QED
      BY <2>1, <2>2
  <1>6. CASE op[o] # Idle /\ Loads(o)
    <2>1. HandlerShape(op[o])
      BY <1>6 DEF TypeInv
    <2>2. flow'[op[o].flow] = "gone"
      BY <1>6, <2>1, <1>t DEF Loads, HandlerShape
    <2> QED
      BY <1>1, <1>6, <2>2 DEF Loads
  <1>7. CASE op[o] # Idle /\ Exchanges(o)
    <2>1. HandlerShape(op[o])
      BY <1>7 DEF TypeInv
    <2>2. code'[op[o].flow] = None
      BY <1>7, <2>1, <1>t DEF Exchanges, HandlerShape
    <2> QED
      BY <1>1, <1>7, <2>2 DEF Exchanges
  <1>8. CASE op[o] # Idle /\ Reloads(o)
    BY <1>1, <1>8 DEF Reloads
  <1> QED
    BY <1>2, <1>3, <1>4, <1>5, <1>6, <1>7, <1>8, Carries

\* What a registration leaves of what is written.
LEMMA RegistersConf ==
  ASSUME TypeInv, NEW o \in Ops, op[o] # Idle, Registers(o)
  PROVE  /\ op'[o].new.cred = op[o].new.cred /\ op'[o].new.status = op[o].new.status
         /\ op'[o].new.conf.gen = op[o].new.conf.gen /\ op'[o].new.conf.auth = op[o].new.conf.auth
  <1>1. op[o].new \in Row /\ op[o].new.conf \in Conf /\ op[o].id \in Rows
    BY NewIsRow DEF Registers, TypeInv, HandlerShape, Row
  <1>2. CASE op'[o].new = op[o].new
    BY <1>2
  <1>3. ASSUME NEW ok \in BOOLEAN, NEW c \in Registered(op[o].id, op[o].new.conf, ok),
               op'[o].new = [op[o].new EXCEPT !.conf = c]
        PROVE  /\ op'[o].new.cred = op[o].new.cred /\ op'[o].new.status = op[o].new.status
               /\ op'[o].new.conf.gen = op[o].new.conf.gen
               /\ op'[o].new.conf.auth = op[o].new.conf.auth
    <2>1. c.gen = op[o].new.conf.gen /\ c.auth = op[o].new.conf.auth
      BY <1>1, RegisteredFields
    <2> QED
      BY <1>1, <1>3, <2>1 DEF Row
  <1> QED
    BY <1>2, <1>3 DEF Registers

LEMMA StepEnteredShape ==
  ASSUME TypeInv, HandlersCarry, Next, NEW o \in Ops, op'[o] # Idle
  PROVE  EnteredShape(o)'
  <1>1. CASE op'[o] = op[o]
    BY <1>1 DEF HandlersCarry, EnteredShape
  <1>2. CASE Connects(o)
    BY <1>2 DEF Connects, EnteredShape
  <1>3. CASE ShakesHands(o) \/ Reads(o)
    BY <1>3 DEF ShakesHands, Reads, EnteredShape
  <1>4. CASE op[o] # Idle /\ (Selects(o) \/ StartsRow(o) \/ Flushes(o))
    BY <1>4 DEF Selects, StartsRow, Flushes, HandlersCarry, EnteredShape
  <1>5. CASE op[o] # Idle /\ Registers(o)
    BY <1>5, RegistersConf DEF Registers, HandlersCarry, EnteredShape
  <1>6. CASE op[o] # Idle /\ (Loads(o) \/ Exchanges(o) \/ Reloads(o))
    BY <1>6 DEF Loads, Exchanges, Reloads, TypeInv, HandlerShape, EnteredShape
  <1> QED
    BY <1>1, <1>2, <1>3, <1>4, <1>5, <1>6, Carries

LEMMA StepSweepShows ==
  ASSUME TypeInv, SweepShows, Next
  PROVE  SweepShows'
  <1>1. CASE UNCHANGED sweep
    BY <1>1 DEF SweepShows
  <1>2. CASE BeginSweep
    BY <1>2 DEF BeginSweep, Loaded, SweepShows
  <1>3. ASSUME NEW q \in Rows, NEW ok \in BOOLEAN, Renew(q, ok) PROVE SweepShows'
    <2>1. /\ sweep \in Sweep /\ sweep.new \in [Rows -> Row \cup {NoRow}]
          /\ sweep # Idle /\ sweep.new[q] \in Row
      BY <1>3 DEF Renew, TypeInv, TypeOK, Sweep, SweepShape
    <2>2. /\ sweep'.old = sweep.old
          /\ \/ sweep'.new = sweep.new
             \/ \E c : sweep'.new = [sweep.new EXCEPT ![q].conf = c]
             \/ sweep'.new = [sweep.new EXCEPT ![q].status = "error"] /\ ~sweep.old[q].cred.sound
      BY <1>3, <2>1 DEF Renew, Sweep
    <2>3. ASSUME NEW r \in Rows, sweep.old[r] # NoRow
          PROVE  /\ sweep'.new[r].shared = sweep.new[r].shared
                 /\ \/ sweep'.new[r].status = sweep.new[r].status
                    \/ sweep'.new[r].status = "error" /\ ~sweep.old[r].cred.sound
      <3>1. CASE r # q
        <4>1. sweep'.new[r] = sweep.new[r]
          BY <2>1, <2>2, <3>1
        <4> QED
          BY <4>1
      <3>2. CASE r = q
        <4>1. \/ sweep'.new[r] = sweep.new[r]
              \/ \E c : sweep'.new[r] = [sweep.new[r] EXCEPT !.conf = c]
              \/ sweep'.new[r] = [sweep.new[r] EXCEPT !.status = "error"] /\ ~sweep.old[r].cred.sound
          BY <2>1, <2>2, <3>2
        <4> QED
          BY <2>1, <3>2, <4>1 DEF Row
      <3> QED
        BY <3>1, <3>2
    <2> QED
      BY <2>1, <2>2, <2>3 DEF SweepShows
  <1>4. CASE Flush
    <2>1. sweep \in Sweep /\ sweep # Idle
      BY <1>4 DEF Flush, TypeInv, TypeOK
    <2>2. sweep'.old = sweep.old /\ sweep'.new = sweep.new
      BY <1>4, <2>1 DEF Flush, Sweep
    <2> QED
      BY <2>1, <2>2 DEF SweepShows
  <1>5. CASE EndSweep \/ LoseSweep
    BY <1>5 DEF EndSweep, LoseSweep, SweepShows
  <1>6. CASE ~BeginSweep /\ ~SweepNext
    <2>1. UNCHANGED sweep
      BY <1>6, HandlerSteps
      DEF Next, OpNext, BeginConnect, Handshake, ReadFlow, RowNext, BeginAuthorize, SetSharing,
          Disconnect, Damage, FlowExpires
    <2> QED
      BY <1>1, <2>1
  <1> QED
    BY <1>2, <1>3, <1>4, <1>5, <1>6 DEF SweepNext

\* A callback that selects finds the row it loaded.
LEMMA SelectsSame ==
  ASSUME TypeInv, RowsLatest, HandlersLatest, NEW o \in Ops, op[o] # Idle, op[o].by = "callback"
  PROVE  /\ Selects(o) => op'[o].id = op[o].id /\ op'[o].old = op[o].old
         /\ ~StartsRow(o)
  <1>1. ASSUME Selects(o) \/ StartsRow(o) PROVE Holds(op[o])
    BY <1>1 DEF Selects, StartsRow, HandlersLatest
  <1>2. ASSUME Selects(o) PROVE op'[o].id = op[o].id
    <2>1. Exists(op'[o].id)
      BY <1>2, Distinct DEF Selects, Exists
    <2> QED
      BY <1>1, <1>2, <2>1 DEF Holds, RowsLatest, Selects
  <1> QED
    BY <1>1, <1>2 DEF Selects, StartsRow, Holds

LEMMA StepAdds ==
  ASSUME TypeInv, HandlersCarry, RowsLatest, HandlersLatest, Next,
         \A o \in Ops : op[o] # Idle => Adds(o), NEW o \in Ops, op'[o] # Idle
  PROVE  Adds(o)'
  <1>1. CASE op'[o] = op[o]
    BY <1>1 DEF Adds
  <1>2. CASE Connects(o) \/ ShakesHands(o) \/ Reads(o)
    BY <1>2 DEF Connects, ShakesHands, Reads, Adds
  <1>3. CASE op[o] # Idle /\ (Selects(o) \/ StartsRow(o))
    BY <1>3, SelectsSame DEF Selects, StartsRow, Adds
  <1>4. CASE op[o] # Idle /\ Flushes(o)
    BY <1>4 DEF Flushes, Adds
  <1>5. CASE op[o] # Idle /\ Registers(o)
    BY <1>5 DEF Registers, Adds, HandlersCarry, FlowShape
  <1>6. CASE op[o] # Idle /\ Loads(o)
    BY <1>6 DEF Loads, Adds
  <1>7. CASE op[o] # Idle /\ Exchanges(o)
    BY <1>7 DEF Exchanges, Adds
  <1>8. CASE op[o] # Idle /\ Reloads(o)
    <2>1. op[o].by = "callback"
      BY <1>8 DEF Reloads, TypeInv, HandlerShape
    <2>2. row[op[o].id] = op[o].old
      BY <1>8, <2>1 DEF Reloads, HandlersLatest, Holds
    <2> QED
      BY <1>8, <2>1, <2>2 DEF Reloads, Adds
  <1> QED
    BY <1>1, <1>2, <1>3, <1>4, <1>5, <1>6, <1>7, <1>8, Carries

THEOREM StepCarryInv == Inv /\ Inv' /\ LatestInv /\ CarryInv /\ Next => CarryInv'
  <1> SUFFICES ASSUME Inv, Inv', LatestInv, CarryInv, Next PROVE CarryInv'
    OBVIOUS
  <1>i. TypeInv /\ TypeInv' /\ Held /\ HandlersCarry /\ SweepShows
    BY DEF Inv, CarryInv
  <1>1. HandlersCarry'
    BY <1>i, StepFlowShape, StepEnteredShape DEF HandlersCarry
  <1>2. SweepShows'
    BY <1>i, StepSweepShows
  <1>3. ASSUME ~overlapped', NEW o \in Ops, op'[o] # Idle PROVE Adds(o)'
    <2>1. ~overlapped
      BY <1>3, <1>i, StepAlone DEF LatestInv
    <2> QED
      BY <1>i, <1>3, <2>1, StepAdds DEF LatestInv, CarryInv
  <1> QED
    BY <1>1, <1>2, <1>3 DEF CarryInv

Shown == [r \in Rows |-> Seen(row[r])]
Entries == {g \in Gens : Requested(g)}
Asked == {a \in Flows \X Rows \X Gens : Pending(a[1], a[2], a[3])}

\* What a step leaves of what is shown of a row.
LEMMA SeenFields ==
  /\ NoRow = Promise!NoRow /\ Seen(NoRow) = NoRow
  /\ \A x \in Row :
       /\ Seen(x) = [client |-> x.cred.gen, config |-> x.conf.gen, token |-> x.cred.token,
                     authorized |-> x.conf.auth, sound |-> x.cred.sound, status |-> x.status,
                     shared |-> x.shared]
       /\ Seen(x) # NoRow
  <1>1. NoRow = Promise!NoRow /\ Seen(NoRow) = NoRow
    BY DEF NoRow, Promise!NoRow, Seen
  <1>2. ASSUME NEW x \in Row
        PROVE  Seen(x) = [client |-> x.cred.gen, config |-> x.conf.gen, token |-> x.cred.token,
                          authorized |-> x.conf.auth, sound |-> x.cred.sound, status |-> x.status,
                          shared |-> x.shared]
    BY <1>2, Distinct DEF Seen
  <1>3. ASSUME NEW x \in Row PROVE Seen(x) # NoRow
    <2>1. DOMAIN Seen(x) = {"client", "config", "token", "authorized", "sound", "status", "shared"}
      BY <1>2
    <2>2. DOMAIN NoRow = {"gone"}
      BY DEF NoRow
    <2> QED
      BY <2>1, <2>2
  <1> QED
    BY <1>1, <1>2, <1>3

LEMMA ThereIsShown ==
  ASSUME TypeInv, NEW r \in Rows
  PROVE  /\ Shown[r] = Seen(row[r])
         /\ Shown[r] # Promise!NoRow <=> Exists(r)
         /\ Exists(r) => row[r] \in Row
  BY SeenFields DEF Shown, Exists, TypeInv, TypeOK

\* A step that changes no pending connect or authorization of a handler but to
\* end it.
Quiet(o) ==
  /\ op'[o].by = "callback" =>
       \A g \in Gens : Client(op[o])' = g => Pending(op'[o].flow, op'[o].id, g)
  /\ op'[o].by = "connect" =>
       op[o] # Idle /\ op[o].by = "connect" /\ op'[o].new.cred.gen = op[o].new.cred.gen

LEMMA PendingShrinks ==
  ASSUME TypeInv, HandlersCarry,
         \A f \in Flows : flow'[f] \in {flow[f], "gone"} /\ code'[f] \in {code[f], None},
         \A o \in Ops : op'[o] = op[o] \/ op'[o] = Idle \/ Quiet(o)
  PROVE  Asked' \subseteq Asked /\ Entries' \subseteq Entries
  <1>1. ASSUME NEW f \in Flows, NEW r \in Rows, NEW g \in Gens, Pending(f, r, g)'
        PROVE  Pending(f, r, g)
    <2>1. CASE flow'[f] = r /\ code'[f] = g
      BY <2>1, ConstantsAssumption DEF Pending
    <2>2. ASSUME NEW o \in Ops, op'[o] # Idle, op'[o].by = "callback", op'[o].flow = f, op'[o].id = r,
                 Client(op[o])' = g
          PROVE  Pending(f, r, g)
      <3>1. CASE op'[o] = op[o]
        <4>1. Client(op[o]) = g
          BY <2>2, <3>1, ConstantsAssumption DEF Client
        <4> QED
          BY <2>2, <3>1, <4>1 DEF Pending
      <3>2. CASE Quiet(o)
        BY <2>2, <3>2 DEF Quiet
      <3> QED
        BY <2>2, <3>1, <3>2
    <2> QED
      BY <1>1, <2>1, <2>2 DEF Pending
  <1>2. ASSUME NEW g \in Gens, Requested(g)' PROVE Requested(g)
    <2>1. PICK o \in Ops : op'[o] # Idle /\ op'[o].by = "connect" /\ op'[o].new.cred.gen = g
      BY <1>2 DEF Requested
    <2> QED
      BY <2>1 DEF Requested, Quiet
  <1> QED
    BY <1>1, <1>2 DEF Asked, Entries

LEMMA HandlersQuiet ==
  ASSUME TypeInv, HandlersCarry, RowsLatest, HandlersLatest, Next, UNCHANGED entered,
         \A f \in Flows : flow'[f] \in {flow[f], "gone"} /\ code'[f] \in {code[f], None},
         NEW o \in Ops, op'[o] # Idle
  PROVE  op'[o] = op[o] \/ Quiet(o)
  <1>n. None \notin Gens
    BY ConstantsAssumption
  <1>1. ~Connects(o)
    BY DEF Connects
  <1>2. CASE ShakesHands(o)
    BY <1>2 DEF ShakesHands, Quiet
  <1>3. CASE Reads(o)
    <2>1. ASSUME NEW g \in Gens, Client(op[o])' = g PROVE Pending(op'[o].flow, op'[o].id, g)
      <3>1. code'[op'[o].flow] = g
        BY <1>3, <2>1 DEF Reads, Client
      <3>2. code[op'[o].flow] = g
        BY <1>3, <1>n, <3>1 DEF Reads
      <3> QED
        BY <1>3, <3>2 DEF Reads, Pending
    <2> QED
      BY <1>3, <2>1 DEF Reads, Quiet
  <1>4. ASSUME op[o] # Idle, op[o].by = "callback", op'[o].flow = op[o].flow, op'[o].id = op[o].id,
               \A g \in Gens : Client(op[o])' = g => Client(op[o]) = g,
               op'[o].by = "callback"
        PROVE  Quiet(o)
    BY <1>4 DEF Quiet, Pending
  <1>5. CASE op[o] # Idle /\ (Selects(o) \/ StartsRow(o) \/ Flushes(o) \/ Registers(o))
    <2>1. op'[o].by = op[o].by /\ op'[o].flow = op[o].flow
      BY <1>5 DEF Selects, StartsRow, Flushes, Registers
    <2>2. op'[o].new.cred = op[o].new.cred
      BY <1>5, RegistersConf DEF Selects, StartsRow, Flushes
    <2>3. CASE op[o].by = "callback"
      <3>1. op'[o].id = op[o].id
        BY <1>5, <2>3, SelectsSame DEF Selects, StartsRow, Flushes, Registers
      <3>2. /\ op[o].pc \notin {"load", "exchange", "reload"}
            /\ op'[o].pc \notin {"load", "exchange", "reload"}
        BY <1>5 DEF Selects, StartsRow, Flushes, Registers
      <3>3. Client(op[o])' = Client(op[o])
        BY <2>2, <3>2 DEF Client
      <3> QED
        BY <1>4, <1>5, <2>1, <2>3, <3>1, <3>3
    <2>4. CASE op[o].by # "callback"
      BY <1>5, <2>1, <2>2, <2>4 DEF Quiet
    <2> QED
      BY <2>3, <2>4
  <1>6. CASE op[o] # Idle /\ (Loads(o) \/ Exchanges(o))
    <2>1. /\ op[o].by = "callback" /\ op'[o].by = "callback"
          /\ op'[o].flow = op[o].flow /\ op'[o].id = op[o].id /\ op[o].flow \in Flows
          /\ op[o].pc \in {"load", "exchange"}
      BY <1>6 DEF Loads, Exchanges, TypeInv, HandlerShape
    <2>2. Client(op[o]) = code[op[o].flow]
      BY <2>1 DEF Client
    <2>3. ASSUME NEW g \in Gens, Client(op[o])' = g PROVE Client(op[o]) = g
      <3>1. CASE Loads(o)
        <4>1. code'[op[o].flow] = g
          BY <2>1, <2>3, <3>1 DEF Loads, Client
        <4> QED
          BY <1>n, <2>1, <2>2, <4>1
      <3>2. CASE Exchanges(o)
        <4>1. op'[o].old.cred.gen = g
          BY <2>3, <3>2 DEF Exchanges, Client
        <4> QED
          BY <2>2, <3>2, <4>1 DEF Exchanges
      <3> QED
        BY <1>6, <3>1, <3>2
    <2> QED
      BY <1>4, <1>6, <2>1, <2>3
  <1>7. CASE op[o] # Idle /\ Reloads(o)
    <2>1. op[o].by = "callback" /\ op[o].old.cred \in Cred
      BY <1>7 DEF Reloads, TypeInv, HandlerShape, Row
    <2>2. op'[o].new.cred.gen = op[o].old.cred.gen
      BY <1>7, <2>1, AuthorizedFields DEF Reloads
    <2>3. Client(op[o])' = Client(op[o])
      BY <1>7, <2>2 DEF Reloads, Client
    <2> QED
      BY <1>4, <1>7, <2>1, <2>3 DEF Reloads
  <1> QED
    BY <1>1, <1>2, <1>3, <1>5, <1>6, <1>7, Carries

LEMMA NothingPends ==
  ASSUME UNCHANGED <<op, flow, code>>
  PROVE  Entries' = Entries /\ Asked' = Asked
  BY DEF Entries, Asked, Requested, Pending, Client

LEMMA EnterIsStep ==
  ASSUME TypeInv, HandlersCarry, NEW o \in Ops, NEW g \in Gens, NEW tokens \in Pasted,
         NEW secret \in EnteredSecret, NEW shared \in Sharing,
         BeginConnect(o, g, tokens, secret, shared)
  PROVE  Promise!Enter(g)
  <1>1. /\ op[o] = Idle /\ op'[o] # Idle /\ op'[o].by = "connect" /\ op'[o].new.cred.gen = g
        /\ \A q \in Ops : q # o => op'[q] = op[q]
        /\ UNCHANGED <<row, flow, code>>
    <2>1. /\ op \in [Ops -> Op \cup {Idle}] /\ op[o] = Idle
          /\ op' = [op EXCEPT ![o] =
               [pc |-> "select", by |-> "connect", flow |-> None, id |-> None, old |-> NoRow,
                new |-> [cred |-> [gen |-> g, token |-> IF "refresh" \in tokens THEN g ELSE None,
                                   access |-> "access" \in tokens, sound |-> TRUE],
                         conf |-> [gen |-> g, auth |-> FALSE, secret |-> secret, reg |-> FALSE],
                         status |-> "active", shared |-> shared]]]
      BY DEF BeginConnect, Begin, TypeInv, TypeOK
    <2>2. op'[o].pc = "select" /\ op'[o].by = "connect" /\ op'[o].new.cred.gen = g
      BY <2>1
    <2>3. op'[o] # Idle
      BY <2>2 DEF Idle
    <2> QED
      BY <2>1, <2>2, <2>3 DEF BeginConnect
  <1>2. \A c \in Gens : Requested(c)' <=> Requested(c) \/ c = g
    BY <1>1 DEF Requested
  <1>3. \A f \in Flows, r \in Rows, c \in Gens : Pending(f, r, c)' <=> Pending(f, r, c)
    BY <1>1 DEF Pending, Client
  <1>4. Entries' = Entries \cup {g} /\ Asked' = Asked /\ Shown' = Shown
    BY <1>1, <1>2, <1>3 DEF Entries, Asked, Shown
  <1> QED
    BY <1>4 DEF Promise!Enter, Entries, Asked, Shown

LEMMA AskIsStep ==
  ASSUME TypeInv, HandlersCarry, NEW f \in Flows, NEW r \in Rows, BeginAuthorize(f, r)
  PROVE  Promise!Ask(f, r)
  <1> DEFINE g == row[r].cred.gen
  <1>t. /\ flow \in [Flows -> Rows \cup {None, "gone"}] /\ code \in [Flows -> Gens \cup {None}]
        /\ None \notin Rows
    BY ConstantsAssumption DEF TypeInv, TypeOK
  <1>1. /\ flow[f] = None /\ flow' = [flow EXCEPT ![f] = r] /\ code' = [code EXCEPT ![f] = g]
        /\ UNCHANGED <<row, op>> /\ Exists(r) /\ row[r].cred.sound
    BY DEF BeginAuthorize, Now
  <1>2. row[r] \in Row /\ g \in Gens /\ Shown[r].client = g /\ Shown[r].sound
        /\ Promise!There(r)
    <2>1. row[r] \in Row /\ Shown[r] = Seen(row[r]) /\ Shown[r] # Promise!NoRow
      BY <1>1, ThereIsShown
    <2>2. Shown[r].client = g /\ Shown[r].sound
      BY <1>1, <2>1, SeenFields
    <2> QED
      BY <2>1, <2>2 DEF Promise!There, Shown, Row, Cred
  <1>3. \A o \in Ops : op[o] # Idle /\ op[o].by = "callback" => op[o].flow \in Flows /\ op[o].flow # f
    BY <1>1 DEF HandlersCarry, FlowShape
  <1>4. \A q \in Rows, c \in Gens : ~Pending(f, q, c)
    BY <1>1, <1>3, <1>t DEF Pending
  <1>5. \A e \in Flows, q \in Rows, c \in Gens : e # f => (Pending(e, q, c)' <=> Pending(e, q, c))
    <2> SUFFICES ASSUME NEW e \in Flows, NEW q \in Rows, NEW c \in Gens, e # f
                 PROVE  Pending(e, q, c)' <=> Pending(e, q, c)
      OBVIOUS
    <2>1. flow'[e] = flow[e] /\ code'[e] = code[e]
      BY <1>1, <1>t
    <2>2. \A o \in Ops : op[o] # Idle /\ op[o].by = "callback" => Client(op[o])' = Client(op[o])
      BY <1>1, <1>3, <1>t DEF Client
    <2> QED
      BY <1>1, <2>1, <2>2 DEF Pending
  <1>6. \A q \in Rows, c \in Gens : Pending(f, q, c)' <=> q = r /\ c = g
    <2>1. flow'[f] = r /\ code'[f] = g
      BY <1>1, <1>t
    <2> HIDE DEF g
    <2> QED
      BY <1>1, <1>3, <2>1 DEF Pending
  <1>7. \A q \in Rows, c \in Gens : <<f, q, c>> \notin Asked
    BY <1>4 DEF Asked
  <1> HIDE DEF g
  <1>8. Asked' = Asked \cup {<<f, r, g>>}
    <2>1. Asked' \subseteq Asked \cup {<<f, r, g>>}
      <3> SUFFICES ASSUME NEW a \in Flows \X Rows \X Gens, Pending(a[1], a[2], a[3])',
                          a \notin Asked
                   PROVE  a = <<f, r, g>>
        BY DEF Asked
      <3>1. a[1] = f
        BY <1>5 DEF Asked
      <3> QED
        BY <1>6, <3>1
    <2>2. Asked \subseteq Asked'
      <3> SUFFICES ASSUME NEW a \in Flows \X Rows \X Gens, Pending(a[1], a[2], a[3])
                   PROVE  Pending(a[1], a[2], a[3])'
        BY DEF Asked
      <3> QED
        BY <1>4, <1>5
    <2>3. <<f, r, g>> \in Asked'
      BY <1>2, <1>6 DEF Asked
    <2> QED
      BY <2>1, <2>2, <2>3
  <1>9. Entries' = Entries /\ Shown' = Shown
    BY <1>1 DEF Entries, Requested, Shown
  <1> QED
    BY <1>2, <1>7, <1>8, <1>9 DEF Promise!Ask, Entries, Asked, Shown

\* What is shown of a row, and the same with some fields changed.
Card(a, b, c, d, e, s, h) ==
  [client |-> a, config |-> b, token |-> c, authorized |-> d, sound |-> e, status |-> s,
   shared |-> h]

WithSound(y, v) == [y EXCEPT !.sound = v]
WithToken(y, t, u, v) == [y EXCEPT !.token = t, !.authorized = u, !.status = v]

LEMMA CardChanges ==
  ASSUME NEW a, NEW b, NEW c, NEW d, NEW e, NEW s, NEW h, NEW t, NEW u, NEW v,
         NEW y, y = Card(a, b, c, d, e, s, h)
  PROVE  /\ WithSound(y, v) = Card(a, b, c, d, v, s, h)
         /\ WithToken(y, t, u, v) = Card(a, b, t, u, e, v, h)
  <1> DEFINE p == [y EXCEPT !.token = t]
             q == [p EXCEPT !.authorized = u]
             r == [q EXCEPT !.status = v]
  <1>0. WithToken(y, t, u, v) = r
    BY DEF WithToken
  <1> HIDE DEF p, q, r
  <1>1. WithSound(y, v) = Card(a, b, c, d, v, s, h)
    BY DEF Card, WithSound
  <1>2. p = Card(a, b, t, d, e, s, h)
    BY DEF Card, p
  <1>3. q = Card(a, b, t, u, e, s, h)
    BY <1>2 DEF Card, q
  <1>4. r = Card(a, b, t, u, e, v, h)
    BY <1>3 DEF Card, r
  <1> QED
    BY <1>0, <1>1, <1>4

LEMMA DirectIsStep ==
  ASSUME TypeInv, TypeInv', NEW r \in Rows, RowNext(r), \A f \in Flows : ~BeginAuthorize(f, r)
  PROVE  \/ \E shared \in BOOLEAN : Promise!Share(r, shared)
         \/ Promise!Disconnect(r) \/ Promise!Damage(r)
  <1>t. row \in [Rows -> Row \cup {NoRow}]
    BY DEF TypeInv, TypeOK
  <1>1. ASSUME UNCHANGED <<op, flow, code>>, Exists(r), NEW x, row' = [row EXCEPT ![r] = x]
        PROVE  /\ Promise!There(r) /\ row[r] \in Row /\ Shown[r] = Seen(row[r])
               /\ Entries' = Entries /\ Asked' = Asked
               /\ Shown' = [Shown EXCEPT ![r] = Seen(x)]
    BY <1>1, <1>t, ThereIsShown, NothingPends DEF Promise!There, Shown
  <1>2. ASSUME NEW shared \in BOOLEAN, SetSharing(r, shared) PROVE Promise!Share(r, shared)
    <2> DEFINE x == [row[r] EXCEPT !.shared = shared]
    <2>1. UNCHANGED <<op, flow, code>> /\ Exists(r) /\ row' = [row EXCEPT ![r] = x]
      BY <1>2 DEF SetSharing, Now
    <2> HIDE DEF x
    <2>2. /\ Promise!There(r) /\ row[r] \in Row /\ Shown[r] = Seen(row[r])
          /\ Entries' = Entries /\ Asked' = Asked /\ Shown' = [Shown EXCEPT ![r] = Seen(x)]
      BY <1>1, <2>1
    <2>3. x \in Row /\ x.cred = row[r].cred /\ x.conf = row[r].conf /\ x.status = row[r].status
          /\ x.shared = shared
      BY <2>2 DEF x, Row
    <2>4. Seen(x) = [Seen(row[r]) EXCEPT !.shared = shared]
      BY <2>2, <2>3, SeenFields
    <2>5. Shown' = [Shown EXCEPT ![r].shared = shared]
      BY <2>2, <2>4
    <2> QED
      BY <2>2, <2>5 DEF Promise!Share, Entries, Asked, Shown
  <1>3. CASE Disconnect(r)
    <2>1. UNCHANGED <<op, flow, code>> /\ Exists(r) /\ row' = [row EXCEPT ![r] = NoRow]
      BY <1>3 DEF Disconnect, Now
    <2>2. /\ Promise!There(r) /\ Entries' = Entries /\ Asked' = Asked
          /\ Shown' = [Shown EXCEPT ![r] = Promise!NoRow]
      BY <1>1, <2>1, SeenFields
    <2> QED
      BY <2>2 DEF Promise!Disconnect, Entries, Asked, Shown
  <1>4. CASE Damage(r)
    <2> DEFINE x == [row[r] EXCEPT !.cred.sound = FALSE]
    <2>1. UNCHANGED <<op, flow, code>> /\ Exists(r) /\ row' = [row EXCEPT ![r] = x]
      BY <1>4 DEF Damage
    <2> HIDE DEF x
    <2>2. /\ Promise!There(r) /\ row[r] \in Row /\ Shown[r] = Seen(row[r])
          /\ Entries' = Entries /\ Asked' = Asked /\ Shown' = [Shown EXCEPT ![r] = Seen(x)]
      BY <1>1, <2>1
    <2>3. x.cred = [row[r].cred EXCEPT !.sound = FALSE] /\ row[r].cred \in Cred
          /\ x.conf = row[r].conf /\ x.status = row[r].status /\ x.shared = row[r].shared
      BY <2>2 DEF x, Row
    <2>4. /\ x.cred.gen = row[r].cred.gen /\ x.cred.token = row[r].cred.token
          /\ x.cred.sound = FALSE /\ x.cred \in Cred
      BY <2>3 DEF Cred
    <2>5. x \in Row
      BY <2>2, <2>4 DEF x, Row
    <2>6. Seen(x) = WithSound(Seen(row[r]), x.cred.sound)
      <3>1. Seen(row[r]) = Card(row[r].cred.gen, row[r].conf.gen, row[r].cred.token,
              row[r].conf.auth, row[r].cred.sound, row[r].status, row[r].shared)
        BY <2>2, SeenFields DEF Card
      <3>2. Seen(x) = Card(row[r].cred.gen, row[r].conf.gen, row[r].cred.token,
              row[r].conf.auth, x.cred.sound, row[r].status, row[r].shared)
        BY <2>3, <2>4, <2>5, SeenFields DEF Card
      <3> QED
        BY <3>1, <3>2, CardChanges
    <2>7. Shown' = [Shown EXCEPT ![r].sound = FALSE]
      <3>1. x.cred.sound = FALSE /\ Seen(x) = [Seen(row[r]) EXCEPT !.sound = x.cred.sound]
        BY <2>4, <2>6 DEF WithSound
      <3> QED
        BY <2>2, <3>1
    <2> QED
      BY <2>2, <2>7 DEF Promise!Damage, Entries, Asked, Shown
  <1> QED
    BY <1>2, <1>3, <1>4 DEF RowNext

\* What a finished authorization shows.
LEMMA AuthorizedShown ==
  ASSUME NEW old \in Row, NEW new, new = Authorized(old.cred, old),
         NEW y, NEW g, y = Seen(old), g = old.cred.gen
  PROVE  /\ new \in Row /\ new.conf.auth = TRUE /\ new.status = "active"
         /\ Seen(new) = WithToken(y, g, new.conf.auth, new.status)
  <1>1. old.cred \in Cred
    BY DEF Row
  <1>2. /\ new \in Row /\ new.cred.gen = old.cred.gen /\ new.cred.token = old.cred.gen
        /\ new.cred.sound = old.cred.sound /\ new.conf.gen = old.conf.gen
        /\ new.shared = old.shared
    BY <1>1, AuthorizedFields
  <1>6. new.conf.auth = TRUE /\ new.status = "active"
    BY DEF Authorized, Row, Conf
  <1>3. y = Card(old.cred.gen, old.conf.gen, old.cred.token, old.conf.auth, old.cred.sound,
                 old.status, old.shared)
    BY SeenFields DEF Card
  <1>4. Seen(new) = Card(old.cred.gen, old.conf.gen, g, new.conf.auth, old.cred.sound, new.status,
                         old.shared)
    <2>1. Seen(new) = Card(new.cred.gen, new.conf.gen, new.cred.token, new.conf.auth,
                           new.cred.sound, new.status, new.shared)
      BY <1>2, SeenFields DEF Card
    <2> QED
      BY <1>2, <2>1
  <1>5. WithToken(y, g, new.conf.auth, new.status) =
          Card(old.cred.gen, old.conf.gen, g, new.conf.auth, old.cred.sound, new.status, old.shared)
    BY <1>3, CardChanges
  <1> QED
    BY <1>2, <1>4, <1>5, <1>6

LEMMA CommitIsStep ==
  ASSUME TypeInv, Owned, Alone, RowsLatest, HandlersLatest, HandlersCarry,
         NEW o \in Ops, op[o] # Idle, Adds(o), Commit(o)
  PROVE  Promise!Next
  <1> DEFINE r == op[o].id  new == op[o].new  g == op[o].new.cred.gen
  <1>t. /\ op \in [Ops -> Op \cup {Idle}] /\ row \in [Rows -> Row \cup {NoRow}]
        /\ code \in [Flows -> Gens \cup {None}] /\ None \notin Gens /\ "gone" \notin Rows
    BY ConstantsAssumption DEF TypeInv, TypeOK
  <1>1. /\ op[o].pc = "commit" /\ r \in Rows /\ new \in Row /\ g \in Gens
        /\ op[o].by \in {"connect", "callback"}
        /\ \A q \in Ops : op'[q] = Idle
        /\ \A q \in Ops : op[q] # Idle => q = o
        /\ UNCHANGED <<flow, code>>
    <2>1. op[o].pc = "commit" /\ HandlerShape(op[o]) /\ op'[o] = Idle
          /\ \A q \in Ops : q # o => op'[q] = op[q]
      BY <1>t DEF Commit, Advance, TypeInv
    <2>2. new \in Row /\ r \in Rows
      BY <2>1 DEF HandlerShape
    <2>3. g \in Gens
      BY <2>2 DEF Row, Cred
    <2> QED
      BY <2>1, <2>2, <2>3 DEF Alone, HandlersLatest, Commit
  <1>2. Holds(op[o]) \/ (op[o].by = "connect" /\ op[o].old = NoRow /\ \A q \in Rows : ~Exists(q))
    BY <1>1 DEF HandlersLatest
  <1>3. row' = [row EXCEPT ![r] = new]
    <2>1. CASE op[o].old = NoRow
      BY <2>1 DEF Commit
    <2>2. CASE op[o].old # NoRow
      <3>1. op[o].old = row[r] /\ row[r] \in Row
        BY <1>1, <1>2, <1>t, <2>2 DEF Holds, Exists
      <3>2. row' = [row EXCEPT ![r] = Merge(TRUE, row[r], row[r], new)]
        BY <1>1, <2>2, <3>1 DEF Commit
      <3>3. Merge(TRUE, row[r], row[r], new) =
              [cred |-> new.cred, conf |-> new.conf, status |-> new.status, shared |-> new.shared]
        BY DEF Merge
      <3>4. new = [cred |-> new.cred, conf |-> new.conf, status |-> new.status,
                   shared |-> new.shared]
        BY <1>1 DEF Row
      <3> QED
        BY <3>2, <3>3, <3>4
    <2> QED
      BY <2>1, <2>2
  <1>4. Shown' = [Shown EXCEPT ![r] = Seen(new)]
    BY <1>1, <1>3, <1>t DEF Shown
  <1>5. Entries' = {}
    BY <1>1 DEF Entries, Requested
  <1>6. \A f \in Flows, q \in Rows, c \in Gens : Pending(f, q, c)' <=> flow[f] = q /\ code[f] = c
    BY <1>1 DEF Pending
  <1>7. Client(op[o]) = g
    BY <1>1 DEF Client
  <1>8. \A q \in Rows : (Shown[q] # Promise!NoRow <=> Exists(q)) /\ (Exists(q) => row[q] \in Row)
    BY ThereIsShown
  <1>9. CASE op[o].by = "connect"
    <2>1. \A f \in Flows, q \in Rows, c \in Gens : Pending(f, q, c) <=> flow[f] = q /\ code[f] = c
      BY <1>1, <1>9 DEF Pending
    <2>2. Asked' = Asked
      BY <1>6, <2>1 DEF Asked
    <2>3. Entries = {g}
      BY <1>1, <1>9 DEF Entries, Requested
    <2>4. /\ new.cred.token \in {g, None} /\ new.cred.sound /\ new.conf.gen = g
          /\ ~new.conf.auth /\ new.status = "active"
      BY <1>9 DEF HandlersCarry, EnteredShape
    <2>5. new.shared \in BOOLEAN /\ new.conf.auth \in BOOLEAN /\ new.cred.sound \in BOOLEAN
      BY <1>1 DEF Row, Conf, Cred
    <2>6. Seen(new) = [client |-> g, config |-> g, token |-> new.cred.token, authorized |-> FALSE,
                       sound |-> TRUE, status |-> "active", shared |-> new.shared]
      <3>1. new.conf.auth = FALSE /\ new.cred.sound = TRUE
        BY <2>4, <2>5
      <3> QED
        BY <1>1, <2>4, <3>1, SeenFields
    <2>7. \A q \in Rows : Exists(q) => q = r
      BY <1>2 DEF Holds, RowsLatest
    <2>8. Exists(r) \/ \A f \in Flows, c \in Gens : <<f, r, c>> \notin Asked
      <3>1. CASE op[o].old = NoRow
        <4>1. \A f \in Flows : flow[f] # r
          BY <1>1, <3>1 DEF Owned, Inserts
        <4> QED
          BY <2>1, <4>1 DEF Asked
      <3>2. CASE op[o].old # NoRow
        BY <1>2, <3>2 DEF Holds
      <3> QED
        BY <3>1, <3>2
    <2> DEFINE shared == new.shared  token == new.cred.token
    <2>9. shared \in BOOLEAN /\ token \in {g, None}
      BY <2>4, <2>5
    <2>10. Promise!Connect(r, g, token, shared)
      <3>1. g \in Entries /\ Entries' = Entries \ {g}
        BY <1>5, <2>3
      <3>2. \A q \in Rows : Shown[q] # Promise!NoRow => q = r
        BY <1>8, <2>7
      <3>3. Shown[r] # Promise!NoRow \/ \A f \in Flows, c \in Gens : <<f, r, c>> \notin Asked
        BY <1>1, <1>8, <2>8
      <3>4. Shown' = [Shown EXCEPT ![r] =
              [client |-> g, config |-> g, token |-> token, authorized |-> FALSE, sound |-> TRUE,
               status |-> "active", shared |-> shared]]
        BY <1>4, <2>6
      <3> HIDE DEF r, g, token, shared
      <3> QED
        BY <2>2, <3>1, <3>2, <3>3, <3>4 DEF Promise!Connect, Promise!There, Entries, Asked, Shown
    <2> HIDE DEF r, g, token, shared
    <2> QED
      BY <1>1, <2>9, <2>10, Zenon DEF Promise!Next
  <1>10. CASE op[o].by = "callback"
    <2> DEFINE f == op[o].flow
    <2>1. Holds(op[o]) /\ f \in Flows /\ flow[f] = "gone" /\ code[f] = None
      BY <1>1, <1>2, <1>10 DEF HandlersCarry, FlowShape
    <2>2. /\ row[r] \in Row /\ op[o].old = row[r] /\ row[r].cred.sound
          /\ new = Authorized(row[r].cred, row[r])
      BY <1>1, <1>8, <1>10, <2>1 DEF Holds, Adds
    <2>3. g = row[r].cred.gen
      BY <2>2, AuthorizedFields DEF Row
    <2>4. Entries = {}
      BY <1>1, <1>10 DEF Entries, Requested
    <2>5. \A e \in Flows, q \in Rows, c \in Gens :
            Pending(e, q, c) <=> (flow[e] = q /\ code[e] = c) \/ (e = f /\ q = r /\ c = g)
      BY <1>1, <1>7, <1>10 DEF Pending
    <2>6. Asked' = Asked \ {<<f, r, g>>}
      <3>1. \A e \in Flows, q \in Rows, c \in Gens : e = f /\ q = r /\ c = g => ~Pending(e, q, c)'
        BY <1>1, <1>6, <1>t, <2>1
      <3>2. \A e \in Flows, q \in Rows, c \in Gens :
              Pending(e, q, c)' <=> Pending(e, q, c) /\ <<e, q, c>> # <<f, r, g>>
        BY <1>6, <2>5, <3>1
      <3> HIDE DEF f, r, g
      <3> QED
        BY <3>2 DEF Asked
    <2>7. <<f, r, g>> \in Asked
      BY <1>1, <2>1, <2>5 DEF Asked
    <2>8. Shown[r] = Seen(row[r]) /\ Shown[r].client = g /\ Shown[r].sound
      <3>1. Shown[r] = Seen(row[r])
        BY <1>1 DEF Shown
      <3> QED
        BY <2>2, <2>3, <3>1, SeenFields
    <2>9. Shown' = [Shown EXCEPT ![r].token = Shown[r].client, ![r].authorized = TRUE,
                                 ![r].status = "active"]
      <3>1. Shown[r] = Seen(row[r]) /\ Shown[r].client = row[r].cred.gen
        BY <2>3, <2>8
      <3>2. /\ Seen(new) = WithToken(Shown[r], Shown[r].client, new.conf.auth, new.status)
            /\ new.conf.auth = TRUE /\ new.status = "active"
        <4>1. row[r] \in Row /\ Shown[r] = Seen(row[r]) /\ Shown[r].client = row[r].cred.gen
          BY <2>2, <3>1
        <4>2. new = Authorized(row[r].cred, row[r])
          BY <2>2
        <4>3. ASSUME NEW old \in Row, NEW x, x = Authorized(old.cred, old),
                     NEW y, y = Seen(old), y.client = old.cred.gen
              PROVE  /\ Seen(x) = WithToken(y, y.client, x.conf.auth, x.status)
                     /\ x.conf.auth = TRUE /\ x.status = "active"
          BY <4>3, AuthorizedShown
        <4> HIDE DEF new, r
        <4> QED
          BY <4>1, <4>2, <4>3
      <3> HIDE DEF r, g, new
      <3> QED
        BY <1>1, <1>4, <3>2 DEF Shown, WithToken
    <2>10. Shown[r] # Promise!NoRow
      BY <1>1, <1>8, <2>1 DEF Holds
    <2>11. Promise!Complete(f, r)
      <3> HIDE DEF f, r, g
      <3> QED
        BY <1>5, <2>4, <2>6, <2>7, <2>8, <2>9, <2>10
        DEF Promise!Complete, Promise!There, Entries, Asked, Shown
    <2> HIDE DEF f, r
    <2> QED
      BY <1>1, <2>1, <2>11, Zenon DEF Promise!Next
  <1> QED
    BY <1>1, <1>9, <1>10

LEMMA EndSweepIsStep ==
  ASSUME TypeInv, Held, RowsLatest, SweepLatest, SweepShows, EndSweep
  PROVE  Promise!Lapse \/ \E r \in Rows : Promise!Fail(r)
  <1>t. row \in [Rows -> Row \cup {NoRow}] /\ sweep \in Sweep /\ sweep # Idle
    BY DEF TypeInv, TypeOK, EndSweep
  <1>1. Entries' = Entries /\ Asked' = Asked
    BY NothingPends DEF EndSweep
  <1>2. \A r \in Rows : Shown[r] = Seen(row[r]) /\ Shown'[r] = Seen(row'[r])
    BY DEF Shown
  <1>3. ASSUME NEW r \in Rows, Seen(row'[r]) # Seen(row[r])
        PROVE  /\ Exists(r) /\ ~Seen(row[r]).sound
               /\ Seen(row'[r]) = [Seen(row[r]) EXCEPT !.status = "error"]
    <2>1. lock[r] = "sweep"
      BY <1>3 DEF EndSweep
    <2>2. sweep.old[r] # NoRow /\ Exists(r)
      BY <2>1 DEF Held
    <2>3. /\ row[r] \in Row /\ sweep.old[r] = row[r] /\ sweep.new[r] \in Row
          /\ sweep.new[r].conf.gen = row[r].conf.gen /\ sweep.new[r].conf.auth = row[r].conf.auth
          /\ sweep.new[r].shared = row[r].shared
          /\ \/ sweep.new[r].status = row[r].status
             \/ sweep.new[r].status = "error" /\ ~row[r].cred.sound
      BY <2>2, <1>t DEF Exists, SweepLatest, SweepShows, TypeInv, SweepShape, Sweep
    <2> DEFINE x == Merge(FALSE, row[r], row[r], sweep.new[r])
    <2>4. row'[r] = x
      BY <2>1, <2>3 DEF EndSweep
    <2>5. /\ x \in Row /\ x.cred = row[r].cred
          /\ x.conf.gen = row[r].conf.gen /\ x.conf.auth = row[r].conf.auth
          /\ x.shared = row[r].shared /\ x.status = sweep.new[r].status
      <3>1. x \in Row
        BY <2>3, MergeType
      <3> QED
        BY <2>3, <3>1 DEF Merge
    <2> HIDE DEF x
    <2>6. Seen(row[r]) = [client |-> row[r].cred.gen, config |-> row[r].conf.gen,
            token |-> row[r].cred.token, authorized |-> row[r].conf.auth,
            sound |-> row[r].cred.sound, status |-> row[r].status, shared |-> row[r].shared]
      BY <2>3, SeenFields
    <2>7. Seen(x) = [client |-> row[r].cred.gen, config |-> row[r].conf.gen,
            token |-> row[r].cred.token, authorized |-> row[r].conf.auth,
            sound |-> row[r].cred.sound, status |-> sweep.new[r].status, shared |-> row[r].shared]
      BY <2>5, SeenFields
    <2>8. sweep.new[r].status = "error" /\ ~row[r].cred.sound
      BY <1>3, <2>3, <2>4, <2>6, <2>7
    <2> QED
      BY <2>2, <2>4, <2>6, <2>7, <2>8
  <1>4. CASE \A r \in Rows : Seen(row'[r]) = Seen(row[r])
    <2>1. Shown' = Shown
      BY <1>4 DEF Shown
    <2> QED
      BY <1>1, <2>1 DEF Promise!Lapse, Entries, Asked, Shown
  <1>5. ASSUME NEW r \in Rows, Seen(row'[r]) # Seen(row[r]) PROVE Promise!Fail(r)
    <2>1. \A q \in Rows : q # r => Seen(row'[q]) = Seen(row[q])
      BY <1>3, <1>5 DEF RowsLatest
    <2>2. Shown' = [Shown EXCEPT ![r].status = "error"]
      BY <1>3, <1>5, <2>1 DEF Shown
    <2>3. Shown[r] # Promise!NoRow /\ ~Shown[r].sound
      BY <1>2, <1>3, <1>5, ThereIsShown
    <2> QED
      BY <1>1, <2>2, <2>3 DEF Promise!Fail, Promise!There, Entries, Asked, Shown
  <1> QED
    BY <1>4, <1>5

\* Every step of the vault is one of Connection until two transactions overlap.
LEMMA StepOnConnection ==
  Inv /\ Inv' /\ LatestInv /\ CarryInv /\ [Next]_vars =>
    overlapped \/ [Promise!Next]_(Promise!vars)
  <1> SUFFICES ASSUME Inv, Inv', LatestInv, CarryInv, [Next]_vars, ~overlapped
               PROVE  Promise!Next \/ UNCHANGED Promise!vars
    BY Zenon
  <1>i. TypeInv /\ TypeInv' /\ Held /\ Owned /\ HandlersCarry /\ SweepShows
    BY DEF Inv, CarryInv
  <1>h. Alone /\ RowsLatest /\ HandlersLatest /\ SweepLatest
    BY DEF LatestInv
  <1>1. CASE UNCHANGED vars
    <2>1. UNCHANGED <<row, op, flow, code>>
      BY <1>1 DEF vars
    <2>2. Shown' = Shown /\ Entries' = Entries /\ Asked' = Asked
      BY <2>1, NothingPends DEF Shown
    <2> QED
      BY <2>2 DEF Promise!vars, Shown, Entries, Asked
  <1>2. ASSUME NEW o \in Ops, NEW g \in Gens, NEW tokens \in Pasted, NEW secret \in EnteredSecret,
               NEW shared \in Sharing, BeginConnect(o, g, tokens, secret, shared)
        PROVE  Promise!Next
    BY <1>2, <1>i, EnterIsStep, Zenon DEF Promise!Next
  <1>3. ASSUME NEW f \in Flows, NEW r \in Rows, BeginAuthorize(f, r) PROVE Promise!Next
    BY <1>3, <1>i, AskIsStep, Zenon DEF Promise!Next
  <1>4. ASSUME NEW o \in Ops, op[o] # Idle, Commit(o) PROVE Promise!Next
    <2>1. Adds(o)
      BY <1>4 DEF CarryInv
    <2> QED
      BY <1>4, <1>i, <1>h, <2>1, CommitIsStep
  <1>5. ASSUME NEW r \in Rows, RowNext(r), \A f \in Flows : ~BeginAuthorize(f, r)
        PROVE  Promise!Next
    <2>1. \/ \E shared \in BOOLEAN : Promise!Share(r, shared)
          \/ Promise!Disconnect(r) \/ Promise!Damage(r)
      BY <1>5, <1>i, DirectIsStep
    <2> QED
      BY <2>1, Zenon DEF Promise!Next
  <1>6. CASE EndSweep
    <2>1. Promise!Lapse \/ \E r \in Rows : Promise!Fail(r)
      BY <1>6, <1>i, <1>h, EndSweepIsStep
    <2> QED
      BY <2>1, Zenon DEF Promise!Next
  <1>7. ASSUME Next, ~EndSweep,
               ~\E o \in Ops, g \in Gens, tokens \in Pasted, secret \in EnteredSecret,
                   shared \in Sharing : BeginConnect(o, g, tokens, secret, shared),
               ~\E o \in Ops : op[o] # Idle /\ Commit(o), ~\E r \in Rows : RowNext(r)
        PROVE  Promise!Next
    <2>1. UNCHANGED <<row, entered>>
      BY <1>7
      DEF Next, OpNext, Handshake, ReadFlow, HandlerStep, Select, Store, Register, Load, Exchange,
          Reload, Abort, FlowExpires, BeginSweep, SweepNext, Renew, Flush, LoseSweep
    <2>2. \A f \in Flows : flow'[f] \in {flow[f], "gone"} /\ code'[f] \in {code[f], None}
      <3>1. \A f \in Flows, r \in Rows : ~BeginAuthorize(f, r)
        BY <1>7 DEF RowNext
      <3> QED
        BY <1>7, <1>i, <3>1, FlowsPass
    <2>3. \A o \in Ops : op'[o] = op[o] \/ op'[o] = Idle \/ Quiet(o)
      BY <1>7, <1>i, <1>h, <2>1, <2>2, HandlersQuiet
    <2>4. Asked' \subseteq Asked /\ Entries' \subseteq Entries
      BY <1>i, <2>2, <2>3, PendingShrinks
    <2>5. Shown' = Shown
      BY <2>1 DEF Shown
    <2>6. Promise!Lapse
      BY <2>4, <2>5 DEF Promise!Lapse, Asked, Entries, Shown
    <2> QED
      BY <2>6, Zenon DEF Promise!Next
  <1>8. CASE Next
    <2>1. CASE \E r \in Rows : RowNext(r)
      BY <1>3, <1>5, <2>1
    <2> QED
      BY <1>2, <1>4, <1>6, <1>7, <1>8, <2>1
  <1> QED
    BY <1>1, <1>8

\* As long as no two transactions overlap, every handler is one step of Connection:
\* a callback adds tokens once, to the row and the client it was begun for.
THEOREM SerialHandlersAreAtomic == Spec => HandlersAreAtomic
  <1> DEFINE J == LatestInv /\ CarryInv
             Step == overlapped \/ [Promise!Next]_(Promise!vars)
  <1>1. Init => J
    BY DEF Init, LatestInv, Alone, RowsLatest, HandlersLatest, SweepLatest, Exists, CarryInv,
       HandlersCarry, SweepShows
  <1>2. Inv /\ Inv' /\ J /\ [Next]_vars => J'
    <2>1. CASE UNCHANGED vars
      BY <2>1 DEF vars, LatestInv, Alone, RowsLatest, HandlersLatest, SweepLatest, Holds, Exists,
         CarryInv, HandlersCarry, SweepShows, FlowShape, EnteredShape, Adds
    <2> QED
      BY <2>1, StepLatest, StepCarryInv
  <1>3. Inv /\ Inv' /\ J /\ [Next]_vars => Step
    BY StepOnConnection
  <1>4. Init => Promise!Init
    <2> SUFFICES ASSUME Init PROVE Promise!Init
      OBVIOUS
    <2>1. /\ row = [r \in Rows |-> NoRow] /\ \A o \in Ops : op[o] = Idle
          /\ \A f \in Flows : flow[f] = None /\ None \notin Rows
      BY ConstantsAssumption DEF Init
    <2>2. Shown = [r \in Rows |-> Promise!NoRow]
      BY <2>1, SeenFields DEF Shown
    <2>3. Entries = {}
      BY <2>1 DEF Entries, Requested
    <2>4. Asked = {}
      BY <2>1 DEF Asked, Pending
    <2> QED
      BY <2>2, <2>3, <2>4 DEF Promise!Init, Shown, Entries, Asked
  <1>5. Step => (overlapped \/ Promise!Next) \/ UNCHANGED Promise!vars
    BY Zenon
  <1> HIDE DEF J, Step
  <1> QED
    BY <1>1, <1>2, <1>3, <1>4, <1>5, Invariant, PTL DEF Spec, HandlersAreAtomic

-----------------------------------------------------------------------------
\* The type invariant: rows, handlers and the sweep are well formed.
THEOREM TypeCorrect == Spec => []TypeOK
  <1>1. Inv => TypeOK
    BY DEF Inv, TypeInv
  <1> QED
    BY <1>1, Invariant, PTL
=============================================================================
