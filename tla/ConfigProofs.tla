---------------------------- MODULE ConfigProofs ----------------------------
(***************************************************************************)
(* What runs depend on.  Destinations fit their connections, and a run is  *)
(* given the whole of the target it declares (Registry, RunConfig); what   *)
(* can be read of a secret or a variable is what was given last (Secrets); *)
(* a deleted job is idle (JobUse); a job has the tags it was given (Tags); *)
(* an apply leaves every container on the build it names (Runtime); the    *)
(* panels tell one story (Observability).                                  *)
(* Each holds for any rows, names, clients and bounds that the assumptions *)
(* of its module allow.                                                    *)
(***************************************************************************)
EXTENDS RunConfig, Secrets, JobUse, Tags, Runtime, Observability, FiniteSetTheorems, WellFoundedInduction, TLAPS

\* A set of numbers that is not empty has a least one.
LEMMA Least == ASSUME NEW T, T \subseteq Nat, T # {} PROVE \E x \in T : \A y \in T : x <= y
<1> DEFINE R == OpToRel(<, Nat)
<1>1. IsWellFoundedOn(R, Nat)
  BY NatLessThanWellFounded
<1>2. \A x, y \in Nat : x < y => <<x, y>> \in R
  BY DEF OpToRel
<1> HIDE DEF R
<1>3. PICK x \in T : \A y \in T : ~(<<y, x>> \in R)
  BY <1>1, WFMin
<1>4. ASSUME NEW y \in T PROVE x <= y
  <2>1. x \in Nat /\ y \in Nat /\ ~(y < x)
    BY <1>2, <1>3
  <2> QED BY <2>1
<1> QED BY <1>4

\* A set that has 0, and with each number the next one, has all of them.
LEMMA Induct ==
  ASSUME NEW T, 0 \in T, \A n \in Nat : n \in T => n + 1 \in T
  PROVE  Nat \subseteq T
<1>1. SUFFICES ASSUME Nat \ T # {} PROVE FALSE
  OBVIOUS
<1>2. PICK x \in Nat \ T : \A y \in Nat \ T : x <= y
  BY <1>1, Least
<1>3. x # 0 /\ x - 1 \in Nat /\ x - 1 \in T
  BY <1>2
<1> QED BY <1>2, <1>3

-----------------------------------------------------------------------------
(* Connections and destinations *)

\* A row that was never used has not been moved under anybody, and nothing names it: what fits a
\* connection when it is validated goes on fitting it until the commit and after.  The type of a
\* destination stays, so that the column of the connection is all there is to fit.
Known(k) == k = None \/ conns[k].state # "unused"
Fits(k, t) == (conns[k].state = "there" /\ conns[k].type = t) \/ conns[k].moved
RequestFits(r) ==
  /\ r.new => /\ dests[r.dest].state = "unused" /\ Fits(r.row.conn, r.row.type)
              /\ \A q \in waiting : q.dest = r.dest => q = r
  /\ ~r.new => /\ dests[r.dest].state # "unused"
               /\ "state" \in r.columns => r.row.state = "deleted"
               /\ "conn" \in r.columns => Fits(r.row.conn, dests[r.dest].type)
RegistryInv ==
  /\ RegistryTypeOK /\ MisfitsOnlyByConnection
  /\ \A k \in Conn : (conns[k].state = "unused" => ~conns[k].moved) /\ (conns[k].state = "gone" => conns[k].moved)
  /\ \A c \in Control : ControlThere(c) => Known(controls[c].target)
  /\ \A r \in waiting : RequestFits(r)

LEMMA RowsTyped ==
  ASSUME RegistryInv
  PROVE  /\ conns \in [Conn -> ConnRow] /\ dests \in [Dest -> DestRow] /\ controls \in [Control -> ControlRow]
         /\ links \subseteq Link /\ waiting \subseteq DestAsked /\ changes \in 0..MaxChanges
  BY DEF RegistryInv, RegistryTypeOK

LEMMA RequestTyped ==
  ASSUME NEW r \in DestAsked
  PROVE  r.dest \in Dest /\ r.new \in BOOLEAN /\ r.row \in DestRow /\ r.row.conn \in Conn /\ r.columns \subseteq Written
  BY DEF DestAsked, DestRow

LEMMA ConnsKeep ==
  ASSUME RegistryInv, NEW k \in Conn, NEW row \in ConnRow, conns' = [conns EXCEPT ![k] = row],
         UNCHANGED <<dests, controls, links, waiting>>, changes' \in 0..MaxChanges,
         row.state # "unused", row.state = "gone" => row.moved,
         conns[k].state = "unused" \/ row.moved
           \/ (~conns[k].moved /\ row.state = conns[k].state /\ row.type = conns[k].type)
  PROVE  RegistryInv'
<1>1. conns' \in [Conn -> ConnRow] /\ \A o \in Conn : conns'[o] = IF o = k THEN row ELSE conns[o]
  BY RowsTyped
<1>2. RegistryTypeOK'
  BY <1>1 DEF RegistryInv, RegistryTypeOK
<1>3. ASSUME NEW o \in Conn, NEW t, Fits(o, t)
      PROVE  (conns'[o].state = "there" /\ conns'[o].type = t) \/ conns'[o].moved
  <2>1. conns[o].state # "unused"
    BY <1>3 DEF RegistryInv, Fits
  <2> QED BY <1>1, <1>3, <2>1 DEF Fits
<1>4. ASSUME NEW d \in Dest, DestThere(d)'
      PROVE  LET o == conns'[dests'[d].conn] IN (o.state = "there" /\ o.type = dests'[d].type) \/ o.moved
  <2>1. DestThere(d) /\ dests[d].conn \in Conn
    BY RowsTyped, <1>4 DEF DestThere, DestRow
  <2>2. Fits(dests[d].conn, dests[d].type)
    BY <2>1 DEF RegistryInv, MisfitsOnlyByConnection, Fits
  <2> QED BY <1>3, <2>1, <2>2
<1>5. MisfitsOnlyByConnection'
  BY <1>4 DEF MisfitsOnlyByConnection
<1>6. \A o \in Conn : (conns'[o].state = "unused" => ~conns'[o].moved) /\ (conns'[o].state = "gone" => conns'[o].moved)
  BY <1>1 DEF RegistryInv
<1>7. ASSUME NEW c \in Control, ControlThere(c)' PROVE Known(controls[c].target)'
  <2>1. Known(controls[c].target) /\ controls[c] \in ControlRow
    BY RowsTyped, <1>7 DEF RegistryInv, ControlThere
  <2> QED BY <1>1, <2>1 DEF Known, ControlRow
<1>8. ASSUME NEW r \in waiting PROVE RequestFits(r)'
  <2>1. RequestFits(r) /\ r \in DestAsked /\ r.row.conn \in Conn
    BY RowsTyped, RequestTyped DEF RegistryInv
  <2>2. \A t : Fits(r.row.conn, t) => Fits(r.row.conn, t)'
    BY <1>3, <2>1 DEF Fits
  <2> QED BY <2>1, <2>2 DEF RequestFits
<1> QED BY <1>2, <1>5, <1>6, <1>7, <1>8 DEF RegistryInv

\* A request that is let in fits; the rows are as they were.
LEMMA AskKeeps ==
  ASSUME RegistryInv, Change, UNCHANGED rowVars, NEW r \in DestAsked, waiting' = waiting \union {r},
         r.new => /\ dests[r.dest].state = "unused" /\ Fits(r.row.conn, r.row.type)
                  /\ \A q \in waiting : q.dest # r.dest,
         ~r.new => /\ dests[r.dest].state # "unused"
                   /\ "state" \in r.columns => r.row.state = "deleted"
                   /\ "conn" \in r.columns => Fits(r.row.conn, dests[r.dest].type)
  PROVE  RegistryInv'
<1>1. UNCHANGED <<conns, dests, controls, links>> /\ changes' \in 0..MaxChanges
  BY RowsTyped, SetUpAssumption DEF Change, rowVars
<1>2. RegistryTypeOK' /\ MisfitsOnlyByConnection'
  BY <1>1 DEF RegistryInv, RegistryTypeOK, MisfitsOnlyByConnection, DestThere
<1>3. ASSUME NEW q \in waiting' PROVE RequestFits(q)'
  <2>1. CASE q = r
    <3>1. RequestFits(r)'
      BY <1>1 DEF RequestFits, Fits
    <3> QED BY <2>1, <3>1
  <2>2. CASE q \in waiting /\ q # r
    <3>1. RequestFits(q)
      BY <2>2 DEF RegistryInv
    <3>2. r.new \in BOOLEAN
      BY RequestTyped
    <3>3. q.new => q.dest # r.dest
      BY <2>2, <3>1, <3>2 DEF RequestFits
    <3> QED BY <1>1, <3>1, <3>3 DEF RequestFits, Fits
  <2> QED BY <2>1, <2>2
<1>4. /\ \A k \in Conn : (conns'[k].state = "unused" => ~conns'[k].moved) /\ (conns'[k].state = "gone" => conns'[k].moved)
      /\ \A c \in Control : ControlThere(c)' => Known(controls[c].target)'
  BY <1>1 DEF RegistryInv, ControlThere, Known
<1> QED BY <1>2, <1>3, <1>4 DEF RegistryInv

\* The commit writes the columns the request validated, over whatever the others are by then.
LEMMA DestCommitted == ASSUME RegistryInv, NEW r \in waiting, CommitDest(r) PROVE RegistryInv'
<1> DEFINE d == r.dest
<1> DEFINE row == IF r.new THEN r.row ELSE [c \in DOMAIN dests[d] |-> IF c \in r.columns THEN r.row[c] ELSE dests[d][c]]
<1>1. /\ r \in DestAsked /\ d \in Dest /\ r.row \in DestRow /\ dests[d] \in DestRow /\ r.columns \subseteq Written
      /\ r.new \in BOOLEAN /\ RequestFits(r)
  BY RowsTyped, RequestTyped DEF RegistryInv
<1>2. UNCHANGED <<conns, controls, links, changes>> /\ waiting' = waiting \ {r} /\ dests' = [dests EXCEPT ![d] = row]
  BY <1>1, RowsTyped DEF CommitDest
<1>3. CASE r.new
  <2>1. row = r.row /\ row \in DestRow /\ Fits(row.conn, row.type) /\ \A q \in waiting : q.dest = d => q = r
    BY <1>1, <1>3 DEF RequestFits
  <2> HIDE DEF row
  <2>2. dests' \in [Dest -> DestRow] /\ \A e \in Dest : dests'[e] = IF e = d THEN row ELSE dests[e]
    BY <1>1, <1>2, <2>1, RowsTyped
  <2>3. RegistryTypeOK'
    BY <1>2, <2>2 DEF RegistryInv, RegistryTypeOK
  <2>4. MisfitsOnlyByConnection'
    BY <1>2, <2>1, <2>2 DEF RegistryInv, MisfitsOnlyByConnection, DestThere, Fits
  <2>5. ASSUME NEW q \in waiting' PROVE RequestFits(q)'
    <3>1. q \in waiting /\ q.dest # d /\ q.dest \in Dest /\ RequestFits(q)
      BY <1>2, <2>1, RowsTyped, RequestTyped DEF RegistryInv
    <3>2. dests'[q.dest] = dests[q.dest]
      BY <2>2, <3>1
    <3> QED BY <1>2, <3>1, <3>2 DEF RequestFits, Fits
  <2>6. /\ \A k \in Conn : (conns'[k].state = "unused" => ~conns'[k].moved) /\ (conns'[k].state = "gone" => conns'[k].moved)
        /\ \A c \in Control : ControlThere(c)' => Known(controls[c].target)'
    BY <1>2 DEF RegistryInv, ControlThere, Known
  <2> QED BY <2>3, <2>4, <2>5, <2>6 DEF RegistryInv
<1>4. CASE ~r.new
  <2>1. row = [c \in DOMAIN dests[d] |-> IF c \in r.columns THEN r.row[c] ELSE dests[d][c]]
    BY <1>4
  <2> HIDE DEF row
  <2>2. /\ row \in DestRow /\ row.type = dests[d].type
        /\ row.state = IF "state" \in r.columns THEN r.row.state ELSE dests[d].state
        /\ row.conn = IF "conn" \in r.columns THEN r.row.conn ELSE dests[d].conn
    BY <1>1, <2>1 DEF DestRow, Written
  <2>3. dests' \in [Dest -> DestRow] /\ \A e \in Dest : dests'[e] = IF e = d THEN row ELSE dests[e]
    BY <1>1, <1>2, <2>2, RowsTyped
  <2>4. row.state # "unused"
    BY <1>1, <1>4, <2>2 DEF RequestFits
  <2>5. RegistryTypeOK'
    BY <1>2, <2>3 DEF RegistryInv, RegistryTypeOK
  <2>6. d # None /\ row.state = "there" => Fits(row.conn, row.type)
    <3>1. SUFFICES ASSUME d # None, row.state = "there" PROVE Fits(row.conn, row.type)
      OBVIOUS
    <3>2. "state" \notin r.columns /\ dests[d].state = "there"
      BY <1>1, <1>4, <2>2, <3>1 DEF RequestFits
    <3>3. CASE "conn" \in r.columns
      BY <1>1, <1>4, <2>2, <3>3 DEF RequestFits
    <3>4. CASE "conn" \notin r.columns
      <4>1. Fits(dests[d].conn, dests[d].type)
        BY <1>1, <3>1, <3>2 DEF RegistryInv, MisfitsOnlyByConnection, DestThere, Fits
      <4> QED BY <2>2, <3>4, <4>1
    <3> QED BY <3>3, <3>4
  <2>7. MisfitsOnlyByConnection'
    BY <1>2, <2>3, <2>6 DEF RegistryInv, MisfitsOnlyByConnection, DestThere, Fits
  <2>8. ASSUME NEW q \in waiting' PROVE RequestFits(q)'
    <3>1. q \in waiting /\ q # r /\ q.dest \in Dest /\ q.new \in BOOLEAN /\ RequestFits(q)
      BY <1>2, RowsTyped, RequestTyped DEF RegistryInv
    <3>2. CASE q.dest # d
      <4>1. dests'[q.dest] = dests[q.dest]
        BY <2>3, <3>1, <3>2
      <4> QED BY <1>2, <3>1, <4>1 DEF RequestFits, Fits
    <3>3. CASE q.dest = d
      <4>1. ~q.new
        BY <3>1, <3>3 DEF RequestFits
      <4>2. dests'[q.dest] = row
        BY <2>3, <3>1, <3>3
      <4> QED BY <1>2, <2>2, <2>4, <3>1, <3>3, <4>1, <4>2 DEF RequestFits, Fits
    <3> QED BY <3>2, <3>3
  <2>9. /\ \A k \in Conn : (conns'[k].state = "unused" => ~conns'[k].moved) /\ (conns'[k].state = "gone" => conns'[k].moved)
        /\ \A c \in Control : ControlThere(c)' => Known(controls[c].target)'
    BY <1>2 DEF RegistryInv, ControlThere, Known
  <2> QED BY <2>5, <2>7, <2>8, <2>9 DEF RegistryInv
<1> QED BY <1>1, <1>3, <1>4

LEMMA ConnRequestKeeps == ASSUME RegistryInv, Change, ConnRequest, UNCHANGED waiting PROVE RegistryInv'
<1>1. PICK k \in Conn :
        \/ \E n \in Name, t \in Type : CreateConn(k, n, t) \/ \E a \in BOOLEAN : UpdateConn(k, n, t, a)
        \/ DeleteConn(k)
        \/ \E outcome \in Tested : TestConn(k, outcome)
  BY DEF ConnRequest
<1>2. changes' \in 0..MaxChanges /\ conns[k] \in ConnRow
  BY SetUpAssumption DEF Change, RegistryInv, RegistryTypeOK
<1>3. ASSUME NEW n \in Name, NEW t \in Type, CreateConn(k, n, t) PROVE RegistryInv'
  <2> DEFINE row == [state |-> "there", name |-> n, type |-> t, active |-> TRUE, tested |-> "not_tested", moved |-> FALSE]
  <2>1. row \in ConnRow /\ row.state = "there"
    BY DEF ConnRow, Tested
  <2>2. conns[k].state = "unused" /\ conns' = [conns EXCEPT ![k] = row] /\ UNCHANGED <<dests, controls, links>>
    BY <1>3 DEF CreateConn
  <2> HIDE DEF row
  <2> QED BY <1>2, <2>1, <2>2, ConnsKeep
<1>4. ASSUME NEW n \in Name, NEW t \in Type, NEW a \in BOOLEAN, UpdateConn(k, n, t, a) PROVE RegistryInv'
  <2> DEFINE row == [conns[k] EXCEPT !.name = n, !.type = t, !.active = a, !.moved = conns[k].moved \/ t # conns[k].type]
  <2>1. /\ row \in ConnRow /\ row.state = conns[k].state /\ row.type = t
        /\ row.moved = (conns[k].moved \/ t # conns[k].type)
    BY <1>2 DEF ConnRow
  <2>2. conns[k].state = "there" /\ conns' = [conns EXCEPT ![k] = row] /\ UNCHANGED <<dests, controls, links>>
    BY <1>4 DEF UpdateConn, ConnThere
  <2> HIDE DEF row
  <2> QED BY <1>2, <2>1, <2>2, ConnsKeep
<1>5. ASSUME DeleteConn(k) PROVE RegistryInv'
  <2> DEFINE row == [conns[k] EXCEPT !.state = "gone", !.moved = TRUE]
  <2>1. row \in ConnRow /\ row.moved /\ row.state = "gone"
    BY <1>2 DEF ConnRow
  <2>2. conns' = [conns EXCEPT ![k] = row] /\ UNCHANGED <<dests, controls, links>>
    BY <1>5 DEF DeleteConn
  <2> HIDE DEF row
  <2> QED BY <1>2, <2>1, <2>2, ConnsKeep
<1>6. ASSUME NEW outcome \in Tested, TestConn(k, outcome) PROVE RegistryInv'
  <2> DEFINE row == [conns[k] EXCEPT !.tested = outcome]
  <2>1. row \in ConnRow /\ row.state = conns[k].state /\ row.type = conns[k].type /\ row.moved = conns[k].moved
    BY <1>2 DEF ConnRow
  <2>2. conns' = [conns EXCEPT ![k] = row] /\ UNCHANGED <<dests, controls, links>> /\ conns[k].state = "there"
    BY <1>6 DEF TestConn, ConnThere
  <2> HIDE DEF row
  <2> QED BY <1>2, <2>1, <2>2, ConnsKeep
<1> QED BY <1>1, <1>3, <1>4, <1>5, <1>6

LEMMA DestRequestKeeps == ASSUME RegistryInv, Change, DestRequest, UNCHANGED rowVars PROVE RegistryInv'
<1>1. PICK d \in Dest :
        \/ \E k \in Conn, named, template \in BOOLEAN :
             \/ \E t \in {"postgres", "s3"} : CreateDest(d, k, t, named, template)
             \/ \E a \in BOOLEAN : UpdateDest(d, k, named, template, a)
        \/ DeleteDest(d)
        \/ \E outcome \in {"success", "failed"} : TestDest(d, outcome)
  BY DEF DestRequest
<1>2. dests[d] \in DestRow
  BY RowsTyped
<1>3. ASSUME NEW k \in Conn, NEW t \in {"postgres", "s3"}, NEW named \in BOOLEAN, NEW template \in BOOLEAN,
             CreateDest(d, k, t, named, template)
      PROVE  RegistryInv'
  <2> DEFINE row == DestAs(k, t, named, template)
  <2> DEFINE r == [dest |-> d, new |-> TRUE, row |-> row, columns |-> {}]
  <2>1. row \in DestRow
    BY DEF DestRow, DestAs, Tested
  <2>2. /\ Valid(row) /\ waiting' = waiting \union {r}
        /\ dests[d].state = "unused" /\ \A q \in waiting : q.dest # d
    BY <1>3 DEF CreateDest
  <2>3. Fits(row.conn, row.type)
    BY <2>2 DEF Valid, ConnThere, Fits
  <2> HIDE DEF row
  <2>4. r \in DestAsked /\ r.dest = d /\ r.new /\ r.row = row
    BY <2>1 DEF DestAsked
  <2> HIDE DEF r
  <2> QED BY <2>2, <2>3, <2>4, AskKeeps
\* An update, a deletion or a test, by the row it is to leave.
<1>4. ASSUME NEW row \in DestRow, AskDest(d, row), row.state \in {dests[d].state, "deleted"},
             row.conn # dests[d].conn => Valid(row), row.type = dests[d].type
      PROVE  RegistryInv'
  <2> DEFINE columns == {c \in Written : row[c] # dests[d][c]}
  <2> DEFINE r == [dest |-> d, new |-> FALSE, row |-> row, columns |-> columns]
  <2>1. waiting' = waiting \union {r} /\ dests[d].state = "there"
    BY <1>4 DEF AskDest, DestThere
  <2>2. /\ columns \subseteq Written
        /\ "state" \in columns => row.state = "deleted"
        /\ "conn" \in columns => Fits(row.conn, dests[d].type)
    BY <1>4 DEF Valid, ConnThere, Fits, Written
  <2> HIDE DEF columns
  <2>3. r \in DestAsked /\ r.dest = d /\ ~r.new /\ r.row = row /\ r.columns = columns
    BY <2>2 DEF DestAsked
  <2> HIDE DEF r
  <2> QED BY <2>1, <2>2, <2>3, AskKeeps
<1>5. ASSUME NEW k \in Conn, NEW named \in BOOLEAN, NEW template \in BOOLEAN, NEW a \in BOOLEAN,
             UpdateDest(d, k, named, template, a)
      PROVE  RegistryInv'
  <2> DEFINE row == [dests[d] EXCEPT !.conn = k, !.named = named, !.template = template, !.active = a]
  <2>1. row \in DestRow /\ row.state = dests[d].state /\ row.type = dests[d].type
    BY <1>2 DEF DestRow
  <2>2. Valid(row) /\ AskDest(d, row)
    BY <1>5 DEF UpdateDest
  <2> HIDE DEF row
  <2> QED BY <1>4, <2>1, <2>2
<1>6. ASSUME DeleteDest(d) PROVE RegistryInv'
  <2> DEFINE row == [dests[d] EXCEPT !.state = "deleted", !.active = FALSE]
  <2>1. row \in DestRow /\ row.state = "deleted" /\ row.conn = dests[d].conn /\ row.type = dests[d].type
    BY <1>2 DEF DestRow
  <2>2. AskDest(d, row)
    BY <1>6 DEF DeleteDest
  <2> HIDE DEF row
  <2> QED BY <1>4, <2>1, <2>2
<1>7. ASSUME NEW outcome \in {"success", "failed"}, TestDest(d, outcome) PROVE RegistryInv'
  <2> DEFINE row == [dests[d] EXCEPT !.tested = outcome]
  <2>1. row \in DestRow /\ row.conn = dests[d].conn /\ row.type = dests[d].type /\ row.state = dests[d].state
    BY <1>2 DEF DestRow, Tested
  <2>2. AskDest(d, row)
    BY <1>7 DEF TestDest
  <2> HIDE DEF row
  <2> QED BY <1>4, <2>1, <2>2
<1> QED BY <1>1, <1>3, <1>5, <1>6, <1>7

\* A control names rows that there were when it is written; no destination depends on one.
LEMMA ControlWritten ==
  ASSUME RegistryInv, NEW c \in Control, NEW row \in ControlRow, controls' = [controls EXCEPT ![c] = row],
         UNCHANGED <<conns, dests, links, waiting>>, changes' \in 0..MaxChanges, row.state = "there" => Known(row.target)
  PROVE  RegistryInv'
<1>1. controls \in [Control -> ControlRow]
  BY DEF RegistryInv, RegistryTypeOK
<1>2. controls' \in [Control -> ControlRow] /\ \A b \in Control : controls'[b] = IF b = c THEN row ELSE controls[b]
  BY <1>1
<1>3. RegistryTypeOK' /\ MisfitsOnlyByConnection'
  BY <1>2 DEF RegistryInv, RegistryTypeOK, MisfitsOnlyByConnection, DestThere
<1>4. ASSUME NEW b \in Control, ControlThere(b)' PROVE Known(controls[b].target)'
  <2>1. controls'[b].target = None \/ conns[controls'[b].target].state # "unused"
    BY <1>2, <1>4 DEF RegistryInv, Known, ControlThere
  <2> QED BY <2>1 DEF Known
<1>5. \A r \in waiting : RequestFits(r)'
  BY DEF RegistryInv, RequestFits, Fits
<1> QED BY <1>3, <1>4, <1>5 DEF RegistryInv

LEMMA ControlRequestKeeps == ASSUME RegistryInv, Change, UNCHANGED waiting, NEW c \in Control PROVE
  /\ \A source, target \in Conn \union {None}, dest \in Dest \union {None} :
       (\E b \in BOOLEAN : CreateControl(c, source, target, dest, b)) \/ UpdateControl(c, source, target, dest)
         => RegistryInv'
  /\ SwitchControl(c) \/ DeleteControl(c) => RegistryInv'
<1>1. changes' \in 0..MaxChanges /\ controls[c] \in ControlRow
  BY SetUpAssumption DEF Change, RegistryInv, RegistryTypeOK
<1>2. ASSUME NEW source \in Conn \union {None}, NEW target \in Conn \union {None}, NEW dest \in Dest \union {None},
             Offered(source, target, dest)
      PROVE  Known(target)
  BY <1>2 DEF Offered, Known
<1>3. ASSUME NEW source \in Conn \union {None}, NEW target \in Conn \union {None},
             NEW dest \in Dest \union {None}, NEW b \in BOOLEAN, CreateControl(c, source, target, dest, b)
      PROVE  RegistryInv'
  <2> DEFINE row == [state |-> "there", source |-> source, target |-> target, dest |-> dest, bucket |-> b, active |-> TRUE]
  <2>1. row \in ControlRow /\ row.target = target
    BY DEF ControlRow
  <2>2. /\ controls' = [controls EXCEPT ![c] = row] /\ UNCHANGED <<conns, dests, links>> /\ Offered(source, target, dest)
    BY <1>3 DEF CreateControl
  <2> HIDE DEF row
  <2> QED BY <1>1, <1>2, <2>1, <2>2, ControlWritten
<1>4. ASSUME NEW source \in Conn \union {None}, NEW target \in Conn \union {None},
             NEW dest \in Dest \union {None}, UpdateControl(c, source, target, dest)
      PROVE  RegistryInv'
  <2> DEFINE row == [controls[c] EXCEPT !.source = source, !.target = target, !.dest = dest]
  <2>1. row \in ControlRow /\ row.target = target
    BY <1>1 DEF ControlRow
  <2>2. controls' = [controls EXCEPT ![c] = row] /\ UNCHANGED <<conns, dests, links>> /\ Offered(source, target, dest)
    BY <1>4 DEF UpdateControl
  <2> HIDE DEF row
  <2> QED BY <1>1, <1>2, <2>1, <2>2, ControlWritten
<1>5. ASSUME SwitchControl(c) PROVE RegistryInv'
  <2> DEFINE row == [controls[c] EXCEPT !.active = ~@]
  <2>1. row \in ControlRow /\ row.target = controls[c].target
    BY <1>1 DEF ControlRow
  <2>2. controls' = [controls EXCEPT ![c] = row] /\ UNCHANGED <<conns, dests, links>> /\ ControlThere(c)
    BY <1>5 DEF SwitchControl
  <2>3. Known(controls[c].target)
    BY <2>2 DEF RegistryInv
  <2> HIDE DEF row
  <2> QED BY <1>1, <2>1, <2>2, <2>3, ControlWritten
<1>6. ASSUME DeleteControl(c) PROVE RegistryInv'
  <2> DEFINE row == [controls[c] EXCEPT !.state = "gone"]
  <2>1. row \in ControlRow /\ row.state = "gone"
    BY <1>1 DEF ControlRow
  <2>2. controls' = [controls EXCEPT ![c] = row] /\ UNCHANGED <<conns, dests, links>>
    BY <1>6 DEF DeleteControl
  <2> HIDE DEF row
  <2> QED BY <1>1, <2>1, <2>2, ControlWritten
<1> QED BY <1>3, <1>4, <1>5, <1>6

LEMMA ControlsKeep ==
  ASSUME RegistryInv, Change, ControlRequest \/ LinkRequest, UNCHANGED waiting PROVE RegistryInv'
<1>1. changes' \in 0..MaxChanges
  BY SetUpAssumption DEF Change, RegistryInv, RegistryTypeOK
<1>2. links \subseteq Link
  BY DEF RegistryInv, RegistryTypeOK
<1>3. ASSUME UNCHANGED <<conns, dests, controls>>, links' \subseteq Link PROVE RegistryInv'
  BY <1>1, <1>3 DEF RegistryInv, RegistryTypeOK, MisfitsOnlyByConnection, DestThere, ControlThere, Known, RequestFits, Fits
<1>4. ASSUME NEW c \in Control, NEW d \in Dest, NEW r \in Role, AddLink(c, d, r)
      PROVE  UNCHANGED <<conns, dests, controls>> /\ links' \subseteq Link
  <2> DEFINE row == [control |-> c, dest |-> d, role |-> r, active |-> TRUE]
  <2>1. row \in Link
    BY DEF Link
  <2>2. links' = links \union {row} /\ UNCHANGED <<conns, dests, controls>>
    BY <1>4 DEF AddLink
  <2> HIDE DEF row
  <2> QED BY <1>2, <2>1, <2>2
<1>5. ASSUME NEW l \in links, RemoveLink(l) PROVE UNCHANGED <<conns, dests, controls>> /\ links' \subseteq Link
  BY <1>2, <1>5 DEF RemoveLink
<1>6. ASSUME NEW l \in links, NEW r \in Role, NEW a \in BOOLEAN, UpdateLink(l, r, a)
      PROVE  UNCHANGED <<conns, dests, controls>> /\ links' \subseteq Link
  <2>1. [l EXCEPT !.role = r, !.active = a] \in Link
    BY <1>2 DEF Link
  <2> QED BY <1>2, <1>6, <2>1 DEF UpdateLink
<1>7. CASE ControlRequest
  <2>1. PICK c \in Control :
          \/ \E source, target \in Conn \union {None}, dest \in Dest \union {None} :
               (\E b \in BOOLEAN : CreateControl(c, source, target, dest, b)) \/ UpdateControl(c, source, target, dest)
          \/ SwitchControl(c) \/ DeleteControl(c)
          \/ \E d \in Dest, r \in Role : AddLink(c, d, r)
    BY <1>7 DEF ControlRequest
  <2>2. CASE \E d \in Dest, r \in Role : AddLink(c, d, r)
    BY <1>3, <1>4, <2>2
  <2> QED BY <2>1, <2>2, ControlRequestKeeps
<1>8. CASE LinkRequest
  BY <1>3, <1>5, <1>6, <1>8 DEF LinkRequest
<1> QED BY <1>7, <1>8

LEMMA RegistryStarts == RegistryInit => RegistryInv
<1>1. ASSUME RegistryInit PROVE RegistryTypeOK
  BY <1>1, SetUpAssumption DEF RegistryInit, RegistryTypeOK
<1>2. ASSUME RegistryInit PROVE MisfitsOnlyByConnection
  BY <1>2, SetUpAssumption DEF RegistryInit, MisfitsOnlyByConnection, DestThere
<1>3. ASSUME RegistryInit
      PROVE  \A k \in Conn : (conns[k].state = "unused" => ~conns[k].moved) /\ (conns[k].state = "gone" => conns[k].moved)
  BY <1>3, SetUpAssumption DEF RegistryInit
<1>4. ASSUME RegistryInit PROVE \A c \in Control : ControlThere(c) => Known(controls[c].target)
  BY <1>4, SetUpAssumption DEF RegistryInit, ControlThere, Known
<1>5. ASSUME RegistryInit PROVE \A r \in waiting : RequestFits(r)
  BY <1>5 DEF RegistryInit
<1> QED BY <1>1, <1>2, <1>3, <1>4, <1>5 DEF RegistryInv

LEMMA RegistryStep == RegistryInv /\ [RegistryNext]_registryVars => RegistryInv'
<1>1. ASSUME RegistryInv, UNCHANGED registryVars PROVE RegistryInv'
  BY <1>1 DEF RegistryInv, registryVars, rowVars, RegistryTypeOK, MisfitsOnlyByConnection, DestThere, ControlThere, Known,
              RequestFits, Fits
<1> QED BY <1>1, ConnRequestKeeps, DestRequestKeeps, ControlsKeep, DestCommitted DEF RegistryNext, RegistryRequest

\* validate keeps the destinations that can be chosen fit for their connections, though it reads the
\* row and the connection and the columns are committed later, by any number of requests at a time,
\* whatever is edited, tested or deleted around them, unless the connection itself is retyped or
\* deleted.
THEOREM DestinationsFit == RegistrySpec => []MisfitsOnlyByConnection
<1>1. RegistryInv => MisfitsOnlyByConnection
  BY DEF RegistryInv
<1> QED BY <1>1, RegistryStarts, RegistryStep, PTL DEF RegistrySpec
-----------------------------------------------------------------------------
(* What a run is given *)

ConnOr == Conn \union {None}
Part == [type : Type \union {None}, db : ConnOr, s3 : ConnOr, table : Dest \union Control \union {None},
         path : Dest \union Control \union {None}]
EnvRow == [source : Part, target : Part, keys : ConnOr, endpoint : ConnOr, stores : SUBSET Conn,
           config : SUBSET [control : Control, dest : Dest, conn : Conn]]
\* The keys and the endpoint are of stores that wrote to them, and are there when one did.
OfStores(env) ==
  /\ env.stores # {} => env.keys \in env.stores /\ env.endpoint \in env.stores
  /\ env.stores = {} => env.endpoint = None
Env == {env \in EnvRow : OfStores(env)}
RunRow ==
  [at : {"idle", "arguments", "destination", "control", "links", "refused", "started"}, job : Jobs \union {NoJob},
   env : Env, by : {None, "destination", "control"}, declared : ConnOr, dest : Dest \union {None},
   control : Control \union {None}]
\* The target is that of the connection declared, or that connection has changed.
Whole(t, k) == (IF t.type = "s3" THEN t.s3 ELSE t.db) = k \/ k = None \/ conns[k].moved

RunOK(row) ==
  /\ row \in RunRow /\ (row.at = "arguments" => row.by = None)
  /\ row.by # None => Whole(row.env.target, row.declared)
ConfigInv == RegistryInv /\ RunOK(run)

LEMMA EnvParts ==
  ASSUME NEW env \in Env
  PROVE  env.source \in Part /\ env.target \in Part /\ env.keys \in ConnOr /\ env.endpoint \in ConnOr
         /\ env.config \subseteq [control : Control, dest : Dest, conn : Conn]
  BY DEF Env, EnvRow

\* What leaves the keys and the stores alone.
LEMMA SideWritten ==
  ASSUME NEW env \in Env, NEW part \in Part
  PROVE  /\ [env EXCEPT !.source = part] \in Env /\ [env EXCEPT !.source = part].target = env.target
         /\ [env EXCEPT !.target = part] \in Env /\ [env EXCEPT !.target = part].target = part
  BY DEF Env, EnvRow, OfStores

LEMMA WithAwsIs ==
  ASSUME NEW env \in Env, NEW k \in Conn
  PROVE  WithAws(env, k) \in Env /\ WithAws(env, k).target = env.target
<1>1. env.endpoint \in ConnOr /\ env.stores \subseteq Conn /\ env \in EnvRow /\ OfStores(env)
  BY DEF Env, EnvRow
<1> DEFINE e == IF env.endpoint = None THEN k ELSE env.endpoint
<1> DEFINE stores == env.stores \union {k}
<1>2. e \in ConnOr /\ e \in stores /\ k \in stores /\ stores \subseteq Conn /\ k \in ConnOr
  BY <1>1 DEF OfStores, ConnOr
<1>3. WithAws(env, k) = [env EXCEPT !.keys = k, !.endpoint = e, !.stores = stores]
  BY DEF WithAws
<1> HIDE DEF e, stores
<1> DEFINE with == [env EXCEPT !.keys = k, !.endpoint = e, !.stores = stores]
<1>4. /\ with \in EnvRow /\ with.target = env.target
      /\ with.keys = k /\ with.endpoint = e /\ with.stores = stores
  BY <1>1, <1>2 DEF EnvRow
<1> HIDE DEF with
<1>5. OfStores(with)
  BY <1>2, <1>4 DEF OfStores
<1> QED BY <1>3, <1>4, <1>5 DEF Env, with

\* A connection is written to one side; the target is of its type and of itself.
LEMMA InjectIs ==
  ASSUME RegistryInv, NEW env \in Env, NEW k \in Conn, NEW side \in Side
  PROVE  /\ Inject(env, side, k) \in Env
         /\ side = "source" => Inject(env, side, k).target = env.target
         /\ LET t == Inject(env, side, k).target
            IN side = "target" => /\ t.type = conns[k].type
                                  /\ IF conns[k].type = "s3" THEN t.s3 = k ELSE t.db = k
<1>1. conns[k].type \in Type /\ k \in ConnOr
  BY DEF RegistryInv, RegistryTypeOK, ConnRow, ConnOr
<1> DEFINE part == env[side]
<1> DEFINE store == [part EXCEPT !.type = "s3", !.s3 = k]
<1> DEFINE base == [part EXCEPT !.type = conns[k].type, !.db = k]
<1>2. part \in Part
  BY EnvParts DEF Side
<1>3. store \in Part /\ store.type = "s3" /\ store.s3 = k
  BY <1>1, <1>2 DEF Part, Type
<1>4. base \in Part /\ base.type = conns[k].type /\ base.db = k
  BY <1>1, <1>2 DEF Part
<1>5. CASE conns[k].type = "s3"
  <2> DEFINE with == [env EXCEPT ![side].type = "s3", ![side].s3 = k]
  <2>1. with = [env EXCEPT ![side] = store]
    OBVIOUS
  <2>2. Inject(env, side, k) = WithAws(with, k)
    BY <1>5 DEF Inject
  <2> HIDE DEF with, store
  <2>3. with \in Env /\ with.target = IF side = "target" THEN store ELSE env.target
    BY <1>3, <2>1 DEF Side, Env, EnvRow, OfStores
  <2> QED BY <1>3, <1>5, <2>2, <2>3, WithAwsIs DEF Side
<1>6. CASE conns[k].type # "s3"
  <2> DEFINE with == Inject(env, side, k)
  <2>1. with = [env EXCEPT ![side] = base]
    BY <1>6 DEF Inject
  <2> HIDE DEF base, with
  <2>2. with \in Env /\ with.target = IF side = "target" THEN base ELSE env.target
    BY <1>4, <2>1 DEF Side, Env, EnvRow, OfStores
  <2>3. Inject(env, side, k) = with
    BY DEF with
  <2> QED BY <1>4, <1>6, <2>2, <2>3 DEF Side
<1> QED BY <1>5, <1>6

LEMMA InjectThereIs ==
  ASSUME RegistryInv, NEW env \in Env, NEW k \in ConnOr, NEW side \in Side
  PROVE  /\ InjectThere(env, side, k) \in Env
         /\ side = "source" => InjectThere(env, side, k).target = env.target
<1>1. CASE ConnThere(k)
  <2>1. k \in Conn
    BY <1>1 DEF ConnThere, ConnOr
  <2> QED BY <1>1, <2>1, InjectIs DEF InjectThere
<1>2. CASE ~ConnThere(k)
  BY <1>2 DEF InjectThere
<1> QED BY <1>1, <1>2

LEMMA NamedByIs ==
  ASSUME NEW env \in Env, NEW type \in Type, NEW who \in Dest \union Control
  PROVE  /\ NamedBy(env, type, who) \in Env /\ NamedBy(env, type, who).target.type = type
         /\ NamedBy(env, type, who).target.s3 = env.target.s3 /\ NamedBy(env, type, who).target.db = env.target.db
<1>1. env.target \in Part
  BY EnvParts
<1> DEFINE store == [env.target EXCEPT !.type = type, !.path = who]
<1> DEFINE base == [env.target EXCEPT !.type = type, !.table = who]
<1>2. store \in Part /\ store.type = type /\ store.s3 = env.target.s3 /\ store.db = env.target.db
  BY <1>1 DEF Part
<1>3. base \in Part /\ base.type = type /\ base.s3 = env.target.s3 /\ base.db = env.target.db
  BY <1>1 DEF Part
<1>4. NamedBy(env, type, who) = [env EXCEPT !.target = IF type = "s3" THEN store ELSE base]
  BY DEF NamedBy
<1> HIDE DEF store, base
<1> QED BY <1>2, <1>3, <1>4, SideWritten

\* The environments after each argument, up to the n-th.
Added(env, refs, n, f) ==
  f = [i \in 0..n |-> IF i = 0 THEN env ELSE Inject(f[i - 1], refs[i].side, Named(refs[i].name))]

LEMMA AddedExist == ASSUME NEW env, NEW refs PROVE \A n \in Nat : \E f : Added(env, refs, n, f)
<1> DEFINE T == {n \in Nat : \E f : Added(env, refs, n, f)}
<1> DEFINE Next(e, i) == Inject(e, refs[i].side, Named(refs[i].name))
<1>1. 0 \in T
  <2>1. Added(env, refs, 0, [i \in 0..0 |-> env])
    BY DEF Added
  <2> QED BY <2>1
<1>2. ASSUME NEW n \in Nat, n \in T PROVE n + 1 \in T
  <2>1. PICK f : f = [i \in 0..n |-> IF i = 0 THEN env ELSE Next(f[i - 1], i)]
    BY <1>2 DEF Added
  <2> DEFINE g == [i \in 0..(n + 1) |-> IF i <= n THEN f[i] ELSE Next(f[n], i)]
  <2> HIDE DEF Next
  <2>2. \A i \in 0..n : f[i] = IF i = 0 THEN env ELSE Next(f[i - 1], i)
    BY <2>1
  <2>3. \A i \in 0..(n + 1) : g[i] = IF i = 0 THEN env ELSE Next(g[i - 1], i)
    <3> SUFFICES ASSUME NEW i \in 0..(n + 1) PROVE g[i] = IF i = 0 THEN env ELSE Next(g[i - 1], i)
      OBVIOUS
    <3>1. CASE i = 0
      BY <3>1, <2>2
    <3>2. CASE i \in 1..n
      <4>1. g[i] = f[i] /\ g[i - 1] = f[i - 1] /\ i \in 0..n
        BY <3>2
      <4> QED BY <4>1, <2>2, <3>2
    <3>3. CASE i = n + 1
      <4>1. g[i] = Next(f[n], i) /\ g[i - 1] = f[n]
        BY <3>3
      <4> QED BY <4>1, <3>3
    <3> QED BY <3>1, <3>2, <3>3
  <2>4. g = [i \in 0..(n + 1) |-> IF i = 0 THEN env ELSE Next(g[i - 1], i)]
    BY <2>3
  <2>5. Added(env, refs, n + 1, g)
    BY <2>4 DEF Added, Next
  <2> QED BY <2>5
<1> HIDE DEF T
<1>3. Nat \subseteq T
  BY <1>1, <1>2, Induct
<1> QED BY <1>3 DEF T

\* The arguments make an environment: a run is given one whatever they name.
LEMMA WithArgumentsIs ==
  ASSUME RegistryInv, NEW env \in Env, NEW refs \in Seq([side : Side, name : Name]),
         \A i \in DOMAIN refs : Usable(refs[i].name)
  PROVE  WithArguments(env, refs) \in Env
<1> DEFINE N == Len(refs)
<1>1. N \in Nat /\ \A i \in 1..N : refs[i] \in [side : Side, name : Name] /\ Usable(refs[i].name)
  <2> DEFINE R == [side : Side, name : Name]
  <2>1. refs \in Seq(R)
    OBVIOUS
  <2> HIDE DEF R
  <2>2. N \in Nat /\ DOMAIN refs = 1..N /\ refs \in [1..N -> R]
    BY ONLY <2>1
  <2> QED BY <2>2 DEF R
<1> DEFINE f == CHOOSE g : g = [i \in 0..N |-> IF i = 0 THEN env ELSE Inject(g[i - 1], refs[i].side, Named(refs[i].name))]
<1>2. Added(env, refs, N, f)
  <2>1. \E g : Added(env, refs, N, g)
    BY <1>1, AddedExist
  <2> QED BY <2>1 DEF Added
<1>3. WithArguments(env, refs) = f[N]
  BY DEF WithArguments
<1> HIDE DEF f, N
<1>4. \A i \in 0..N : f[i] = IF i = 0 THEN env ELSE Inject(f[i - 1], refs[i].side, Named(refs[i].name))
  BY <1>2 DEF Added
<1> DEFINE T == {n \in Nat : n <= N => f[n] \in Env}
<1>5. 0 \in T
  <2>1. N \in Nat
    BY <1>1
  <2>2. 0 \in 0..N
    BY ONLY <2>1
  <2>3. f[0] = env
    BY <1>4, <2>2
  <2> QED BY <2>3
<1>6. ASSUME NEW n \in Nat, n \in T PROVE n + 1 \in T
  <2>1. SUFFICES ASSUME n + 1 <= N PROVE f[n + 1] \in Env
    OBVIOUS
  <2>2. n + 1 \in 1..N /\ n + 1 \in 0..N /\ n <= N
    BY <1>1, <1>6, <2>1
  <2>3. refs[n + 1].side \in Side /\ Usable(refs[n + 1].name)
    BY <1>1, <2>2
  <2>4. Named(refs[n + 1].name) \in Conn
    BY <2>3 DEF Named, Usable
  <2>5. f[n] \in Env
    BY <1>6, <2>2
  <2>6. f[n + 1] = Inject(f[n], refs[n + 1].side, Named(refs[n + 1].name))
    BY <1>4, <2>2
  <2> QED BY <2>3, <2>4, <2>5, <2>6, InjectIs
<1> HIDE DEF T
<1>7. Nat \subseteq T
  BY <1>5, <1>6, Induct
<1> QED BY <1>1, <1>3, <1>7 DEF T

\* A connection that was retyped or deleted stays one that was.
LEMMA MovedStays == ASSUME RegistryInv, RegistryNext PROVE \A k \in Conn : conns[k].moved => conns'[k].moved
<1>1. conns \in [Conn -> ConnRow] /\ \A k \in Conn : conns[k].state = "unused" => ~conns[k].moved
  BY DEF RegistryInv, RegistryTypeOK
<1>2. CASE ConnRequest
  <2>1. PICK k \in Conn :
          \/ \E n \in Name, t \in Type : CreateConn(k, n, t) \/ \E a \in BOOLEAN : UpdateConn(k, n, t, a)
          \/ DeleteConn(k)
          \/ \E outcome \in Tested : TestConn(k, outcome)
    BY <1>2 DEF ConnRequest
  <2>2. conns[k] \in ConnRow
    BY <1>1
  <2>3. ASSUME NEW n \in Name, NEW t \in Type, CreateConn(k, n, t) PROVE \A o \in Conn : conns[o].moved => conns'[o].moved
    BY <1>1, <2>3 DEF CreateConn
  <2>4. ASSUME NEW n \in Name, NEW t \in Type, NEW a \in BOOLEAN, UpdateConn(k, n, t, a)
        PROVE  \A o \in Conn : conns[o].moved => conns'[o].moved
    BY <1>1, <2>2, <2>4 DEF UpdateConn, ConnRow
  <2>5. ASSUME DeleteConn(k) PROVE \A o \in Conn : conns[o].moved => conns'[o].moved
    BY <1>1, <2>2, <2>5 DEF DeleteConn, ConnRow
  <2>6. ASSUME NEW outcome \in Tested, TestConn(k, outcome) PROVE \A o \in Conn : conns[o].moved => conns'[o].moved
    BY <1>1, <2>2, <2>6 DEF TestConn, ConnRow
  <2> QED BY <2>1, <2>3, <2>4, <2>5, <2>6
<1>3. CASE UNCHANGED conns
  BY <1>3
<1>4. CASE ControlRequest \/ LinkRequest
  <2>2. ASSUME ControlRequest PROVE UNCHANGED conns
    <3>1. /\ \A c, source, target, dest, b : CreateControl(c, source, target, dest, b) => UNCHANGED conns
          /\ \A c, source, target, dest : UpdateControl(c, source, target, dest) => UNCHANGED conns
          /\ \A c : SwitchControl(c) \/ DeleteControl(c) => UNCHANGED conns
          /\ \A c, d, r : AddLink(c, d, r) => UNCHANGED conns
      BY DEF CreateControl, UpdateControl, SwitchControl, DeleteControl, AddLink
    <3> QED BY <2>2, <3>1 DEF ControlRequest
  <2>3. ASSUME LinkRequest PROVE UNCHANGED conns
    BY <2>3 DEF LinkRequest, RemoveLink, UpdateLink
  <2> QED BY <1>4, <2>2, <2>3
<1>5. ASSUME NEW r \in waiting, CommitDest(r) PROVE UNCHANGED conns
  BY <1>5 DEF CommitDest
<1> QED BY <1>2, <1>3, <1>4, <1>5 DEF RegistryNext, RegistryRequest, rowVars

-----------------------------------------------------------------------------
(* The steps of a run *)

\* A step of the run goes by the rows there are; what it leaves in `run' is whole if it declares
\* a target.
LEMMA RunKeeps ==
  ASSUME ConfigInv, NEW row \in RunRow, run' = row, UNCHANGED registryVars, row.at = "arguments" => row.by = None,
         row.by # None => Whole(row.env.target, row.declared)
  PROVE  ConfigInv'
<1>1. RegistryInv'
  BY RegistryStep DEF ConfigInv
<1>2. conns' = conns
  BY DEF registryVars, rowVars
<1>3. row.by # None => Whole(row.env.target, row.declared)'
  BY <1>2 DEF Whole
<1> QED BY <1>1, <1>3 DEF ConfigInv, Whole, RunOK

LEMMA RefusedKeeps == ASSUME ConfigInv, Refused, UNCHANGED registryVars PROVE ConfigInv'
<1> DEFINE row == [run EXCEPT !.at = "refused"]
<1>1. run \in RunRow /\ run' = row
  BY DEF ConfigInv, RunOK, Refused
<1>2. row \in RunRow /\ row.by = run.by /\ row.env = run.env /\ row.declared = run.declared /\ row.at = "refused"
  BY <1>1 DEF RunRow
<1> HIDE DEF row
<1> QED BY <1>1, <1>2, RunKeeps DEF ConfigInv, RunOK

LEMMA ReachedKeeps ==
  ASSUME ConfigInv, NEW step \in {"destination", "control", "links", "started"}, NEW env \in Env, Reached(step, env),
         UNCHANGED registryVars, run.by # None => env.target = run.env.target
  PROVE  ConfigInv'
<1> DEFINE row == [run EXCEPT !.at = step, !.env = env]
<1>1. run \in RunRow /\ run' = row
  BY DEF ConfigInv, RunOK, Reached
<1>2. row \in RunRow /\ row.by = run.by /\ row.env = env /\ row.declared = run.declared /\ row.at = step
  BY <1>1 DEF RunRow
<1> HIDE DEF row
<1> QED BY <1>1, <1>2, RunKeeps DEF ConfigInv, RunOK

LEMMA BeginKeeps == ASSUME ConfigInv, NEW j \in Jobs, Begin(j), UNCHANGED registryVars PROVE ConfigInv'
<1> DEFINE row == [NoRun EXCEPT !.at = "arguments", !.job = j]
<1>1. NoEnv \in Env
  BY DEF NoEnv, NoSide, Env, EnvRow, OfStores, Part, ConnOr
<1>2. row \in RunRow /\ row.by = None
  BY <1>1 DEF RunRow, NoRun, ConnOr
<1>3. run' = row
  BY DEF Begin
<1> HIDE DEF row
<1> QED BY <1>2, <1>3, RunKeeps

\* What a job names.
LEMMA JobNames ==
  ASSUME ConfigInv
  PROVE  /\ run.job.args \in Seq([side : Side, name : Name]) /\ run.job.dest \in Dest \union {None}
         /\ run.job.control \in Control \union {None} /\ run.job.selected \subseteq Control
<1>1. run.job \in Jobs \union {NoJob}
  BY DEF ConfigInv, RunOK, RunRow
<1>2. CASE run.job \in Jobs
  BY <1>2, JobsAssumption
<1>3. CASE run.job = NoJob
  BY <1>3 DEF NoJob
<1> QED BY <1>1, <1>2, <1>3

\* Before the destination of the job is looked at nothing was declared.
LEMMA ArgumentsKeep == ASSUME ConfigInv, ResolveArguments, UNCHANGED registryVars PROVE ConfigInv'
<1>1. CASE Refused
  BY <1>1, RefusedKeeps
<1>2. CASE /\ \A i \in DOMAIN run.job.args : Usable(run.job.args[i].name)
           /\ Reached("destination", WithArguments(run.env, run.job.args))
  <2>1. run.env \in Env /\ RegistryInv /\ run.by = None
    BY DEF ConfigInv, RunOK, RunRow, ResolveArguments
  <2>2. WithArguments(run.env, run.job.args) \in Env
    BY <1>2, <2>1, JobNames, WithArgumentsIs
  <2> QED BY <1>2, <2>1, <2>2, ReachedKeeps
<1> QED BY <1>1, <1>2 DEF ResolveArguments

\* The destination of the job: one that can be used is of the type of its connection.
LEMMA DestinationKeeps == ASSUME ConfigInv, ResolveDestination, UNCHANGED registryVars PROVE ConfigInv'
<1> DEFINE d == run.job.dest
<1>1. run \in RunRow /\ run.env \in Env /\ RegistryInv
  BY DEF ConfigInv, RunOK, RunRow
<1>2. CASE d = None /\ Reached("control", run.env)
  BY <1>1, <1>2, ReachedKeeps
<1>3. CASE Refused
  BY <1>3, RefusedKeeps
<1>4. CASE /\ d # None /\ DestUsable(d)
           /\ run' = [run EXCEPT !.at = "control", !.by = "destination", !.declared = dests[d].conn, !.dest = d,
                                 !.env = NamedBy(Inject(run.env, "target", dests[d].conn), dests[d].type, d)]
  <2> DEFINE k == dests[d].conn
  <2> DEFINE in == Inject(run.env, "target", k)
  <2> DEFINE env == NamedBy(in, dests[d].type, d)
  <2> DEFINE row == [run EXCEPT !.at = "control", !.by = "destination", !.declared = k, !.dest = d, !.env = env]
  <2>1. d \in Dest /\ DestThere(d)
    BY <1>4, JobNames DEF DestUsable
  <2>2. dests[d] \in DestRow
    BY <1>1, <2>1 DEF RegistryInv, RegistryTypeOK
  <2>3. k \in Conn /\ k \in ConnOr /\ dests[d].type \in Type
    BY <2>2 DEF DestRow, ConnOr, Type
  <2>4. (conns[k].state = "there" /\ conns[k].type = dests[d].type) \/ conns[k].moved
    BY <1>1, <2>1 DEF RegistryInv, MisfitsOnlyByConnection
  <2>5. /\ in \in Env /\ in.target.type = conns[k].type
        /\ IF conns[k].type = "s3" THEN in.target.s3 = k ELSE in.target.db = k
    BY <1>1, <2>3, InjectIs DEF Side
  <2> HIDE DEF in
  <2>6. /\ env \in Env /\ env.target.type = dests[d].type
        /\ env.target.s3 = in.target.s3 /\ env.target.db = in.target.db
    BY <2>1, <2>3, <2>5, NamedByIs
  <2>7. Whole(env.target, k)
    BY <2>4, <2>5, <2>6 DEF Whole
  <2>8. run' = row
    BY <1>4 DEF in
  <2> HIDE DEF env, k
  <2>9. row \in RunRow /\ row.at = "control" /\ row.env = env /\ row.declared = k
    BY <1>1, <2>1, <2>3, <2>6 DEF RunRow
  <2> HIDE DEF row
  <2> QED BY <2>7, <2>8, <2>9, RunKeeps
<1> QED BY <1>2, <1>3, <1>4 DEF ResolveDestination

\* The control: the destination it names, or the connection its columns name.
LEMMA ControlKeeps == ASSUME ConfigInv, ResolveControl, UNCHANGED registryVars PROVE ConfigInv'
<1> DEFINE c == run.job.control
<1>1. run \in RunRow /\ run.env \in Env /\ RegistryInv
  BY DEF ConfigInv, RunOK, RunRow
<1>2. CASE c = None \/ (c # None /\ (~ControlThere(c) \/ ~Declares(c)))
  <2>1. Reached("links", run.env)
    BY <1>2 DEF ResolveControl
  <2> QED BY <1>1, <2>1, ReachedKeeps
<1>3. CASE c # None /\ ControlThere(c) /\ Declares(c)
  <2> DEFINE k == TargetConn(c)
  <2> DEFINE from == FromSource(run.env, controls[c].source)
  <2> DEFINE in == InjectThere(from, "target", k)
  <2> DEFINE env == NamedBy(in, TargetType(c), c)
  <2> DEFINE dest == IF run.dest = None /\ DestThere(controls[c].dest) THEN controls[c].dest ELSE run.dest
  <2> DEFINE row == [run EXCEPT !.at = "links", !.by = "control", !.declared = k, !.control = c, !.dest = dest, !.env = env]
  <2>1. run' = row
    BY <1>3 DEF ResolveControl
  <2>2. c \in Control
    BY <1>3, JobNames
  <2>3. controls[c] \in ControlRow
    BY <1>1, <2>2 DEF RegistryInv, RegistryTypeOK
  <2>4. controls[c].source \in ConnOr /\ controls[c].target \in ConnOr /\ controls[c].dest \in Dest \union {None}
    BY <2>3 DEF ControlRow, ConnOr
  <2>5. k \in ConnOr /\ TargetType(c) \in Type
    <3>1. CASE DestThere(controls[c].dest)
      <4>1. dests[controls[c].dest] \in DestRow
        BY <1>1, <2>4, <3>1 DEF RegistryInv, RegistryTypeOK, DestThere
      <4> QED BY <3>1, <4>1 DEF TargetConn, TargetType, DestRow, ConnOr, Type
    <3>2. CASE ~DestThere(controls[c].dest)
      <4>1. ConnThere(controls[c].target) => conns[controls[c].target].type \in Type
        BY <1>1, <2>4 DEF RegistryInv, RegistryTypeOK, ConnRow, ConnOr, ConnThere
      <4> QED BY <2>4, <3>2, <4>1 DEF TargetConn, TargetType, Type
    <3> QED BY <3>1, <3>2
  <2>6. from \in Env
    <3> DEFINE s == InjectThere(run.env, "source", controls[c].source)
    <3> DEFINE type == IF ConnThere(controls[c].source) THEN conns[controls[c].source].type ELSE None
    <3>1. s \in Env
      BY <1>1, <2>4, InjectThereIs DEF Side
    <3>2. type \in Type \union {None}
      BY <1>1, <2>4 DEF RegistryInv, RegistryTypeOK, ConnRow, ConnOr, ConnThere
    <3>3. from = [s EXCEPT !.source.type = type]
      BY DEF FromSource
    <3>4. s.source \in Part
      BY <3>1, EnvParts
    <3> HIDE DEF s, type, from
    <3> DEFINE part == [s.source EXCEPT !.type = type]
    <3>5. part \in Part
      BY <3>2, <3>4 DEF Part
    <3>6. from = [s EXCEPT !.source = part]
      BY <3>3
    <3> HIDE DEF part
    <3> QED BY <3>1, <3>5, <3>6, SideWritten
  <2> HIDE DEF from
  <2>7. in \in Env
    BY <1>1, <2>5, <2>6, InjectThereIs DEF Side
  <2>8. ASSUME ConnThere(k)
        PROVE  /\ in.target.type = conns[k].type
               /\ IF conns[k].type = "s3" THEN in.target.s3 = k ELSE in.target.db = k
    <3>1. k \in Conn /\ in = Inject(from, "target", k)
      BY <2>5, <2>8 DEF ConnThere, ConnOr, InjectThere
    <3> HIDE DEF in, k
    <3> QED BY <1>1, <2>6, <3>1, InjectIs DEF Side
  <2>9. k = None \/ conns[k].moved \/ (ConnThere(k) /\ conns[k].type = TargetType(c))
    <3>1. CASE DestThere(controls[c].dest)
      <4>1. /\ controls[c].dest \in Dest /\ k = dests[controls[c].dest].conn /\ TargetType(c) = dests[controls[c].dest].type
        BY <2>4, <3>1 DEF DestThere, TargetConn, TargetType
      <4>2. (conns[k].state = "there" /\ conns[k].type = TargetType(c)) \/ conns[k].moved
        BY <1>1, <3>1, <4>1 DEF RegistryInv, MisfitsOnlyByConnection
      <4> QED BY <4>2 DEF ConnThere
    <3>2. CASE ~DestThere(controls[c].dest)
      <4>1. k = controls[c].target
        BY <3>2 DEF TargetConn
      <4>2. Known(k)
        BY <1>1, <1>3, <2>2, <4>1 DEF RegistryInv
      <4>3. CASE ConnThere(k)
        BY <3>2, <4>1, <4>3 DEF TargetType
      <4>4. CASE ~ConnThere(k) /\ k # None
        <5>1. k \in Conn /\ conns[k] \in ConnRow /\ conns[k].state # "there" /\ conns[k].state # "unused"
          BY <1>1, <2>5, <4>2, <4>4 DEF ConnOr, ConnThere, Known, RegistryInv, RegistryTypeOK
        <5>2. conns[k].state = "gone"
          BY <5>1 DEF ConnRow
        <5> QED BY <1>1, <5>1, <5>2 DEF RegistryInv
      <4> QED BY <4>3, <4>4
    <3> QED BY <3>1, <3>2
  <2> HIDE DEF in, k
  <2>10. env \in Env /\ env.target.type = TargetType(c) /\ env.target.s3 = in.target.s3 /\ env.target.db = in.target.db
    BY <2>2, <2>5, <2>7, NamedByIs
  <2>11. Whole(env.target, k)
    BY <2>8, <2>9, <2>10 DEF Whole
  <2>12. dest \in Dest \union {None}
    BY <1>1, <2>4 DEF RunRow
  <2> HIDE DEF env, dest
  <2>13. row \in RunRow /\ row.at = "links" /\ row.env = env /\ row.declared = k
    BY <1>1, <2>2, <2>5, <2>10, <2>12 DEF RunRow
  <2> HIDE DEF row
  <2> QED BY <2>1, <2>11, <2>13, RunKeeps
<1> QED BY <1>2, <1>3

\* The destinations linked to the controls selected: the process is given their list, and the keys
\* of their stores; the target it has stays.
LEMMA LinksKeep == ASSUME ConfigInv, ResolveLinks, UNCHANGED registryVars PROVE ConfigInv'
<1>1. /\ run \in RunRow /\ run.env \in Env /\ RegistryInv
      /\ dests \in [Dest -> DestRow] /\ controls \in [Control -> ControlRow] /\ links \subseteq Link
  BY DEF ConfigInv, RunOK, RunRow, RegistryInv, RegistryTypeOK
<1>2. Entries \subseteq [control : Control, dest : Dest, conn : Conn]
  <2>1. Selected \subseteq Control
    BY JobNames DEF Selected
  <2>2. ASSUME NEW c \in Selected, NEW l \in LinkedRows(c)
        PROVE  [control |-> c, dest |-> l.dest, conn |-> dests[l.dest].conn] \in [control : Control, dest : Dest, conn : Conn]
    <3>1. l \in Link
      BY <1>1 DEF LinkedRows
    <3>2. l.dest \in Dest
      BY <3>1 DEF Link
    <3>3. dests[l.dest].conn \in Conn
      BY <1>1, <3>2 DEF DestRow
    <3> QED BY <2>1, <3>2, <3>3
  <2>3. ASSUME NEW e \in Entries PROVE e \in [control : Control, dest : Dest, conn : Conn]
    <3>1. \E c \in Selected : \E l \in LinkedRows(c) : e = [control |-> c, dest |-> l.dest, conn |-> dests[l.dest].conn]
      BY DEF Entries
    <3> QED BY <2>2, <3>1
  <2> QED BY <2>3
<1>3. Stores \subseteq Conn
  <2>1. ASSUME NEW k \in Stores PROVE k \in Conn
    <3>1. ConnThere(k) /\ (k \in {controls[c].source : c \in Selected} \/ \E e \in Entries : k = e.conn)
      BY DEF Stores
    <3>2. CASE \E e \in Entries : k = e.conn
      BY <1>2, <3>2
    <3>3. CASE k \in {controls[c].source : c \in Selected}
      <4>1. PICK c \in Selected : k = controls[c].source
        BY <3>3
      <4>2. c \in Control
        BY JobNames DEF Selected
      <4>3. k \in Conn \union {None}
        BY <1>1, <4>1, <4>2 DEF ControlRow
      <4> QED BY <3>1, <4>3 DEF ConnThere
    <3> QED BY <3>1, <3>2, <3>3
  <2> QED BY <2>1
<1>4. CASE Reached("started", run.env)
  BY <1>1, <1>4, ReachedKeeps
<1>5. ASSUME NEW base \in Env, base.target = run.env.target,
             run' = [run EXCEPT !.at = "started", !.env = [base EXCEPT !.config = Entries]]
      PROVE  ConfigInv'
  <2> DEFINE env == [base EXCEPT !.config = Entries]
  <2>1. env \in Env /\ env.target = run.env.target
    BY <1>2, <1>5 DEF Env, EnvRow, OfStores
  <2>2. Reached("started", env)
    BY <1>5 DEF Reached
  <2> HIDE DEF env
  <2> QED BY <2>1, <2>2, ReachedKeeps
<1>6. CASE run' = [run EXCEPT !.at = "started", !.env.config = Entries]
  BY <1>1, <1>5, <1>6
<1>7. ASSUME NEW first \in Stores, NEW last \in Stores,
             run' = [run EXCEPT !.at = "started", !.env = [WithAws(WithAws(@, first), last) EXCEPT !.config = Entries]]
      PROVE  ConfigInv'
  <2> DEFINE base == WithAws(WithAws(run.env, first), last)
  <2>1. base \in Env /\ base.target = run.env.target
    <3>1. first \in Conn /\ last \in Conn
      BY <1>3
    <3>2. WithAws(run.env, first) \in Env /\ WithAws(run.env, first).target = run.env.target
      BY <1>1, <3>1, WithAwsIs
    <3> QED BY <3>1, <3>2, WithAwsIs
  <2>2. run' = [run EXCEPT !.at = "started", !.env = [base EXCEPT !.config = Entries]]
    BY <1>7
  <2> HIDE DEF base
  <2> QED BY <1>5, <2>1, <2>2
<1> QED BY <1>4, <1>6, <1>7 DEF ResolveLinks

\* A run that is told of a target is given the connection its destination or its control declares,
\* under the type of that connection: the address and the credentials of a database, the bucket of a
\* store, and the keys and the endpoint of that store when it is the only one the run is given.
\* Whatever its arguments named and whatever is edited, linked or deleted while it is prepared.
THEOREM TargetsAreWhole == RunConfigSpec => []TargetIsWhole
<1>1. ConfigInit => ConfigInv
  <2>1. ASSUME ConfigInit PROVE run \in RunRow /\ run.by = None
    <3>1. NoEnv \in Env
      BY DEF NoEnv, NoSide, Env, EnvRow, OfStores, Part, ConnOr
    <3> QED BY <2>1, <3>1 DEF ConfigInit, NoRun, RunRow, ConnOr
  <2> QED BY <2>1, RegistryStarts DEF ConfigInit, ConfigInv, RunOK
<1>2. ConfigInv /\ [ConfigNext]_configVars => ConfigInv'
  <2>1. ASSUME ConfigInv, UNCHANGED configVars PROVE ConfigInv'
    <3>1. RegistryInv'
      BY <2>1, RegistryStep DEF ConfigInv, configVars
    <3> QED BY <2>1, <3>1 DEF ConfigInv, configVars, registryVars, rowVars, RunOK, Whole
  <2>2. ASSUME ConfigInv, RegistryNext, UNCHANGED run PROVE ConfigInv'
    <3>1. RegistryInv' /\ \A k \in Conn : conns[k].moved => conns'[k].moved
      BY <2>2, RegistryStep, MovedStays DEF ConfigInv
    <3>2. ASSUME run.by # None PROVE Whole(run.env.target, run.declared)'
      <4>1. run.declared \in Conn \union {None} /\ Whole(run.env.target, run.declared)
        BY <2>2, <3>2 DEF ConfigInv, RunOK, RunRow, ConnOr
      <4> QED BY <2>2, <3>1, <4>1 DEF Whole
    <3> QED BY <2>2, <3>1, <3>2 DEF ConfigInv, RunOK
  <2>3. ASSUME ConfigInv, RunStep, UNCHANGED registryVars PROVE ConfigInv'
    BY <2>3, BeginKeeps, ArgumentsKeep, DestinationKeeps, ControlKeeps, LinksKeep DEF RunStep
  <2> QED BY <2>1, <2>2, <2>3 DEF ConfigNext
<1>3. ASSUME ConfigInv PROVE TargetIsWhole
  <2>1. SUFFICES ASSUME run.by # None, run.declared # None, ~conns[run.declared].moved
                 PROVE  LET t == run.env.target
                            k == run.declared
                        IN \/ t.type # "s3" /\ t.db = k
                           \/ t.type = "s3" /\ t.s3 = k /\ (run.env.stores = {k} => run.env.keys = k /\ run.env.endpoint = k)
    BY DEF TargetIsWhole
  <2>2. OfStores(run.env)
    BY <1>3 DEF ConfigInv, RunOK, RunRow, Env
  <2>3. Whole(run.env.target, run.declared)
    BY <1>3, <2>1 DEF ConfigInv, RunOK
  <2> QED BY <2>1, <2>2, <2>3 DEF Whole, OfStores
<1> QED BY <1>1, <1>2, <1>3, PTL DEF RunConfigSpec
-----------------------------------------------------------------------------
(* Secrets and variables *)

Given == Value \union {Nothing}
Cell == [by : Key \union {Plain}, of : Given]
BlobCell == [by : Key \union {Plain}, of : [Secret -> Given]]
ConnFields == [of : {"conn"}, pw : Given, sent : BOOLEAN, new : [Secret -> Given], read : BlobCell]
ConnForm == {f \in ConnFields : f.new # NoSecrets => f.sent}
VarFields == [of : {"var"}, v : Var, x : Given \union {"kept"}, kind : {"string", "secret"}, secret : BOOLEAN,
              read : Variable]
VarForm == {f \in VarFields : f.read.state = "there"}
NoForm == [of |-> "nothing"]
SecretsShape ==
  /\ SecretsTypeOK /\ form \in [Admin -> ConnForm \union VarForm \union {NoForm}]
  /\ given \in [{"password"} \union Secret \union Var -> Given]

\* The columns hold what was given last, whatever key they are under; a blob that is under none is
\* empty, and the value of a variable is under a key if and only if the variable is secret.
PasswordKept == password.of = given["password"]
BlobKept ==
  /\ \A s \in Secret \ excused : blob.of[s] = given[s]
  /\ blob.by = Plain => blob.of = NoSecrets
RowKept(row, g) == row.value.of = g /\ (row.value = Empty \/ (row.secret <=> row.value.by \in Key))
VarsKept == \A v \in Var \ excused : vars[v].state = "there" => RowKept(vars[v], given[v])

SecretsInv == SecretsShape /\ PasswordKept /\ BlobKept /\ VarsKept

LEMMA SecretsStored == ASSUME SecretsInv PROVE StoredIsLastGiven
<1>1. password.by = master \/ given["password"] = Nothing => Opened(password) = given["password"]
  BY DEF SecretsInv, PasswordKept, Opened
<1>2. blob.by = master => \A s \in Secret \ excused : Secrets(blob)[s] = given[s]
  BY DEF SecretsInv, BlobKept, Secrets
<1>3. ASSUME NEW v \in Var, Applies(v), v \notin excused, vars[v].value.by \in {master, Plain}
      PROVE  Reveal(vars[v]) = given[v]
  <2>1. vars[v].value # Empty /\ vars[v].state = "there"
    BY <1>3 DEF Applies, Present
  <2>2. vars[v].value.of = given[v] /\ (vars[v].secret <=> vars[v].value.by \in Key)
    BY <1>3, <2>1 DEF SecretsInv, VarsKept, RowKept
  <2>3. vars[v] \in Variable /\ master \in Key
    BY DEF SecretsInv, SecretsShape, SecretsTypeOK
  <2> QED BY <1>3, <2>1, <2>2, <2>3, SecretsAssumption DEF Reveal, Opened, Variable
<1>4. ASSUME Resolved # NoVar PROVE Resolved \in Var /\ Applies(Resolved)
  <2> DEFINE use == {v \in Var : Applies(v)}
  <2> DEFINE first == {v \in use : Scope[v] = "environment"}
  <2>1. use # {} /\ Resolved = CHOOSE v \in use : first # {} => v \in first
    BY <1>4 DEF Resolved
  <2>2. \E v \in use : first # {} => v \in first
    BY <2>1
  <2>3. Resolved \in use
    BY <2>1, <2>2
  <2> QED BY <2>3
<1> QED BY <1>1, <1>2, <1>3, <1>4 DEF StoredIsLastGiven

\* The variables are not touched when the secrets of a connection are, nor these by those.
LEMMA VarsStay ==
  ASSUME SecretsInv, UNCHANGED vars, \A v \in Var : given'[v] = given[v] /\ (v \in excused' <=> v \in excused)
  PROVE  VarsKept'
  BY DEF SecretsInv, VarsKept
LEMMA ConnStays ==
  ASSUME SecretsInv, UNCHANGED <<password, blob>>, given'["password"] = given["password"],
         \A s \in Secret : given'[s] = given[s] /\ (s \in excused' <=> s \in excused)
  PROVE  PasswordKept' /\ BlobKept'
  BY DEF SecretsInv, PasswordKept, BlobKept

\* A form is opened, or given up: nothing that is kept changes.
LEMMA FormsKeep ==
  ASSUME SecretsInv, form' \in [Admin -> ConnForm \union VarForm \union {NoForm}], edits' \in 0..MaxEdits,
         master' \in Key, UNCHANGED <<password, blob, vars, given, excused>>
  PROVE  SecretsInv'
<1>1. SecretsShape'
  BY DEF SecretsInv, SecretsShape, SecretsTypeOK
<1>2. PasswordKept' /\ BlobKept'
  BY ConnStays
<1>3. VarsKept'
  BY VarsStay
<1> QED BY <1>1, <1>2, <1>3 DEF SecretsInv

LEMMA EditsCount == ASSUME SecretsInv, edits < MaxEdits, edits' = edits + 1 PROVE edits' \in 0..MaxEdits
<1>1. edits \in 0..MaxEdits /\ MaxEdits \in Nat
  BY SecretsAssumption DEF SecretsInv, SecretsShape, SecretsTypeOK
<1> QED BY <1>1

LEMMA FormsShape ==
  ASSUME SecretsInv, NEW a \in Admin, NEW f \in ConnForm \union VarForm \union {NoForm}, form' = [form EXCEPT ![a] = f]
  PROVE  form' \in [Admin -> ConnForm \union VarForm \union {NoForm}]
  BY DEF SecretsInv, SecretsShape

LEMMA EditConnKeeps == ASSUME SecretsInv, NEW a \in Admin, EditConn(a) PROVE SecretsInv'
<1>1. PICK pw \in Given, new \in [Secret -> Given], sent \in BOOLEAN :
        /\ new # NoSecrets => sent
        /\ Began(a, [of |-> "conn", pw |-> pw, sent |-> sent, new |-> new, read |-> blob])
        /\ UNCHANGED <<master, password, blob, vars, given, excused>>
  BY DEF EditConn, Given
<1> DEFINE f == [of |-> "conn", pw |-> pw, sent |-> sent, new |-> new, read |-> blob]
<1>2. f \in ConnForm /\ master \in Key
  <2>1. blob \in BlobCell /\ master \in Key
    BY DEF SecretsInv, SecretsShape, SecretsTypeOK, BlobCell, Given
  <2>2. f \in ConnFields /\ f.sent = sent /\ f.new = new
    BY <2>1 DEF ConnFields
  <2> QED BY <1>1, <2>1, <2>2 DEF ConnForm
<1>3. edits < MaxEdits /\ edits' = edits + 1 /\ form' = [form EXCEPT ![a] = f]
  BY <1>1 DEF Began
<1> HIDE DEF f
<1>4. edits' \in 0..MaxEdits
  BY <1>3, EditsCount
<1>5. form' \in [Admin -> ConnForm \union VarForm \union {NoForm}]
  BY <1>2, <1>3, FormsShape
<1> QED BY <1>1, <1>2, <1>4, <1>5, FormsKeep

LEMMA EditVarKeeps == ASSUME SecretsInv, NEW a \in Admin, NEW v \in Var, EditVar(a, v) PROVE SecretsInv'
<1>1. PICK x \in Value \union {Nothing, "kept"}, kind \in {"string", "secret"}, flag \in BOOLEAN :
        /\ Began(a, [of |-> "var", v |-> v, x |-> x, kind |-> kind, secret |-> IsSecret(kind, flag), read |-> vars[v]])
        /\ UNCHANGED <<master, password, blob, vars, given, excused>>
  BY DEF EditVar
<1> DEFINE f == [of |-> "var", v |-> v, x |-> x, kind |-> kind, secret |-> IsSecret(kind, flag), read |-> vars[v]]
<1>2. f \in VarForm /\ master \in Key
  <2>1. vars[v] \in Variable /\ master \in Key /\ vars[v].state = "there"
    BY DEF SecretsInv, SecretsShape, SecretsTypeOK, EditVar, Present
  <2>2. IsSecret(kind, flag) \in BOOLEAN
    BY DEF IsSecret
  <2>3. x \in Given \union {"kept"}
    BY DEF Given
  <2>4. f \in VarFields /\ f.read = vars[v]
    BY <2>1, <2>2, <2>3 DEF VarFields
  <2> QED BY <2>1, <2>4 DEF VarForm
<1>3. edits < MaxEdits /\ edits' = edits + 1 /\ form' = [form EXCEPT ![a] = f]
  BY <1>1 DEF Began
<1> HIDE DEF f
<1>4. edits' \in 0..MaxEdits
  BY <1>3, EditsCount
<1>5. form' \in [Admin -> ConnForm \union VarForm \union {NoForm}]
  BY <1>2, <1>3, FormsShape
<1> QED BY <1>1, <1>2, <1>4, <1>5, FormsKeep

LEMMA RekeyKeeps == ASSUME SecretsInv, NEW k \in Key, Rekey(k) PROVE SecretsInv'
<1>1. edits' \in 0..MaxEdits
  BY EditsCount DEF Rekey
<1>2. form' \in [Admin -> ConnForm \union VarForm \union {NoForm}]
  BY DEF Rekey, NoForm
<1> QED BY <1>1, <1>2, FormsKeep DEF Rekey

\* The columns of a connection: each secret by itself is what was typed or what was read, and what
\* was read is what there is unless it is excused.
LEMMA SaveConnKeeps == ASSUME SecretsInv, NEW a \in Admin, SaveConn(a) PROVE SecretsInv'
<1> DEFINE f == form[a]
<1>1. /\ f \in ConnForm /\ master \in Key /\ password \in Cell /\ blob \in BlobCell /\ excused \subseteq Secret \union Var
      /\ given \in [{"password"} \union Secret \union Var -> Given]
  BY DEF SecretsInv, SecretsShape, SecretsTypeOK, SaveConn, Cell, BlobCell, Given, VarForm, VarFields, NoForm
<1>2. form' \in [Admin -> ConnForm \union VarForm \union {NoForm}]
  BY FormsShape DEF SaveConn, Done, NoForm
<1>3. password' = (IF f.pw # Nothing THEN Sealed(f.pw) ELSE password) /\ UNCHANGED <<master, vars, edits>>
  BY DEF SaveConn
<1>4. given' = [x \in DOMAIN given |-> IF x = "password" /\ f.pw # Nothing THEN f.pw
                                       ELSE IF x \in Secret /\ f.new[x] # Nothing THEN f.new[x] ELSE given[x]]
  BY DEF SaveConn
<1>5. IF ~f.sent THEN blob' = blob /\ excused' = excused
      ELSE /\ blob' = SealedBlob(Merged(f.read, f.new))
           /\ excused' = {x \in excused : x \notin Secret \/ f.new[x] = Nothing} \union
                         {s \in Secret : f.new[s] = Nothing /\ (f.read # blob \/ f.read.by \notin {master, Plain})}
  BY DEF SaveConn
<1>6. f.pw \in Given /\ f.new \in [Secret -> Given] /\ f.read \in BlobCell /\ f.sent \in BOOLEAN
  BY <1>1 DEF ConnForm, ConnFields
<1>11. ~f.sent => \A s \in Secret : f.new[s] = Nothing
  BY <1>1 DEF ConnForm, NoSecrets
<1> HIDE DEF f
<1>7. /\ \A v \in Var : given'[v] = given[v]
      /\ given'["password"] = IF f.pw # Nothing THEN f.pw ELSE given["password"]
      /\ \A s \in Secret : given'[s] = IF f.new[s] # Nothing THEN f.new[s] ELSE given[s]
  BY <1>1, <1>4, SecretsAssumption
<1>8. given' \in [{"password"} \union Secret \union Var -> Given]
  BY <1>1, <1>4, <1>6
<1>9. PasswordKept' /\ password' \in Cell
  BY <1>1, <1>3, <1>6, <1>7 DEF SecretsInv, PasswordKept, Sealed, Kept, Cell
<1>10. ASSUME blob' \in BlobCell, excused' \subseteq Secret \union Var PROVE SecretsShape'
  <2>1. master' \in Key /\ edits' \in 0..MaxEdits /\ vars' \in [Var -> Variable]
    BY <1>3 DEF SecretsInv, SecretsShape, SecretsTypeOK
  <2>2. password' \in [by : Key \union {Plain}, of : Value \union {Nothing}]
    BY <1>9 DEF Cell, Given
  <2>3. blob' \in [by : Key \union {Plain}, of : [Secret -> Value \union {Nothing}]]
    BY <1>10 DEF BlobCell, Given
  <2> QED BY <1>2, <1>8, <1>10, <2>1, <2>2, <2>3 DEF SecretsShape, SecretsTypeOK
<1>12. CASE ~f.sent
  <2>1. BlobKept'
    BY <1>5, <1>7, <1>11, <1>12 DEF SecretsInv, BlobKept
  <2>2. VarsKept'
    BY <1>3, <1>5, <1>7, <1>12, VarsStay
  <2> QED BY <1>1, <1>5, <1>9, <1>10, <1>12, <2>1, <2>2 DEF SecretsInv
<1>13. CASE f.sent
  <2> DEFINE merged == Merged(f.read, f.new)
  <2>1. blob' = SealedBlob(merged)
    BY <1>5, <1>13
  <2>2. excused' = {x \in excused : x \notin Secret \/ f.new[x] = Nothing} \union
                     {s \in Secret : f.new[s] = Nothing /\ (f.read # blob \/ f.read.by \notin {master, Plain})}
    BY <1>5, <1>13
  <2>3. merged \in [Secret -> Given] /\ \A s \in Secret : merged[s] = IF f.new[s] # Nothing THEN f.new[s] ELSE Secrets(f.read)[s]
    <3>1. Secrets(f.read) \in [Secret -> Given]
      BY <1>6 DEF Secrets, BlobCell, NoSecrets, Given
    <3> QED BY <1>6, <3>1 DEF Merged
  <2> HIDE DEF merged
  <2>4. blob' \in BlobCell /\ blob'.of = merged /\ (blob'.by = Plain => blob'.of = NoSecrets)
    <3>1. NoSecrets \in [Secret -> Given]
      BY DEF NoSecrets, Given
    <3> QED BY <1>1, <2>1, <2>3, <3>1, SecretsAssumption DEF SealedBlob, Sealed, Kept, BlobCell
  <2>5. excused' \subseteq Secret \union Var
    BY <1>1, <2>2
  <2>6. ASSUME NEW s \in Secret \ excused' PROVE blob'.of[s] = given'[s]
    <3>1. CASE f.new[s] # Nothing
      BY <1>7, <2>3, <2>4, <3>1
    <3>2. CASE f.new[s] = Nothing
      <4>1. s \notin excused /\ f.read = blob /\ blob.by \in {master, Plain}
        BY <2>2, <2>6, <3>2
      <4>2. blob.of[s] = given[s] /\ (blob.by = Plain => blob.of = NoSecrets)
        BY <4>1 DEF SecretsInv, BlobKept
      <4>3. Secrets(blob) = blob.of
        BY <4>1, <4>2 DEF Secrets
      <4> QED BY <1>7, <2>3, <2>4, <3>2, <4>1, <4>2, <4>3
    <3> QED BY <3>1, <3>2
  <2>7. BlobKept'
    BY <2>4, <2>6 DEF BlobKept
  <2>8. VarsKept'
    BY <1>1, <1>3, <1>7, <2>2, VarsStay, SecretsAssumption
  <2> QED BY <1>9, <1>10, <2>4, <2>5, <2>7, <2>8 DEF SecretsInv
<1> QED BY <1>6, <1>12, <1>13

\* One variable is written: what is not excused holds what it was given.
LEMMA VarWritten ==
  ASSUME SecretsInv, NEW v \in Var, NEW row \in Variable, NEW g \in Given, vars' = [vars EXCEPT ![v] = row],
         given' = [given EXCEPT ![v] = g], edits' \in 0..MaxEdits,
         form' \in [Admin -> ConnForm \union VarForm \union {NoForm}],
         UNCHANGED <<master, password, blob>>, excused' \ {v} = excused \ {v}, excused' \subseteq Secret \union Var,
         v \notin excused' /\ row.state = "there" => RowKept(row, g)
  PROVE  SecretsInv'
<1>1. vars \in [Var -> Variable] /\ given \in [{"password"} \union Secret \union Var -> Given]
  BY DEF SecretsInv, SecretsShape, SecretsTypeOK
<1>2. vars' \in [Var -> Variable] /\ \A u \in Var : vars'[u] = IF u = v THEN row ELSE vars[u]
  BY <1>1
<1>3. /\ given' \in [{"password"} \union Secret \union Var -> Given]
      /\ \A u \in Var : given'[u] = IF u = v THEN g ELSE given[u]
      /\ given'["password"] = given["password"] /\ \A s \in Secret : given'[s] = given[s]
  BY <1>1, SecretsAssumption
<1>4. SecretsShape'
  BY <1>2, <1>3 DEF SecretsInv, SecretsShape, SecretsTypeOK
<1>5. PasswordKept' /\ BlobKept'
  <2>1. \A s \in Secret : s \in excused' <=> s \in excused
    BY SecretsAssumption
  <2> QED BY <1>3, <2>1, ConnStays
<1>6. VarsKept'
  <2>1. ASSUME NEW u \in Var \ excused', vars'[u].state = "there" PROVE RowKept(vars'[u], given'[u])
    <3>1. CASE u = v
      BY <1>2, <1>3, <2>1, <3>1
    <3>2. CASE u # v
      <4>1. u \notin excused /\ vars[u].state = "there"
        BY <1>2, <2>1, <3>2
      <4>2. RowKept(vars[u], given[u])
        BY <4>1 DEF SecretsInv, VarsKept
      <4> QED BY <1>2, <1>3, <3>2, <4>2
    <3> QED BY <3>1, <3>2
  <2> QED BY <2>1 DEF VarsKept, RowKept
<1> QED BY <1>4, <1>5, <1>6 DEF SecretsInv

LEMMA Stored ==
  ASSUME NEW x \in Given, NEW secret \in BOOLEAN, master \in Key
  PROVE  /\ StoreValue(x, secret) \in Cell /\ StoreValue(x, secret).of = x
         /\ StoreValue(x, secret) = Empty \/ (secret <=> StoreValue(x, secret).by \in Key)
  BY SecretsAssumption DEF StoreValue, Sealed, Kept, Empty, Cell, Given

LEMMA CreateVarKeeps == ASSUME SecretsInv, NEW v \in Var, CreateVar(v) PROVE SecretsInv'
<1>1. PICK x \in Value \union {Nothing}, kind \in {"string", "secret"}, flag \in BOOLEAN :
        LET secret == IsSecret(kind, flag) IN
        /\ vars[v].state = "unused" /\ edits < MaxEdits /\ edits' = edits + 1
        /\ vars' = [vars EXCEPT ![v] = [state |-> "there", secret |-> secret, kind |-> kind, active |-> TRUE,
                                        value |-> StoreValue(x, secret)]]
        /\ Recall(v, x) /\ excused' = excused \ {v}
        /\ UNCHANGED <<master, password, blob, form>>
  BY DEF CreateVar
<1> DEFINE secret == IsSecret(kind, flag)
<1>2. secret \in BOOLEAN /\ x \in Given
  BY DEF IsSecret, Given
<1> DEFINE row == [state |-> "there", secret |-> secret, kind |-> kind, active |-> TRUE, value |-> StoreValue(x, secret)]
<1>3. /\ vars' = [vars EXCEPT ![v] = row] /\ given' = [given EXCEPT ![v] = x] /\ excused' = excused \ {v}
      /\ UNCHANGED <<master, password, blob, form>> /\ edits < MaxEdits /\ edits' = edits + 1
  BY <1>1 DEF Recall
<1> HIDE DEF secret
<1>4. master \in Key /\ form \in [Admin -> ConnForm \union VarForm \union {NoForm}] /\ excused \subseteq Secret \union Var
  BY DEF SecretsInv, SecretsShape, SecretsTypeOK
<1>5. StoreValue(x, secret) \in Cell
  BY <1>2, <1>4, Stored
<1>6. row \in Variable
  BY <1>2, <1>5 DEF Variable, Cell, Given
<1>7. RowKept(row, x)
  BY <1>2, <1>4, Stored DEF RowKept
<1> HIDE DEF row
<1>8. edits' \in 0..MaxEdits
  BY <1>3, EditsCount
<1>9. form' \in [Admin -> ConnForm \union VarForm \union {NoForm}] /\ excused' \ {v} = excused \ {v} /\ excused' \subseteq Secret \union Var
  BY <1>3, <1>4
<1> QED BY <1>2, <1>3, <1>6, <1>7, <1>8, <1>9, VarWritten

LEMMA ToggleVarKeeps == ASSUME SecretsInv, NEW v \in Var, ToggleVar(v) PROVE SecretsInv'
<1> DEFINE row == [vars[v] EXCEPT !.active = ~@]
<1>1. /\ vars[v] \in Variable /\ form \in [Admin -> ConnForm \union VarForm \union {NoForm}]
      /\ given \in [{"password"} \union Secret \union Var -> Given] /\ excused \subseteq Secret \union Var
  BY DEF SecretsInv, SecretsShape, SecretsTypeOK
<1>2. /\ vars' = [vars EXCEPT ![v] = row] /\ UNCHANGED <<master, password, blob, form, given, excused>>
      /\ edits < MaxEdits /\ edits' = edits + 1
  BY DEF ToggleVar
<1>3. row \in Variable /\ row.state = vars[v].state /\ row.value = vars[v].value /\ row.secret = vars[v].secret
  BY <1>1 DEF Variable
<1> HIDE DEF row
<1>4. given' = [given EXCEPT ![v] = given[v]] /\ given[v] \in Given
  BY <1>1, <1>2
<1>5. v \notin excused' /\ row.state = "there" => RowKept(row, given[v])
  BY <1>2, <1>3 DEF SecretsInv, VarsKept, RowKept
<1>6. edits' \in 0..MaxEdits
  BY <1>2, EditsCount
<1> QED BY <1>1, <1>2, <1>3, <1>4, <1>5, <1>6, VarWritten

LEMMA DeleteVarKeeps == ASSUME SecretsInv, NEW v \in Var, DeleteVar(v) PROVE SecretsInv'
<1> DEFINE row == [vars[v] EXCEPT !.state = "deleted"]
<1>1. /\ vars[v] \in Variable /\ form \in [Admin -> ConnForm \union VarForm \union {NoForm}]
      /\ excused \subseteq Secret \union Var
  BY DEF SecretsInv, SecretsShape, SecretsTypeOK
<1>2. /\ vars' = [vars EXCEPT ![v] = row] /\ given' = [given EXCEPT ![v] = Nothing]
      /\ UNCHANGED <<master, password, blob, form, excused>>
      /\ edits < MaxEdits /\ edits' = edits + 1
  BY DEF DeleteVar, Recall
<1>3. row \in Variable /\ row.state = "deleted" /\ Nothing \in Given
  BY <1>1 DEF Variable, Given
<1> HIDE DEF row
<1>4. edits' \in 0..MaxEdits
  BY <1>2, EditsCount
<1> QED BY <1>1, <1>2, <1>3, <1>4, VarWritten

\* An update that was not crossed sets the row as the request makes it: to the value given, sealed
\* as the variable is from now on, or to the one it had.
LEMMA SaveVarKeeps == ASSUME SecretsInv, NEW a \in Admin, SaveVar(a) PROVE SecretsInv'
<1> DEFINE f == form[a]
<1> DEFINE found == vars[f.v]
<1> DEFINE sets == f.x \in Value \/ (f.x = Nothing /\ ~f.secret)
<1>1. /\ f \in VarForm /\ master \in Key /\ vars \in [Var -> Variable] /\ excused \subseteq Secret \union Var
      /\ given \in [{"password"} \union Secret \union Var -> Given] /\ edits \in 0..MaxEdits
  BY DEF SecretsInv, SecretsShape, SecretsTypeOK, SaveVar, ConnForm, ConnFields, NoForm
<1>2. form' \in [Admin -> ConnForm \union VarForm \union {NoForm}] /\ UNCHANGED <<master, password, blob, edits>>
  BY FormsShape DEF SaveVar, Done, NoForm
<1>3. CASE found.state = "deleted"
  <2>1. UNCHANGED <<vars, given, excused>>
    BY <1>3 DEF SaveVar
  <2> QED BY <1>1, <1>2, <2>1, FormsKeep
<1>4. CASE found.state # "deleted"
  <2> DEFINE stored == Changed(f, f.read.value, NewValue(f), found.value)
  <2> DEFINE row == [state |-> "there", secret |-> IF f.secret # f.read.secret THEN f.secret ELSE found.secret,
                     kind |-> IF f.kind # f.read.kind THEN f.kind ELSE found.kind, active |-> found.active, value |-> stored]
  <2> DEFINE g == IF sets THEN (IF f.x \in Value THEN f.x ELSE Nothing) ELSE given[f.v]
  <2>1. vars' = [vars EXCEPT ![f.v] = row]
    BY <1>4 DEF SaveVar
  <2>2. given' = IF sets THEN [given EXCEPT ![f.v] = IF f.x \in Value THEN f.x ELSE Nothing] ELSE given
    BY <1>4 DEF SaveVar
  <2>3. excused' = IF found # [f.read EXCEPT !.active = found.active] \/ (~sets /\ f.secret # f.read.secret) THEN excused \union {f.v}
                   ELSE IF sets THEN excused \ {f.v} ELSE excused
    BY <1>4 DEF SaveVar
  <2>4. /\ f.v \in Var /\ f.x \in Given \union {"kept"} /\ f.kind \in {"string", "secret"} /\ f.secret \in BOOLEAN
        /\ f.read \in Variable /\ found \in Variable /\ f.read.state = "there"
    BY <1>1 DEF VarForm, VarFields
  <2> HIDE DEF f, found
  <2>5. f.read.value \in Cell /\ found.value \in Cell /\ found.secret \in BOOLEAN /\ found.active \in BOOLEAN
        /\ found.kind \in {"string", "secret"} /\ f.read.secret \in BOOLEAN
    BY <2>4 DEF Variable, Cell, Given
  <2>6. NewValue(f) \in Cell
    <3>1. f.x \in Value => StoreValue(f.x, f.secret) \in Cell
      BY <1>1, <2>4, Stored DEF Given
    <3>2. Empty \in Cell
      BY DEF Empty, Kept, Cell, Given
    <3> QED BY <2>5, <3>1, <3>2 DEF NewValue
  <2>7. stored \in Cell
    BY <2>5, <2>6 DEF Changed
  <2>8. row \in Variable
    <3> HIDE DEF stored
    <3> QED BY <2>4, <2>5, <2>7 DEF Variable, Cell, Given
  <2>9. g \in Given /\ given' = [given EXCEPT ![f.v] = g]
    BY <1>1, <2>2, <2>4 DEF Given
  <2>10. ASSUME f.v \notin excused' PROVE RowKept(row, g)
    <3>1. found = [f.read EXCEPT !.active = found.active] /\ (sets \/ f.secret = f.read.secret) /\ (sets \/ f.v \notin excused)
      BY <2>3, <2>10
    <3>2. found.value = f.read.value /\ found.secret = f.read.secret /\ found.state = f.read.state
      <4> DEFINE r == [f.read EXCEPT !.active = found.active]
      <4>1. r.value = f.read.value /\ r.secret = f.read.secret /\ r.state = f.read.state
        BY <2>4 DEF Variable
      <4> QED BY <3>1, <4>1
    <3>3. row.secret = f.secret /\ row.value = stored
      BY <2>4, <3>2
    <3>4. stored = NewValue(f)
      BY <3>2 DEF Changed
    <3>5. CASE f.x \in Value
      <4>1. NewValue(f) = StoreValue(f.x, f.secret) /\ g = f.x
        BY <3>5 DEF NewValue
      <4> HIDE DEF row, stored, g
      <4> QED BY <1>1, <2>4, <3>3, <3>4, <3>5, <4>1, Stored DEF RowKept, Given
    <3>6. CASE f.x \notin Value /\ f.x = Nothing /\ ~f.secret
      <4>1. NewValue(f) = Empty /\ g = Nothing
        BY <3>6 DEF NewValue
      <4> HIDE DEF row, stored, g
      <4> QED BY <3>3, <3>4, <4>1 DEF RowKept, Empty, Kept
    <3>7. CASE ~sets
      <4>1. NewValue(f) = f.read.value /\ g = given[f.v] /\ f.v \notin excused /\ f.secret = f.read.secret
        BY <3>1, <3>7 DEF NewValue
      <4>2. found.state = "there" /\ vars[f.v] = found
        BY <2>4, <3>2 DEF found
      <4>3. RowKept(found, given[f.v])
        BY <2>4, <4>1, <4>2 DEF SecretsInv, VarsKept
      <4> HIDE DEF row, stored, g
      <4> QED BY <3>2, <3>3, <3>4, <4>1, <4>3 DEF RowKept
    <3> QED BY <3>5, <3>6, <3>7
  <2> HIDE DEF row, g
  <2>11. excused' \ {f.v} = excused \ {f.v} /\ excused' \subseteq Secret \union Var
    BY <1>1, <2>3, <2>4
  <2>12. edits' \in 0..MaxEdits
    BY <1>1, <1>2
  <2> QED BY <1>2, <2>1, <2>4, <2>8, <2>9, <2>10, <2>11, <2>12, VarWritten
<1> QED BY <1>3, <1>4

\* What can be read of what is stored is what was given last: no interleaving of the requests of
\* administrators, and no replacement of the master key, makes a connection or a job use another
\* secret than the last one given, but for those that StoredIsLastGiven names.
THEOREM SecretsLast == SecretsSpec => []StoredIsLastGiven
<1>1. SecretsInit => SecretsInv
  <2> SUFFICES ASSUME SecretsInit PROVE SecretsInv
    OBVIOUS
  <2>1. master \in Key /\ NoSecrets \in [Secret -> Given] /\ 0 \in 0..MaxEdits
    BY SecretsAssumption DEF SecretsInit, NoSecrets, Given
  <2>2. vars = [v \in Var |-> [state |-> "unused", secret |-> FALSE, kind |-> "string", active |-> TRUE, value |-> Empty]]
    BY DEF SecretsInit
  <2>3. \A v \in Var : vars[v].state = "unused"
    BY <2>2
  <2>4. vars \in [Var -> Variable]
    BY <2>2 DEF Variable, Empty, Kept
  <2>5. SecretsTypeOK
    BY <2>1, <2>4 DEF SecretsInit, SecretsTypeOK, Empty, Kept, Given
  <2>6. form \in [Admin -> ConnForm \union VarForm \union {NoForm}]
    BY DEF SecretsInit, NoForm
  <2>7. given \in [{"password"} \union Secret \union Var -> Given]
    BY DEF SecretsInit, Given
  <2>8. PasswordKept
    BY DEF SecretsInit, PasswordKept, Empty, Kept
  <2>9. BlobKept
    BY DEF SecretsInit, BlobKept, NoSecrets, Kept
  <2> QED BY <2>3, <2>5, <2>6, <2>7, <2>8, <2>9 DEF SecretsInv, SecretsShape, VarsKept
<1>2. SecretsInv /\ [SecretsNext]_secretVars => SecretsInv'
  <2>1. ASSUME SecretsInv, UNCHANGED secretVars PROVE SecretsInv'
    BY <2>1 DEF secretVars, SecretsInv, SecretsShape, SecretsTypeOK, PasswordKept, BlobKept, VarsKept
  <2>2. ASSUME SecretsInv, ConnSecrets PROVE SecretsInv'
    BY <2>2, EditConnKeeps, SaveConnKeeps DEF ConnSecrets
  <2>3. ASSUME SecretsInv, Variables PROVE SecretsInv'
    BY <2>3, CreateVarKeeps, ToggleVarKeeps, DeleteVarKeeps, EditVarKeeps, SaveVarKeeps DEF Variables
  <2>4. ASSUME SecretsInv, Rekeyed PROVE SecretsInv'
    BY <2>4, RekeyKeeps DEF Rekeyed
  <2> QED BY <2>1, <2>2, <2>3, <2>4 DEF SecretsNext
<1>3. SecretsInv => StoredIsLastGiven
  BY SecretsStored
<1> QED BY <1>1, <1>2, <1>3, PTL DEF SecretsSpec
-----------------------------------------------------------------------------
(* The deletion of a job *)

JobRow == [active : BOOLEAN, deleted : BOOLEAN]
\* What a request between its reads and its commit has seen of its job: a start, that it was
\* active; an edit or a deletion, that it was not deleted; a deletion also that nothing ran.
JobAsk == [of : {"start", "update", "delete"}, job : Job, seen : JobRow \X (0..MaxOpen),
           more : How \union BOOLEAN \union {"nothing"}]
SawRight(r) ==
  /\ r.of = "start" => r.seen[1].active
  /\ r.of = "update" => ~r.seen[1].deleted /\ r.more \in BOOLEAN
  /\ r.of = "delete" => ~r.seen[1].deleted /\ r.seen[2] = 0
RequestsOK ==
  /\ ask \in [Actor -> JobAsk \union {NoAsk}]
  /\ \A a \in Actor : ask[a] # NoAsk => SawRight(ask[a])

UseInv == UseTypeOK /\ RequestsOK /\ DeletedIsIdle

LEMMA NoAskIs == NoAsk \notin JobAsk /\ NoAsk.of = "nothing"
  BY DEF NoAsk, JobAsk

\* A request of one actor comes or goes: the others have seen what they had.
LEMMA Asking ==
  ASSUME RequestsOK, NEW a \in Actor, NEW r \in JobAsk \union {NoAsk}, r # NoAsk => SawRight(r),
         ask' = [ask EXCEPT ![a] = r]
  PROVE  RequestsOK'
<1>1. ask \in [Actor -> JobAsk \union {NoAsk}] /\ \A b \in Actor : ask[b] # NoAsk => SawRight(ask[b])
  BY DEF RequestsOK
<1>2. ask' \in [Actor -> JobAsk \union {NoAsk}]
  BY <1>1
<1>3. ASSUME NEW b \in Actor, ask'[b] # NoAsk PROVE SawRight(ask'[b])
  <2>1. CASE b = a
    <3>1. ask'[b] = r
      BY <1>1, <2>1
    <3> QED BY <1>3, <3>1
  <2>2. CASE b # a
    <3>1. ask'[b] = ask[b]
      BY <1>1, <2>2
    <3> QED BY <1>1, <1>3, <3>1
  <2> QED BY <2>1, <2>2
<1> QED BY <1>2, <1>3 DEF RequestsOK

\* A request reads: what it goes by is true then.
LEMMA ReadsKeeps ==
  ASSUME UseInv, NEW a \in Actor, NEW j \in Job, NEW of \in {"start", "update", "delete"},
         NEW more \in How \union BOOLEAN \union {"nothing"}, Reads(a, of, j, more),
         of = "start" => jobs[j].active,
         of = "update" => ~jobs[j].deleted /\ more \in BOOLEAN,
         of = "delete" => ~jobs[j].deleted /\ open[j] = 0
  PROVE  UseInv'
<1> DEFINE r == [of |-> of, job |-> j, seen |-> Seen(j), more |-> more]
<1>1. UNCHANGED <<jobs, scheds, pipes, open, failed, torn>> /\ ask' = [ask EXCEPT ![a] = r]
  BY DEF Reads
<1>2. asks < MaxAsks /\ asks' = asks + 1
  BY DEF Reads
<1>3. UseTypeOK /\ RequestsOK /\ DeletedIsIdle
  BY DEF UseInv
<1>4. UseTypeOK'
  <2>1. asks' \in 0..MaxAsks
    <3>1. asks \in 0..MaxAsks
      BY <1>3 DEF UseTypeOK
    <3> QED BY <1>2, <3>1, UseAssumption
  <2> QED BY <1>1, <1>3, <2>1 DEF UseTypeOK
<1>5. DeletedIsIdle'
  BY <1>1, <1>3 DEF DeletedIsIdle
<1>6. Seen(j) \in JobRow \X (0..MaxOpen) /\ Seen(j)[1] = jobs[j] /\ Seen(j)[2] = open[j]
  BY <1>3 DEF UseTypeOK, Seen, JobRow
<1>7. r \in JobAsk
  BY <1>6 DEF JobAsk
<1>8. SawRight(r)
  BY <1>6 DEF SawRight
<1> HIDE DEF r
<1>9. RequestsOK'
  BY <1>1, <1>3, <1>7, <1>8, Asking
<1> QED BY <1>4, <1>5, <1>9 DEF UseInv

\* A request commits: its job may be spoilt, and that of no other.
LEMMA CommitKeeps ==
  ASSUME UseInv, NEW a \in Actor, ask[a] # NoAsk, ask' = [ask EXCEPT ![a] = NoAsk],
         UNCHANGED <<scheds, pipes, asks>>,
         NEW row \in JobRow, NEW n \in 0..MaxOpen,
         jobs' = [jobs EXCEPT ![ask[a].job] = row], open' = [open EXCEPT ![ask[a].job] = n],
         torn' \in {torn, torn \union {ask[a].job}},
         row.deleted /\ (row.active \/ n # 0) => ask[a].job \in torn'
  PROVE  UseInv'
<1> DEFINE j == ask[a].job
<1>1. UseTypeOK /\ RequestsOK /\ DeletedIsIdle
  BY DEF UseInv
<1>2. ask[a] \in JobAsk
  BY <1>1 DEF RequestsOK
<1>3. j \in Job
  BY <1>2 DEF JobAsk
<1> HIDE DEF j
<1>4. jobs' = [jobs EXCEPT ![j] = row] /\ open' = [open EXCEPT ![j] = n] /\ torn' \in {torn, torn \union {j}}
  BY DEF j
<1>5. UseTypeOK'
  <2>1. jobs \in [Job -> JobRow] /\ open \in [Job -> 0..MaxOpen]
    BY <1>1 DEF UseTypeOK, JobRow
  <2>3. jobs' \in [Job -> JobRow] /\ open' \in [Job -> 0..MaxOpen]
    BY <1>3, <1>4, <2>1
  <2>2. torn' \subseteq Job
    BY <1>1, <1>3, <1>4 DEF UseTypeOK
  <2> QED BY <1>1, <2>2, <2>3 DEF UseTypeOK, JobRow
<1>6. RequestsOK'
  BY <1>1, Asking
<1>7. ASSUME NEW k \in Job \ torn', jobs'[k].deleted PROVE ~jobs'[k].active /\ open'[k] = 0
  <2>1. CASE k = j
    <3>1. jobs'[k] = row /\ open'[k] = n
      BY <1>1, <1>3, <1>4, <2>1 DEF UseTypeOK
    <3>2. j \notin torn'
      BY <1>7, <2>1
    <3> QED BY <1>7, <3>1, <3>2 DEF j
  <2>2. CASE k # j
    <3>1. jobs'[k] = jobs[k] /\ open'[k] = open[k]
      BY <1>1, <1>3, <1>4, <2>2 DEF UseTypeOK
    <3>2. k \notin torn
      BY <1>4, <1>7
    <3> QED BY <1>1, <1>7, <3>1, <3>2 DEF DeletedIsIdle
  <2> QED BY <2>1, <2>2
<1>8. DeletedIsIdle'
  BY <1>7 DEF DeletedIsIdle
<1> QED BY <1>5, <1>6, <1>8 DEF UseInv

\* What the commits have in common: the request, and what became of its job since it read.
LEMMA Committing ==
  ASSUME UseInv, NEW a \in Actor, NEW of \in {"start", "update", "delete"}, Commits(a, of), Torn(a)
  PROVE  /\ ask[a] \in JobAsk /\ ask[a].job \in Job /\ SawRight(ask[a]) /\ ask[a].of = of /\ ask[a] # NoAsk
         /\ ask' = [ask EXCEPT ![a] = NoAsk]
         /\ jobs[ask[a].job] \in JobRow /\ open[ask[a].job] \in 0..MaxOpen
         /\ torn' \in {torn, torn \union {ask[a].job}}
         /\ \/ ask[a].seen = <<jobs[ask[a].job], open[ask[a].job]>> /\ torn' = torn
            \/ (of = "delete" \/ jobs[ask[a].job].deleted) /\ ask[a].job \in torn'
            \/ of # "delete" /\ ~jobs[ask[a].job].deleted /\ torn' = torn
<1>1. UseTypeOK /\ RequestsOK
  BY DEF UseInv
<1>2. ask[a].of = of /\ ask' = [ask EXCEPT ![a] = NoAsk]
  BY DEF Commits
<1>3. ask[a] # NoAsk
  BY <1>2, NoAskIs
<1>4. ask[a] \in JobAsk /\ SawRight(ask[a])
  BY <1>1, <1>3 DEF RequestsOK
<1>5. ask[a].job \in Job
  BY <1>4 DEF JobAsk
<1>6. jobs[ask[a].job] \in JobRow /\ open[ask[a].job] \in 0..MaxOpen
  BY <1>1, <1>5 DEF UseTypeOK, JobRow
<1>7. torn' \in {torn, torn \union {ask[a].job}}
  BY DEF Torn
<1>8. \/ ask[a].seen = <<jobs[ask[a].job], open[ask[a].job]>> /\ torn' = torn
      \/ (of = "delete" \/ jobs[ask[a].job].deleted) /\ ask[a].job \in torn'
      \/ of # "delete" /\ ~jobs[ask[a].job].deleted /\ torn' = torn
  BY <1>2 DEF Torn, Overlapped, Seen
<1> QED BY <1>2, <1>3, <1>4, <1>5, <1>6, <1>7, <1>8

LEMMA StartKeeps == ASSUME UseInv, NEW a \in Actor, Start(a) PROVE UseInv'
<1> DEFINE j == ask[a].job
<1>1. /\ Commits(a, "start") /\ Torn(a) /\ UNCHANGED <<jobs, scheds, pipes, asks>>
      /\ open[j] < MaxOpen /\ open' = [open EXCEPT ![j] = open[j] + 1]
  BY DEF Start
<1>2. /\ SawRight(ask[a]) /\ ask[a].of = "start" /\ ask[a] # NoAsk /\ ask' = [ask EXCEPT ![a] = NoAsk]
      /\ j \in Job /\ jobs[j] \in JobRow /\ open[j] \in 0..MaxOpen
      /\ torn' \in {torn, torn \union {j}}
  BY <1>1, Committing
<1>3. \/ ask[a].seen = <<jobs[j], open[j]>> /\ torn' = torn
      \/ jobs[j].deleted /\ j \in torn'
      \/ ~jobs[j].deleted
  BY <1>1, Committing
<1> HIDE DEF j
<1>4. jobs' = [jobs EXCEPT ![j] = jobs[j]]
  BY <1>1, <1>2 DEF UseInv, UseTypeOK
<1>5. open[j] + 1 \in 0..MaxOpen
  BY <1>1, <1>2, UseAssumption
<1>6. jobs[j].deleted => j \in torn'
  <2>1. CASE ask[a].seen = <<jobs[j], open[j]>> /\ torn' = torn
    <3>1. jobs[j].active
      BY <1>2, <2>1 DEF SawRight
    <3>2. j \notin torn => ~jobs[j].deleted
      BY <1>2, <3>1 DEF UseInv, DeletedIsIdle
    <3> QED BY <2>1, <3>2
  <2> QED BY <1>3, <2>1
<1> QED BY <1>1, <1>2, <1>4, <1>5, <1>6, CommitKeeps DEF j

LEMMA UpdateKeeps == ASSUME UseInv, NEW a \in Actor, Update(a) PROVE UseInv'
<1> DEFINE j == ask[a].job
<1>1. /\ Commits(a, "update") /\ Torn(a) /\ UNCHANGED <<scheds, pipes, open, asks>>
      /\ jobs' = IF ask[a].more # ask[a].seen[1].active THEN [jobs EXCEPT ![j].active = ask[a].more] ELSE jobs
  BY DEF Update
<1>2. /\ SawRight(ask[a]) /\ ask[a].of = "update" /\ ask[a] # NoAsk /\ ask' = [ask EXCEPT ![a] = NoAsk]
      /\ j \in Job /\ jobs[j] \in JobRow /\ open[j] \in 0..MaxOpen
      /\ torn' \in {torn, torn \union {j}}
  BY <1>1, Committing
<1>3. \/ ask[a].seen = <<jobs[j], open[j]>> /\ torn' = torn
      \/ jobs[j].deleted /\ j \in torn'
      \/ ~jobs[j].deleted
  BY <1>1, Committing
<1>4. ~ask[a].seen[1].deleted /\ ask[a].more \in BOOLEAN
  BY <1>2 DEF SawRight
<1> HIDE DEF j
<1>5. open' = [open EXCEPT ![j] = open[j]]
  BY <1>1, <1>2 DEF UseInv, UseTypeOK
<1>6. PICK row \in JobRow : jobs' = [jobs EXCEPT ![j] = row] /\ row.deleted = jobs[j].deleted
  <2>1. jobs \in [Job -> JobRow]
    BY DEF UseInv, UseTypeOK, JobRow
  <2>2. CASE jobs' = jobs
    <3>1. jobs' = [jobs EXCEPT ![j] = jobs[j]]
      BY <2>1, <2>2
    <3> QED BY <1>2, <3>1
  <2>3. CASE jobs' = [jobs EXCEPT ![j].active = ask[a].more]
    <3>1. jobs' = [jobs EXCEPT ![j] = [jobs[j] EXCEPT !.active = ask[a].more]]
      BY <2>3
    <3>2. [jobs[j] EXCEPT !.active = ask[a].more] \in JobRow
          /\ [jobs[j] EXCEPT !.active = ask[a].more].deleted = jobs[j].deleted
      BY <1>2, <1>4 DEF JobRow
    <3> QED BY <3>1, <3>2
  <2> QED BY <1>1, <2>2, <2>3
<1>7. row.deleted => j \in torn'
  <2>1. CASE ask[a].seen = <<jobs[j], open[j]>>
    <3>1. ask[a].seen[1] = jobs[j]
      BY <2>1
    <3> QED BY <1>4, <1>6, <3>1
  <2> QED BY <1>3, <1>6, <2>1
<1> QED BY <1>1, <1>2, <1>5, <1>6, <1>7, CommitKeeps DEF j

LEMMA DeleteKeeps == ASSUME UseInv, NEW a \in Actor, Delete(a) PROVE UseInv'
<1> DEFINE j == ask[a].job
           row == [active |-> jobs[j].active /\ ~ask[a].seen[1].active, deleted |-> TRUE]
<1>1. /\ Commits(a, "delete") /\ Torn(a) /\ UNCHANGED <<scheds, pipes, open, asks>>
      /\ jobs' = [jobs EXCEPT ![j] = row]
  BY DEF Delete
<1>2. /\ SawRight(ask[a]) /\ ask[a].of = "delete" /\ ask[a] # NoAsk /\ ask' = [ask EXCEPT ![a] = NoAsk]
      /\ j \in Job /\ jobs[j] \in JobRow /\ open[j] \in 0..MaxOpen
      /\ torn' \in {torn, torn \union {j}}
  BY <1>1, Committing
<1>3. \/ ask[a].seen = <<jobs[j], open[j]>> /\ torn' = torn
      \/ j \in torn'
  BY <1>1, Committing
<1>4. ask[a].seen[2] = 0
  BY <1>2 DEF SawRight
<1>5. row \in JobRow /\ row.deleted /\ row.active = (jobs[j].active /\ ~ask[a].seen[1].active)
  BY DEF JobRow
<1> HIDE DEF j, row
<1>6. open' = [open EXCEPT ![j] = open[j]]
  BY <1>1, <1>2 DEF UseInv, UseTypeOK
<1>7. row.active \/ open[j] # 0 => j \in torn'
  <2>1. CASE ask[a].seen = <<jobs[j], open[j]>>
    <3>1. ask[a].seen[1] = jobs[j]
      BY <2>1
    <3>2. ask[a].seen[2] = open[j]
      BY <2>1
    <3> QED BY <1>4, <1>5, <3>1, <3>2
  <2> QED BY <1>3, <2>1
<1> QED BY <1>1, <1>2, <1>5, <1>6, <1>7, CommitKeeps DEF j

LEMMA UseNextKeeps == ASSUME UseInv, [UseNext]_useVars PROVE UseInv'
<1>1. UseTypeOK /\ RequestsOK /\ DeletedIsIdle
  BY DEF UseInv
\* Neither the jobs nor what runs changes.
<1>2. ASSUME UNCHANGED <<jobs, open, asks, torn>>, UseTypeOK', RequestsOK' PROVE UseInv'
  BY <1>1, <1>2 DEF UseInv, DeletedIsIdle
<1>3. CASE UNCHANGED useVars
  <2>1. UseTypeOK' /\ RequestsOK'
    BY <1>1, <1>3 DEF useVars, UseTypeOK, RequestsOK
  <2> QED BY <1>2, <1>3, <2>1 DEF useVars
<1>4. ASSUME NEW a \in Actor, Abandon(a) PROVE UseInv'
  <2>1. UseTypeOK'
    BY <1>1, <1>4 DEF Abandon, UseTypeOK
  <2>2. ask' = [ask EXCEPT ![a] = NoAsk]
    BY <1>4 DEF Abandon
  <2>3. RequestsOK'
    BY <1>1, <2>2, Asking
  <2> QED BY <1>2, <1>4, <2>1, <2>3 DEF Abandon
<1>5. ASSUME NEW a \in Actor, NEW j \in Job, AskStart(a, j) PROVE UseInv'
  <2>1. PICK how \in How : Starts(how, j) /\ Reads(a, "start", j, how)
    BY <1>5 DEF AskStart
  <2>2. jobs[j].active
    BY <2>1 DEF Starts, Runnable, How
  <2> QED BY <2>1, <2>2, ReadsKeeps
<1>6. ASSUME NEW a \in Actor, NEW j \in Job, AskUpdate(a, j) PROVE UseInv'
  <2>1. PICK active \in BOOLEAN : ~jobs[j].deleted /\ Reads(a, "update", j, active)
    BY <1>6 DEF AskUpdate
  <2> QED BY <2>1, ReadsKeeps
<1>7. ASSUME NEW a \in Actor, NEW j \in Job, AskDelete(a, j) PROVE UseInv'
  <2>1. ~jobs[j].deleted /\ ~(open[j] > 0) /\ Reads(a, "delete", j, "nothing")
    BY <1>7 DEF AskDelete, Blocked
  <2>2. open[j] = 0
    <3>1. open[j] \in 0..MaxOpen
      BY <1>1 DEF UseTypeOK
    <3> QED BY <2>1, <3>1, UseAssumption
  <2> QED BY <2>1, <2>2, ReadsKeeps
<1>8. ASSUME NEW j \in Job, End(j) PROVE UseInv'
  <2>1. open[j] > 0 /\ open' = [open EXCEPT ![j] = open[j] - 1] /\ UNCHANGED <<jobs, scheds, pipes, ask, asks, torn>>
    BY <1>8 DEF End
  <2>2. open \in [Job -> 0..MaxOpen] /\ open[j] - 1 \in 0..MaxOpen
    BY <1>1, <2>1, UseAssumption DEF UseTypeOK
  <2>3. UseTypeOK'
    BY <1>1, <2>1, <2>2 DEF UseTypeOK
  <2>4. RequestsOK'
    BY <1>1, <2>1 DEF RequestsOK
  <2>5. \A k \in Job : open'[k] = open[k] \/ (k = j /\ open[j] # 0)
    BY <2>1, <2>2
  <2>6. DeletedIsIdle'
    BY <1>1, <2>1, <2>5 DEF DeletedIsIdle
  <2> QED BY <2>3, <2>4, <2>6 DEF UseInv
<1>9. ASSUME NEW s \in Sched, SetSchedule(s) PROVE UseInv'
  <2>1. UseTypeOK'
    BY <1>1, <1>9 DEF SetSchedule, UseTypeOK
  <2>2. RequestsOK'
    BY <1>1, <1>9 DEF SetSchedule, RequestsOK
  <2> QED BY <1>2, <1>9, <2>1, <2>2 DEF SetSchedule
<1>10. ASSUME NEW p \in Pipe, SwitchPipe(p) \/ DeletePipe(p) \/ PutGraph(p) PROVE UseInv'
  <2>1. UNCHANGED <<jobs, scheds, open, ask, asks, torn>>
    BY <1>10 DEF SwitchPipe, DeletePipe, PutGraph
  <2>2. pipes' \in [Pipe -> [state : {"there", "gone"}, active : BOOLEAN, steps : SUBSET Job]]
    <3>1. pipes \in [Pipe -> [state : {"there", "gone"}, active : BOOLEAN, steps : SUBSET Job]]
      BY <1>1 DEF UseTypeOK
    <3>2. CASE SwitchPipe(p)
      BY <3>1, <3>2 DEF SwitchPipe
    <3>3. CASE DeletePipe(p)
      BY <3>1, <3>3 DEF DeletePipe
    <3>4. CASE PutGraph(p)
      BY <3>1, <3>4 DEF PutGraph
    <3> QED BY <1>10, <3>2, <3>3, <3>4
  <2>3. UseTypeOK'
    BY <1>1, <2>1, <2>2 DEF UseTypeOK
  <2>4. RequestsOK'
    BY <1>1, <2>1 DEF RequestsOK
  <2> QED BY <1>2, <2>1, <2>3, <2>4
<1> QED BY <1>3, <1>4, <1>5, <1>6, <1>7, <1>8, <1>9, <1>10, StartKeeps, UpdateKeeps, DeleteKeeps DEF UseNext

LEMMA UseInitKeeps == ASSUME UseInit PROVE UseInv
<1>1. UseTypeOK
  BY UseAssumption DEF UseInit, UseTypeOK
<1>2. RequestsOK
  BY DEF UseInit, RequestsOK
<1>3. DeletedIsIdle
  BY DEF UseInit, DeletedIsIdle
<1> QED BY <1>1, <1>2, <1>3 DEF UseInv

\* _delete_blockers and is_active, which create_job_execution looks at for every caller, are
\* enough to keep a deleted job idle: whatever schedule, pipeline, backfill or retry comes
\* later, for any number of each and of requests, unless one overlapped the deletion.
THEOREM DeletedJobsAreIdle == UseSpec => []DeletedIsIdle
<1>1. UseInit => UseInv
  BY UseInitKeeps
<1>2. UseInv /\ [UseNext]_useVars => UseInv'
  BY UseNextKeeps
<1>3. UseInv => DeletedIsIdle
  BY DEF UseInv
<1> QED BY <1>1, <1>2, <1>3, PTL DEF UseSpec
-----------------------------------------------------------------------------
(* Tags *)

TagRow == [state : {"unused", "there", "deleted"}, slug : Slug \union {"none"}, active : BOOLEAN]
TagAsk == [step : {"none", "insert", "compare", "save", "delete"}, job : Tagged \union {"none"}, tag : Tag \union {"none"},
           lacks : SUBSET Slug, found : SUBSET Tag, had : SUBSET Tag, mixed : BOOLEAN]
TagsShape ==
  /\ tags \in [Tag -> TagRow] /\ tagAsk \in [Asker -> TagAsk] /\ tagOf \subseteq Tagged \X Tag
  /\ wanted \in [Tagged -> SUBSET Tag] /\ crossed \subseteq Tagged

\* What a request under way goes by.  A put of its own that compared has seen every link of its
\* job, and one that is gone was deleted with its tag; what is being deleted is on no job, but on
\* those whose put crossed the deletion.
Putting == {"insert", "compare", "save"}
OfJob(L, j) == {t \in Tag : <<j, t>> \in L}
AskFits(r, T, L, C) ==
  /\ r.step \in Putting => r.job \in Tagged
  /\ r.step = "save" /\ ~r.mixed =>
       OfJob(L, r.job) \subseteq r.had /\ \A t \in r.had \ OfJob(L, r.job) : T[t].state = "deleted"
  /\ r.step = "delete" =>
       r.tag \in Tag /\ T[r.tag].state # "unused" /\ \A j \in Tagged \ C : r.tag \notin OfJob(L, j)
AsksFit == \A a \in Asker : AskFits(tagAsk[a], tags, tagOf, crossed)
\* Two puts of one job know of each other.
Clash(r, q) == r.step \in Putting /\ q.step \in Putting /\ r.job = q.job => r.mixed
PutsClash == \A a, b \in Asker : a # b => Clash(tagAsk[a], tagAsk[b])
LinkedThere == \A j \in Tagged : \A t \in HasTag(j) : tags[t].state = "there"

TagsInv == TagsShape /\ AsksFit /\ PutsClash /\ LinkedThere /\ TagsAreThoseGiven

LEMMA NoTagAskFits == NoTagAsk \in TagAsk /\ NoTagAsk.step = "none" /\ NoTagAsk.job = "none" /\ NoTagAsk.mixed = FALSE
  BY DEF NoTagAsk, TagAsk

LEMMA TagsOf == ASSUME NEW j PROVE HasTag(j) \subseteq Tag
  BY DEF HasTag

\* One request changes, and nothing else: it fits, and if it is a put it was one before or it
\* clashes as it must.
LEMMA AskAlone ==
  ASSUME TagsInv, NEW a \in Asker, NEW r \in TagAsk, tagAsk' = [tagAsk EXCEPT ![a] = r],
         UNCHANGED <<tags, tagOf, wanted, crossed>>, AskFits(r, tags, tagOf, crossed),
         \/ r.step \notin Putting
         \/ r.job = tagAsk[a].job /\ r.mixed = tagAsk[a].mixed /\ tagAsk[a].step \in Putting
  PROVE  TagsInv'
<1>1. tagAsk \in [Asker -> TagAsk]
  BY DEF TagsInv, TagsShape
<1>2. tagAsk' \in [Asker -> TagAsk] /\ \A b \in Asker : tagAsk'[b] = IF b = a THEN r ELSE tagAsk[b]
  BY <1>1
<1>3. TagsShape'
  BY <1>2 DEF TagsInv, TagsShape
<1>5. AsksFit'
  <2>1. ASSUME NEW b \in Asker PROVE AskFits(tagAsk'[b], tags, tagOf, crossed)
    <3>1. AskFits(tagAsk[b], tags, tagOf, crossed)
      BY DEF TagsInv, AsksFit
    <3> QED BY <1>2, <3>1
  <2>2. tags' = tags /\ tagOf' = tagOf /\ crossed' = crossed
    OBVIOUS
  <2> QED BY <2>1, <2>2 DEF AsksFit
<1>6. PutsClash'
  <2>1. ASSUME NEW b \in Asker, NEW c \in Asker, b # c PROVE Clash(tagAsk'[b], tagAsk'[c])
    <3>1. Clash(tagAsk[b], tagAsk[c])
      BY <2>1 DEF TagsInv, PutsClash
    <3> QED BY <1>2, <2>1, <3>1 DEF Clash
  <2> QED BY <2>1 DEF PutsClash, Clash
<1>7. LinkedThere' /\ TagsAreThoseGiven'
  BY DEF TagsInv, LinkedThere, TagsAreThoseGiven, HasTag
<1> QED BY <1>3, <1>5, <1>6, <1>7 DEF TagsInv

\* A put begins: it and those of the same job know of each other.
LEMMA PutKeeps ==
  ASSUME TagsInv, NEW a \in Asker, NEW j \in Tagged, NEW S \in SUBSET Slug, PutTags(a, j, S)
  PROVE  TagsInv'
<1> DEFINE knows == \E c \in Asker \ {a} : tagAsk[c].job = j
<1> DEFINE found == {t \in There : tags[t].slug \in S}
<1> DEFINE lacks == S \ SlugsOf(There)
<1> DEFINE r == [NoTagAsk EXCEPT !.step = "insert", !.job = j, !.lacks = lacks, !.found = found, !.mixed = knows]
<1> DEFINE met(b) == [tagAsk[b] EXCEPT !.mixed = @ \/ tagAsk[b].job = j]
<1>1. tagAsk \in [Asker -> TagAsk] /\ tags \in [Tag -> TagRow]
  BY DEF TagsInv, TagsShape
<1>3. tagAsk' = [b \in Asker |-> IF b = a THEN r ELSE met(b)] /\ UNCHANGED <<tags, tagOf, wanted, crossed>>
  BY DEF PutTags
<1>12. knows = \E c \in Asker \ {a} : tagAsk[c].job = j
  OBVIOUS
<1>13. found \subseteq Tag /\ lacks \subseteq Slug /\ knows \in BOOLEAN
  BY DEF There
<1> HIDE DEF knows, found, lacks
<1>2. r \in TagAsk /\ r.step = "insert" /\ r.job = j /\ r.mixed = knows
  BY <1>13 DEF TagAsk, NoTagAsk
<1>4. ASSUME NEW b \in Asker
      PROVE  /\ met(b) \in TagAsk /\ met(b).step = tagAsk[b].step /\ met(b).job = tagAsk[b].job
             /\ met(b).tag = tagAsk[b].tag /\ met(b).had = tagAsk[b].had
             /\ met(b).mixed = (tagAsk[b].mixed \/ tagAsk[b].job = j)
  <2>1. tagAsk[b] \in TagAsk
    BY <1>1
  <2> QED BY <2>1 DEF TagAsk
<1>5. r.step = "insert" /\ r.job = j /\ r.mixed = \E c \in Asker \ {a} : tagAsk[c].job = j
  BY <1>2, <1>12
<1> HIDE DEF r, met
<1>6. \A b \in Asker : tagAsk'[b] = IF b = a THEN r ELSE met(b)
  BY <1>3
<1>7. TagsShape'
  <2>1. tagAsk' \in [Asker -> TagAsk]
    BY <1>2, <1>3, <1>4
  <2> QED BY <1>3, <2>1 DEF TagsInv, TagsShape
<1>8. AsksFit'
  <2>1. AskFits(r, tags, tagOf, crossed)
    BY <1>5 DEF AskFits
  <2>2. ASSUME NEW b \in Asker PROVE AskFits(met(b), tags, tagOf, crossed)
    <3>1. AskFits(tagAsk[b], tags, tagOf, crossed)
      BY DEF TagsInv, AsksFit
    <3>2. tagAsk[b] \in TagAsk
      BY <1>1
    <3> QED BY <1>4, <3>1, <3>2 DEF AskFits
  <2>3. \A b \in Asker : AskFits(tagAsk'[b], tags, tagOf, crossed)
    BY <1>6, <2>1, <2>2
  <2> QED BY <1>3, <2>3 DEF AsksFit
<1>9. PutsClash'
  <2>1. ASSUME NEW b \in Asker, NEW c \in Asker, b # c PROVE Clash(tagAsk'[b], tagAsk'[c])
    <3>1. Clash(tagAsk[b], tagAsk[c])
      BY <2>1 DEF TagsInv, PutsClash
    <3>2. CASE b = a
      <4>1. tagAsk'[b] = r /\ tagAsk'[c] = met(c)
        BY <1>6, <2>1, <3>2
      <4> QED BY <1>4, <1>5, <2>1, <3>2, <4>1 DEF Clash
    <3>3. CASE c = a
      <4>1. tagAsk'[c] = r /\ tagAsk'[b] = met(b)
        BY <1>6, <2>1, <3>3
      <4> QED BY <1>4, <1>5, <2>1, <3>3, <4>1 DEF Clash
    <3>4. CASE b # a /\ c # a
      <4>1. tagAsk'[c] = met(c) /\ tagAsk'[b] = met(b)
        BY <1>6, <3>4
      <4> QED BY <1>4, <2>1, <3>1, <4>1 DEF Clash
    <3> QED BY <3>2, <3>3, <3>4
  <2> QED BY <2>1 DEF PutsClash
<1>10. LinkedThere' /\ TagsAreThoseGiven'
  BY <1>3 DEF TagsInv, LinkedThere, TagsAreThoseGiven, HasTag
<1> QED BY <1>7, <1>8, <1>9, <1>10 DEF TagsInv

\* Tags are created, renamed and switched: none goes, and none that was becomes new.
LEMMA TagsChangeKeeps ==
  ASSUME TagsInv, NEW t \in Tag, NEW row \in TagRow, tags' = [tags EXCEPT ![t] = row],
         UNCHANGED <<tagOf, tagAsk, wanted, crossed>>,
         tags[t].state \in {"unused", "there"}, row.state = "there"
  PROVE  TagsInv'
<1>1. tags \in [Tag -> TagRow] /\ tagAsk \in [Asker -> TagAsk]
  BY DEF TagsInv, TagsShape
<1>2. tags' \in [Tag -> TagRow] /\ \A u \in Tag : tags'[u] = IF u = t THEN row ELSE tags[u]
  BY <1>1
<1>3. TagsShape'
  BY <1>2 DEF TagsInv, TagsShape
<1>4. ASSUME NEW b \in Asker PROVE AskFits(tagAsk[b], tags', tagOf, crossed)
  <2>1. AskFits(tagAsk[b], tags, tagOf, crossed)
    BY DEF TagsInv, AsksFit
  <2>2. tagAsk[b].had \subseteq Tag
    BY <1>1 DEF TagAsk
  <2> QED BY <1>2, <2>1, <2>2 DEF AskFits
<1>5. AsksFit'
  BY <1>4 DEF AsksFit
<1>6. PutsClash'
  BY DEF TagsInv, PutsClash
<1>7. LinkedThere'
  BY <1>2 DEF TagsInv, LinkedThere, HasTag
<1>8. TagsAreThoseGiven'
  BY DEF TagsInv, TagsAreThoseGiven, HasTag
<1> QED BY <1>3, <1>5, <1>6, <1>7, <1>8 DEF TagsInv

\* A tag is deleted with its links: of a job that was not crossed it had none.
LEMMA DeleteTagKeeps == ASSUME TagsInv, NEW a \in Asker, DeleteTag(a) PROVE TagsInv'
<1> DEFINE t == tagAsk[a].tag
<1> DEFINE row == [tags[t] EXCEPT !.state = "deleted"]
<1>1. tags \in [Tag -> TagRow] /\ tagAsk \in [Asker -> TagAsk] /\ tagOf \subseteq Tagged \X Tag
  BY DEF TagsInv, TagsShape
<1>2. t \in Tag /\ tags[t].state # "unused" /\ \A j \in Tagged \ crossed : t \notin OfJob(tagOf, j)
  <2>1. AskFits(tagAsk[a], tags, tagOf, crossed) /\ tagAsk[a].step = "delete"
    BY DEF TagsInv, AsksFit, DeleteTag
  <2> QED BY <2>1 DEF AskFits
<1>3. row \in TagRow /\ row.state = "deleted"
  <2>1. tags[t] \in TagRow
    BY <1>1, <1>2
  <2> QED BY <2>1 DEF TagRow
<1>4. /\ tags' = [tags EXCEPT ![t] = row] /\ tagOf' = {l \in tagOf : l[2] # t}
      /\ tagAsk' = [tagAsk EXCEPT ![a] = NoTagAsk] /\ UNCHANGED <<wanted, crossed>>
  BY DEF DeleteTag, Answered
<1> HIDE DEF t, row
<1>5. tags' \in [Tag -> TagRow] /\ \A u \in Tag : tags'[u] = IF u = t THEN row ELSE tags[u]
  BY <1>1, <1>2, <1>3, <1>4
<1>6. tagAsk' \in [Asker -> TagAsk] /\ \A b \in Asker : tagAsk'[b] = IF b = a THEN NoTagAsk ELSE tagAsk[b]
  BY <1>1, <1>4, NoTagAskFits
<1>7. TagsShape'
  BY <1>1, <1>4, <1>5, <1>6 DEF TagsInv, TagsShape
<1>8. \A j : OfJob(tagOf', j) = OfJob(tagOf, j) \ {t}
  BY <1>4 DEF OfJob
<1>9. AsksFit'
  <2>1. ASSUME NEW b \in Asker PROVE AskFits(tagAsk'[b], tags', tagOf', crossed)
    <3>1. AskFits(tagAsk[b], tags, tagOf, crossed) /\ tagAsk[b].had \subseteq Tag
      BY <1>1 DEF TagsInv, AsksFit, TagAsk
    <3>2. CASE b = a
      BY <1>6, <3>2, NoTagAskFits DEF AskFits, Putting
    <3>3. CASE b # a
      <4>1. tagAsk'[b] = tagAsk[b]
        BY <1>6, <3>3
      <4>2. AskFits(tagAsk[b], tags', tagOf', crossed)
        BY <1>2, <1>3, <1>5, <1>8, <3>1 DEF AskFits
      <4> QED BY <4>1, <4>2
    <3> QED BY <3>2, <3>3
  <2> QED BY <1>4, <2>1 DEF AsksFit
<1>10. PutsClash'
  <2>1. ASSUME NEW b \in Asker, NEW c \in Asker, b # c PROVE Clash(tagAsk'[b], tagAsk'[c])
    <3>1. Clash(tagAsk[b], tagAsk[c])
      BY <2>1 DEF TagsInv, PutsClash
    <3> QED BY <1>6, <3>1, NoTagAskFits DEF Clash, Putting
  <2> QED BY <2>1 DEF PutsClash
<1>11. LinkedThere'
  BY <1>4, <1>5 DEF TagsInv, LinkedThere, HasTag
<1>12. TagsAreThoseGiven'
  <2>1. ASSUME NEW j \in Tagged \ crossed PROVE HasTag(j)' = wanted[j]
    <3>1. HasTag(j) = wanted[j] /\ t \notin HasTag(j)
      BY <1>2 DEF TagsInv, TagsAreThoseGiven, HasTag, OfJob
    <3>2. HasTag(j)' = HasTag(j) \ {t}
      BY <1>4 DEF HasTag
    <3> QED BY <3>1, <3>2
  <2> QED BY <1>4, <2>1 DEF TagsAreThoseGiven
<1> QED BY <1>7, <1>9, <1>10, <1>11, <1>12 DEF TagsInv

\* The links of a job are brought to what its put asked for.  If no other put of the job was under
\* way the links it compared are all there are, but for those of tags that were deleted, and with
\* those asked for still there the job has them exactly.
LEMMA SaveKeeps == ASSUME TagsInv, NEW a \in Asker, SaveTags(a) PROVE TagsInv'
<1> DEFINE me == tagAsk[a]
<1> DEFINE j == tagAsk[a].job
<1>1. /\ tags \in [Tag -> TagRow] /\ tagAsk \in [Asker -> TagAsk] /\ tagOf \subseteq Tagged \X Tag
      /\ wanted \in [Tagged -> SUBSET Tag] /\ crossed \subseteq Tagged
  BY DEF TagsInv, TagsShape
<1>2. /\ me.step = "save" /\ me \in TagAsk /\ j \in Tagged
      /\ tagAsk' = [tagAsk EXCEPT ![a] = NoTagAsk]
  BY <1>1 DEF TagsInv, AsksFit, AskFits, SaveTags, Answered, Putting
<1>3. CASE UNCHANGED <<tags, tagOf, wanted, crossed>>
  <2>1. AskFits(NoTagAsk, tags, tagOf, crossed)
    BY NoTagAskFits DEF AskFits, Putting
  <2> QED BY <1>2, <1>3, <2>1, NoTagAskFits, AskAlone DEF Putting
<1>4. CASE ~UNCHANGED <<tags, tagOf, wanted, crossed>>
  <2> DEFINE fits == me.found \subseteq There /\ (me.found \ me.had) \intersect HasTag(j) = {}
  <2>1. fits
    BY <1>4 DEF SaveTags
  <2>2. PICK new \in SUBSET {t \in Tag : tags[t].state = "unused"} :
          /\ \E name \in [new -> me.lacks] :
               tags' = [t \in Tag |-> IF t \in new THEN [state |-> "there", slug |-> name[t], active |-> TRUE] ELSE tags[t]]
          /\ tagOf' = {l \in tagOf : l[1] # j} \union {<<j, t>> : t \in Synced(a, me.found \union new)}
          /\ wanted' = [wanted EXCEPT ![j] = me.found \union new]
    BY <1>4 DEF SaveTags
  <2>3. PICK name \in [new -> me.lacks] :
          tags' = [t \in Tag |-> IF t \in new THEN [state |-> "there", slug |-> name[t], active |-> TRUE] ELSE tags[t]]
    BY <2>2
  <2>4. \/ crossed' = crossed \union {j}
        \/ /\ crossed' = crossed \ {j} /\ ~me.mixed
           /\ \A b \in Asker : tagAsk[b].step = "delete" => tagAsk[b].tag \notin me.found
    BY <1>4 DEF SaveTags
  <2> DEFINE target == me.found \union new
  <2>5. \A t \in Tag : t \in There <=> tags[t].state = "there"
    BY DEF There
  <2>6. new \subseteq Tag /\ me.found \subseteq Tag /\ me.had \subseteq Tag /\ \A t \in new : tags[t].state = "unused"
    BY <1>2 DEF TagAsk
  <2>7. /\ tags' \in [Tag -> TagRow]
        /\ \A t \in Tag : t \notin new => tags'[t] = tags[t]
        /\ \A t \in new : tags'[t].state = "there"
    <3>1. ASSUME NEW t \in new PROVE [state |-> "there", slug |-> name[t], active |-> TRUE] \in TagRow
      <4>1. name[t] \in Slug
        BY <1>2, <2>3 DEF TagAsk
      <4> QED BY <4>1 DEF TagRow
    <3> QED BY <1>1, <2>3, <2>6, <3>1
  <2>8. tagAsk' \in [Asker -> TagAsk] /\ \A b \in Asker : tagAsk'[b] = IF b = a THEN NoTagAsk ELSE tagAsk[b]
    BY <1>1, <1>2, NoTagAskFits
  <2>9. /\ \A i \in Tagged : i # j => OfJob(tagOf', i) = OfJob(tagOf, i)
        /\ OfJob(tagOf', j) = Synced(a, target) \intersect Tag
    BY <2>2 DEF OfJob
  <2>10. OfJob(tagOf', j) \subseteq OfJob(tagOf, j) \union target
    BY <2>9 DEF Synced, HasTag, OfJob
  <2>11. tagOf' \subseteq Tagged \X Tag /\ wanted' \in [Tagged -> SUBSET Tag] /\ crossed' \subseteq Tagged
    <3>1. Synced(a, me.found \union new) \subseteq Tag
      BY <2>6 DEF Synced, HasTag
    <3>2. tagOf' \subseteq Tagged \X Tag
      <4>1. {<<j, t>> : t \in Synced(a, me.found \union new)} \subseteq Tagged \X Tag
        <5>1. \A X, i : i \in Tagged /\ X \subseteq Tag => {<<i, t>> : t \in X} \subseteq Tagged \X Tag
          OBVIOUS
        <5> DEFINE X == Synced(a, me.found \union new)
        <5>2. j \in Tagged /\ X \subseteq Tag
          BY <1>2, <3>1
        <5> HIDE DEF X, j
        <5>3. {<<j, t>> : t \in X} \subseteq Tagged \X Tag
          BY ONLY <5>1, <5>2
        <5> QED BY <5>3, Zenon DEF X, j
      <4>2. {l \in tagOf : l[1] # j} \subseteq Tagged \X Tag
        BY <1>1
      <4> QED BY <2>2, <4>1, <4>2
    <3>3. me.found \union new \subseteq Tag
      BY <2>6
    <3>4. wanted' \in [Tagged -> SUBSET Tag]
      BY <1>1, <2>2, <3>3
    <3> QED BY <1>1, <1>2, <2>4, <3>2, <3>4
  <2>12. TagsShape'
    BY <2>7, <2>8, <2>11 DEF TagsShape
  <2>13. \A i \in Tagged : \A t \in OfJob(tagOf, i) : tags[t].state = "there"
    BY DEF TagsInv, LinkedThere, HasTag, OfJob
  <2>14. \A i \in Tagged : \A t \in OfJob(tagOf', i) : tags'[t].state = "there"
    BY <1>2, <2>1, <2>5, <2>6, <2>7, <2>9, <2>10, <2>13 DEF OfJob
  <2>15. ASSUME ~me.mixed PROVE OfJob(tagOf', j) = target
    <3>1. OfJob(tagOf, j) \subseteq me.had /\ \A t \in me.had \ OfJob(tagOf, j) : tags[t].state = "deleted"
      BY <1>2, <2>15 DEF TagsInv, AsksFit, AskFits
    <3>2. \A t \in target : tags[t].state # "deleted"
      BY <2>1, <2>5, <2>6
    <3>3. Synced(a, target) = (OfJob(tagOf, j) \ (me.had \ target)) \union (target \ me.had)
      BY DEF Synced, HasTag, OfJob
    <3>4. Synced(a, target) = target
      BY <3>1, <3>2, <3>3
    <3> QED BY <2>6, <2>9, <3>4
  <2> HIDE DEF fits, target
  <2>16. AsksFit'
    <3>1. ASSUME NEW b \in Asker PROVE AskFits(tagAsk'[b], tags', tagOf', crossed')
      <4>1. CASE b = a
        BY <2>8, <4>1, NoTagAskFits DEF AskFits, Putting
      <4>2. CASE b # a
        <5>1. tagAsk'[b] = tagAsk[b] /\ tagAsk[b] \in TagAsk
          BY <1>1, <2>8, <4>2
        <5>2. AskFits(tagAsk[b], tags, tagOf, crossed)
          BY DEF TagsInv, AsksFit
        <5>3. ASSUME tagAsk[b].step = "save", ~tagAsk[b].mixed
              PROVE  /\ OfJob(tagOf', tagAsk[b].job) \subseteq tagAsk[b].had
                     /\ \A t \in tagAsk[b].had \ OfJob(tagOf', tagAsk[b].job) : tags'[t].state = "deleted"
          <6>1. Clash(tagAsk[b], tagAsk[a])
            BY <4>2 DEF TagsInv, PutsClash
          <6>2. tagAsk[b].job # j /\ tagAsk[b].job \in Tagged
            BY <1>2, <5>2, <5>3, <6>1 DEF Clash, AskFits, Putting
          <6>3. OfJob(tagOf', tagAsk[b].job) = OfJob(tagOf, tagAsk[b].job)
            BY <2>9, <6>2
          <6>4. tagAsk[b].had \subseteq Tag
            BY <5>1 DEF TagAsk
          <6> QED BY <2>6, <2>7, <5>2, <5>3, <6>3, <6>4 DEF AskFits
        <5>4. ASSUME tagAsk[b].step = "delete"
              PROVE  /\ tagAsk[b].tag \in Tag /\ tags'[tagAsk[b].tag].state # "unused"
                     /\ \A i \in Tagged \ crossed' : tagAsk[b].tag \notin OfJob(tagOf', i)
          <6> DEFINE d == tagAsk[b].tag
          <6>1. d \in Tag /\ tags[d].state # "unused" /\ \A i \in Tagged \ crossed : d \notin OfJob(tagOf, i)
            BY <5>2, <5>4 DEF AskFits
          <6>2. d \notin new
            BY <2>6, <6>1
          <6>3. tags'[d].state # "unused"
            BY <2>7, <6>1, <6>2
          <6>4. ASSUME NEW i \in Tagged \ crossed' PROVE d \notin OfJob(tagOf', i)
            <7>1. CASE i # j
              BY <2>4, <2>9, <6>1, <6>4, <7>1
            <7>2. CASE i = j
              <8>1. ~me.mixed /\ d \notin me.found
                BY <2>4, <5>4, <6>4, <7>2
              <8> QED BY <2>15, <6>2, <7>2, <8>1 DEF target
            <7> QED BY <7>1, <7>2
          <6> QED BY <6>1, <6>3, <6>4
        <5>5. tagAsk[b].step \in Putting => tagAsk[b].job \in Tagged
          BY <5>2 DEF AskFits
        <5> QED BY <5>1, <5>3, <5>4, <5>5 DEF AskFits
      <4> QED BY <4>1, <4>2
    <3> QED BY <3>1 DEF AsksFit
  <2>17. PutsClash'
    <3>1. ASSUME NEW b \in Asker, NEW c \in Asker, b # c PROVE Clash(tagAsk'[b], tagAsk'[c])
      <4>1. Clash(tagAsk[b], tagAsk[c])
        BY <3>1 DEF TagsInv, PutsClash
      <4> QED BY <2>8, <4>1, NoTagAskFits DEF Clash, Putting
    <3> QED BY <3>1 DEF PutsClash
  <2>18. LinkedThere'
    BY <2>14 DEF LinkedThere, HasTag, OfJob
  <2>19. TagsAreThoseGiven'
    <3>1. ASSUME NEW i \in Tagged \ crossed' PROVE OfJob(tagOf', i) = wanted'[i]
      <4>1. CASE i # j
        <5>1. OfJob(tagOf, i) = wanted[i]
          BY <2>4, <3>1, <4>1 DEF TagsInv, TagsAreThoseGiven, HasTag, OfJob
        <5> QED BY <1>1, <2>2, <2>9, <3>1, <4>1, <5>1
      <4>2. CASE i = j
        <5>1. ~me.mixed
          BY <2>4, <3>1, <4>2
        <5>2. wanted'[j] = target
          BY <1>1, <1>2, <2>2 DEF target
        <5> QED BY <2>15, <4>2, <5>1, <5>2
      <4> QED BY <4>1, <4>2
    <3> QED BY <3>1 DEF TagsAreThoseGiven, HasTag, OfJob
  <2> QED BY <2>12, <2>16, <2>17, <2>18, <2>19 DEF TagsInv
<1> QED BY <1>3, <1>4

LEMMA TagsStep == ASSUME TagsInv, TagsNext PROVE TagsInv'
<1>1. PICK a \in Asker :
        \/ \E j \in Tagged, S \in SUBSET Slug : PutTags(a, j, S)
        \/ InsertTags(a) \/ CompareTags(a) \/ SaveTags(a) \/ DeleteTag(a)
        \/ \E t \in Tag : UpdateTag(a, t) \/ ToggleTag(a, t) \/ DeleteAsked(a, t) \/ \E s \in Slug : CreateTag(a, t, s)
  BY DEF TagsNext
<1> DEFINE me == tagAsk[a]
<1>2. /\ tags \in [Tag -> TagRow] /\ me \in TagAsk /\ AskFits(me, tags, tagOf, crossed)
  BY DEF TagsInv, TagsShape, AsksFit
<1>3. ASSUME NEW j \in Tagged, NEW S \in SUBSET Slug, PutTags(a, j, S) PROVE TagsInv'
  BY <1>3, PutKeeps
<1>4. CASE InsertTags(a)
  <2>1. UNCHANGED <<tags, tagOf, wanted, crossed>> /\ me.step = "insert"
    BY <1>4 DEF InsertTags
  <2>2. CASE tagAsk' = [tagAsk EXCEPT ![a] = NoTagAsk]
    <3>1. AskFits(NoTagAsk, tags, tagOf, crossed)
      BY NoTagAskFits DEF AskFits, Putting
    <3> QED BY <2>1, <2>2, <3>1, NoTagAskFits, AskAlone DEF Putting
  <2>3. CASE tagAsk' = [tagAsk EXCEPT ![a].step = "compare"]
    <3> DEFINE r == [me EXCEPT !.step = "compare"]
    <3>1. r \in TagAsk /\ r.step = "compare" /\ r.job = me.job /\ r.mixed = me.mixed
      BY <1>2 DEF TagAsk
    <3>2. AskFits(r, tags, tagOf, crossed)
      BY <1>2, <2>1, <3>1 DEF AskFits, Putting
    <3>3. tagAsk' = [tagAsk EXCEPT ![a] = r]
      BY <2>3
    <3> HIDE DEF r
    <3> QED BY <2>1, <3>1, <3>2, <3>3, AskAlone DEF Putting
  <2> QED BY <1>4, <2>2, <2>3 DEF InsertTags, Answered
<1>5. CASE CompareTags(a)
  <2> DEFINE r == [me EXCEPT !.step = "save", !.had = HasTag(me.job)]
  <2>1. UNCHANGED <<tags, tagOf, wanted, crossed>> /\ me.step = "compare" /\ tagAsk' = [tagAsk EXCEPT ![a] = r]
    BY <1>5 DEF CompareTags
  <2>2. r \in TagAsk /\ r.step = "save" /\ r.job = me.job /\ r.mixed = me.mixed /\ r.had = OfJob(tagOf, me.job)
    BY <1>2, TagsOf DEF TagAsk, HasTag, OfJob
  <2>3. AskFits(r, tags, tagOf, crossed)
    BY <1>2, <2>1, <2>2 DEF AskFits, Putting
  <2> HIDE DEF r
  <2> QED BY <2>1, <2>2, <2>3, AskAlone DEF Putting
<1>6. CASE SaveTags(a)
  BY <1>6, SaveKeeps
<1>7. CASE DeleteTag(a)
  BY <1>7, DeleteTagKeeps
<1>8. ASSUME NEW t \in Tag, UpdateTag(a, t) PROVE TagsInv'
  <2>1. PICK s \in Slug : tags' = [tags EXCEPT ![t].slug = s]
    BY <1>8 DEF UpdateTag
  <2> DEFINE row == [tags[t] EXCEPT !.slug = s]
  <2>2. tags[t].state = "there" /\ UNCHANGED <<tagOf, tagAsk, wanted, crossed>>
    BY <1>8 DEF UpdateTag, There
  <2>3. row \in TagRow /\ row.state = "there" /\ tags' = [tags EXCEPT ![t] = row]
    BY <1>2, <2>1, <2>2 DEF TagRow
  <2> HIDE DEF row
  <2> QED BY <2>2, <2>3, TagsChangeKeeps
<1>9. ASSUME NEW t \in Tag, ToggleTag(a, t) PROVE TagsInv'
  <2> DEFINE row == [tags[t] EXCEPT !.active = ~@]
  <2>1. tags[t].state = "there" /\ UNCHANGED <<tagOf, tagAsk, wanted, crossed>> /\ tags' = [tags EXCEPT ![t] = row]
    BY <1>9 DEF ToggleTag, There
  <2>2. tags[t] \in TagRow
    BY <1>2
  <2>3. row \in TagRow /\ row.state = "there"
    BY <2>1, <2>2 DEF TagRow
  <2> HIDE DEF row
  <2> QED BY <2>1, <2>3, TagsChangeKeeps
<1>10. ASSUME NEW t \in Tag, NEW s \in Slug, CreateTag(a, t, s) PROVE TagsInv'
  <2> DEFINE row == [state |-> "there", slug |-> s, active |-> TRUE]
  <2>1. tags[t].state = "unused" /\ UNCHANGED <<tagOf, tagAsk, wanted, crossed>> /\ tags' = [tags EXCEPT ![t] = row]
    BY <1>10 DEF CreateTag
  <2>2. row \in TagRow /\ row.state = "there"
    BY DEF TagRow
  <2> HIDE DEF row
  <2> QED BY <2>1, <2>2, TagsChangeKeeps
<1>11. ASSUME NEW t \in Tag, DeleteAsked(a, t) PROVE TagsInv'
  <2> DEFINE r == [NoTagAsk EXCEPT !.step = "delete", !.tag = t]
  <2>1. UNCHANGED <<tags, tagOf, wanted, crossed>> /\ tagAsk' = [tagAsk EXCEPT ![a] = r]
        /\ tags[t].state = "there" /\ InUse(t) = {}
    BY <1>11 DEF DeleteAsked, There
  <2>2. r \in TagAsk /\ r.step = "delete" /\ r.tag = t
    BY DEF TagAsk, NoTagAsk
  <2>3. \A j : t \notin OfJob(tagOf, j)
    <3>1. ASSUME NEW j, t \in OfJob(tagOf, j) PROVE FALSE
      <4>1. <<j, t>> \in tagOf /\ <<j, t>>[2] = t
        BY <3>1 DEF OfJob
      <4> QED BY <2>1, <4>1 DEF InUse
    <3> QED BY <3>1
  <2>4. AskFits(r, tags, tagOf, crossed)
    BY <2>1, <2>2, <2>3 DEF AskFits, Putting
  <2> HIDE DEF r
  <2> QED BY <2>1, <2>2, <2>4, AskAlone DEF Putting
<1> QED BY <1>1, <1>3, <1>4, <1>5, <1>6, <1>7, <1>8, <1>9, <1>10, <1>11

\* A job has the tags its last put asked for, however the requests of several clients fall between
\* each other, unless another put of the job or the deletion of one of its tags was under way.
THEOREM TagsStay == TagsSpec => []TagsAreThoseGiven
<1>1. TagsInit => TagsInv
  <2> SUFFICES ASSUME TagsInit PROVE TagsInv
    OBVIOUS
  <2>1. NoTag \in TagRow
    BY DEF NoTag, TagRow
  <2>2. \A a \in Asker : tagAsk[a] = NoTagAsk
    BY DEF TagsInit
  <2>3. TagsShape
    BY <2>1, NoTagAskFits DEF TagsInit, TagsShape
  <2>4. AsksFit /\ PutsClash
    BY <2>2, NoTagAskFits DEF AsksFit, AskFits, PutsClash, Clash, Putting
  <2>5. LinkedThere /\ TagsAreThoseGiven
    BY DEF TagsInit, LinkedThere, TagsAreThoseGiven, HasTag
  <2> QED BY <2>3, <2>4, <2>5 DEF TagsInv
<1>2. TagsInv /\ [TagsNext]_tagVars => TagsInv'
  <2>1. ASSUME TagsInv, UNCHANGED tagVars PROVE TagsInv'
    BY <2>1 DEF tagVars, TagsInv, TagsShape, AsksFit, PutsClash, LinkedThere, TagsAreThoseGiven, HasTag
  <2> QED BY <2>1, TagsStep
<1>3. TagsInv => TagsAreThoseGiven
  BY DEF TagsInv
<1> QED BY <1>1, <1>2, <1>3, PTL DEF TagsSpec

-----------------------------------------------------------------------------
(* The image of the workers.                                               *)

BuildRow == [state : {"unused", "queued", "building", "success", "failed", "active", "deprecated"},
             libs : SUBSET Lib, active : BOOLEAN]
CheckRow == [state : {"unused", "queued", "tagging", "applying", "checking", "success", "failed"},
             kind : {"libraries", "apply"}, named : Build \union {Base}, took : Build \union {Base},
             libs : SUBSET Lib, todo : SUBSET Container, since : BOOLEAN, late : BOOLEAN, kept : SUBSET Container]

RuntimeTypes ==
  /\ manifest \subseteq Lib
  /\ builds \in [Build -> BuildRow] /\ \A b \in Build : builds[b].active => builds[b].state = "active"
  /\ checks \in [Check -> CheckRow]
  /\ containers \in [Container -> Build \union {Base, Gone}] /\ tagged \in Build \union {Base}

\* An apply, as long as nothing was activated since it was asked for: its build is the active one and the one
\* it takes.  As long as no other worker tags another build, the tag names it from then on; what was recreated
\* runs it or is gone.
OnItsWay(row, active, tag, held) ==
  row.kind = "apply" /\ ~row.since =>
    /\ active = {row.named}
    /\ row.state = "tagging" => row.took = row.named
    /\ row.state = "checking" => row.todo = {}
    /\ InHand(row) /\ ~row.late =>
         /\ tag = row.named
         /\ row.kept = {} => \A k \in Container \ row.todo : held[k] \in {row.named, Gone}
RuntimeInv == RuntimeTypes /\ \A c \in Check : OnItsWay(checks[c], Active, tagged, containers)

LEMMA RuntimeStarts == RuntimeInit => RuntimeInv
<1> SUFFICES ASSUME RuntimeInit PROVE RuntimeInv
  OBVIOUS
<1>1. RuntimeTypes
  BY DEF RuntimeInit, RuntimeTypes, NoBuild, NoCheck, BuildRow, CheckRow
<1>2. \A c \in Check : checks[c].kind = "libraries"
  BY DEF RuntimeInit, NoCheck
<1>3. Active = {}
  BY DEF RuntimeInit, NoBuild, Active
<1> QED BY <1>1, <1>2, <1>3 DEF RuntimeInv, OnItsWay

\* One check goes on; the builds stay.
LEMMA CheckGoesOn ==
  ASSUME RuntimeInv, NEW c \in Check, NEW row \in CheckRow, checks' = [checks EXCEPT ![c] = row],
         UNCHANGED <<manifest, builds>>,
         UNCHANGED tagged,
         containers' \in [Container -> Build \union {Base, Gone}],
         \A k \in Container : containers'[k] \in {containers[k], tagged, Gone},
         OnItsWay(row, Active, tagged, containers')
  PROVE  RuntimeInv'
<1>1. Active' = Active /\ Active \subseteq Build
  BY DEF Active
<1>2. RuntimeTypes'
  BY <1>1 DEF RuntimeInv, RuntimeTypes
<1>3. ASSUME NEW d \in Check PROVE OnItsWay(checks'[d], Active, tagged, containers')
  <2>1. CASE d = c
    BY <2>1 DEF RuntimeInv, RuntimeTypes
  <2>2. CASE d # c
    <3>1. checks'[d] = checks[d] /\ OnItsWay(checks[d], Active, tagged, containers)
      BY <2>2 DEF RuntimeInv, RuntimeTypes
    <3>2. OnItsWay(checks[d], Active, tagged, containers')
      BY <3>1 DEF OnItsWay
    <3> QED BY <3>1, <3>2
  <2> QED BY <2>1, <2>2
<1> QED BY <1>1, <1>2, <1>3 DEF RuntimeInv

LEMMA BuildsGoOn ==
  ASSUME RuntimeInv, NEW b \in Build, CreateBuild(b) \/ RunBuild(b) PROVE RuntimeInv'
<1>1. /\ builds \in [Build -> BuildRow] /\ manifest \subseteq Lib
      /\ \A x \in Build : builds[x].active => builds[x].state = "active"
  BY DEF RuntimeInv, RuntimeTypes
<1>2. builds[b] \in BuildRow /\ ~builds[b].active /\ UNCHANGED <<manifest, checks, containers, tagged>>
  BY <1>1 DEF CreateBuild, RunBuild
<1>3. PICK row \in BuildRow : ~row.active /\ builds' = [builds EXCEPT ![b] = row]
  <2>1. CASE CreateBuild(b)
    <3> DEFINE row == [state |-> "queued", libs |-> manifest, active |-> FALSE]
    <3>1. row \in BuildRow /\ ~row.active /\ builds' = [builds EXCEPT ![b] = row]
      BY <1>1, <2>1 DEF CreateBuild, BuildRow
    <3> QED BY <3>1
  <2>2. CASE RunBuild(b)
    <3>1. PICK state \in {"building", "success", "failed"} : builds' = [builds EXCEPT ![b].state = state]
      BY <2>2 DEF RunBuild
    <3> DEFINE row == [builds[b] EXCEPT !.state = state]
    <3>2. row \in BuildRow /\ ~row.active /\ builds' = [builds EXCEPT ![b] = row]
      BY <1>2, <3>1 DEF BuildRow
    <3> QED BY <3>2
  <2> QED BY <2>1, <2>2
<1>4. builds' \in [Build -> BuildRow] /\ \A x \in Build : builds'[x].active => builds'[x].state = "active"
  BY <1>1, <1>3
<1>5. Active' = Active
  BY <1>1, <1>2, <1>3 DEF Active
<1> QED BY <1>2, <1>4, <1>5 DEF RuntimeInv, RuntimeTypes

\* An activation is asked for and finds the others that are active: no build changes.
LEMMA ActivationGoesOn ==
  ASSUME RuntimeInv, (\E b \in Build : Activate(b)) \/ (\E a \in activations : Deprecate(a)) PROVE RuntimeInv'
<1>1. Active' = Active /\ UNCHANGED <<manifest, builds, checks, containers, tagged>>
  BY DEF Activate, Deprecate, Active
<1> QED BY <1>1 DEF RuntimeInv, RuntimeTypes

LEMMA BuildActivated == ASSUME RuntimeInv, NEW a \in activations, ActivateCommits(a) PROVE RuntimeInv'
<1>1. /\ builds \in [Build -> BuildRow] /\ checks \in [Check -> CheckRow]
      /\ UNCHANGED <<manifest, containers, tagged>>
      /\ \A x \in Build : builds[x].active => builds[x].state = "active"
  BY DEF RuntimeInv, RuntimeTypes, ActivateCommits
<1>2. /\ builds' \in [Build -> BuildRow]
      /\ \A x \in Build : builds'[x].active => builds'[x].state = "active"
  <2>1. ASSUME NEW x \in Build PROVE Activated(a, x) \in BuildRow /\ (Activated(a, x).active => Activated(a, x).state = "active")
    <3>1. builds[x] \in BuildRow /\ (builds[x].active => builds[x].state = "active")
      BY <1>1
    <3>2. Activated(a, x) \in {[builds[x] EXCEPT !.state = "active", !.active = TRUE],
                              [builds[x] EXCEPT !.state = "deprecated", !.active = FALSE], builds[x]}
      BY DEF Activated
    <3> QED BY <3>1, <3>2 DEF BuildRow
  <2>2. builds' = [x \in Build |-> Activated(a, x)]
    BY DEF ActivateCommits
  <2> QED BY <2>1, <2>2
<1>3. checks' \in [Check -> CheckRow] /\ \A c \in Check : checks'[c].since
  <2>1. ASSUME NEW c \in Check PROVE checks'[c] \in CheckRow /\ checks'[c].since
    <3>1. checks[c] \in CheckRow /\ checks'[c] = [checks[c] EXCEPT !.since = TRUE]
      BY <1>1 DEF ActivateCommits
    <3> QED BY <3>1 DEF CheckRow
  <2>2. checks' = [c \in Check |-> checks'[c]]
    BY DEF ActivateCommits
  <2> QED BY <2>1, <2>2
<1>4. \A c \in Check : OnItsWay(checks'[c], Active', tagged', containers')
  BY <1>3 DEF OnItsWay
<1> QED BY <1>1, <1>2, <1>3, <1>4 DEF RuntimeInv, RuntimeTypes

\* One action of a check, each with the row it writes.
LEMMA CheckRequested == ASSUME RuntimeInv, NEW c \in Check, Request(c) PROVE RuntimeInv'
<1>1. manifest \in SUBSET Lib /\ UNCHANGED <<manifest, builds, containers, tagged>>
  BY DEF RuntimeInv, RuntimeTypes, Request
<1>2. CASE checks' = [checks EXCEPT ![c] = OfLibraries]
  <2>1. OfLibraries \in CheckRow /\ OfLibraries.kind = "libraries"
    BY <1>1 DEF OfLibraries, NoCheck, CheckRow
  <2>2. OnItsWay(OfLibraries, Active, tagged, containers')
    BY <2>1 DEF OnItsWay
  <2> QED BY <1>1, <1>2, <2>1, <2>2, CheckGoesOn DEF RuntimeInv, RuntimeTypes
<1>3. CASE \E b \in Build : checks' = [checks EXCEPT ![c] = ToApply(b)]
  <2>1. PICK b \in Build : checks' = [checks EXCEPT ![c] = ToApply(b)]
    BY <1>3
  <2>2. /\ ToApply(b) \in CheckRow /\ ToApply(b).state = "queued" /\ ToApply(b).named = b
        /\ ToApply(b).since = (Active # {b})
    BY <1>1 DEF ToApply, OfLibraries, NoCheck, CheckRow
  <2>3. OnItsWay(ToApply(b), Active, tagged, containers')
    BY <2>2 DEF OnItsWay, InHand
  <2> HIDE DEF ToApply
  <2> QED BY <1>1, <2>1, <2>2, <2>3, CheckGoesOn DEF RuntimeInv, RuntimeTypes
<1> QED BY <1>2, <1>3 DEF Request

\* What is known of a check that is there.
LEMMA CheckRead ==
  ASSUME RuntimeInv, NEW c \in Check
  PROVE  checks[c] \in CheckRow /\ OnItsWay(checks[c], Active, tagged, containers)
BY DEF RuntimeInv, RuntimeTypes

\* A check fails, whatever it was.
LEMMA CheckFails ==
  ASSUME RuntimeInv, NEW c \in Check, Becomes(c, AfterFailure), UNCHANGED <<manifest, builds, containers, tagged>>
  PROVE  RuntimeInv'
<1>1. checks[c] \in CheckRow /\ OnItsWay(checks[c], Active, tagged, containers)
  BY CheckRead
<1> DEFINE row == [checks[c] EXCEPT !.state = "failed"]
<1>2. /\ row \in CheckRow /\ row.state = "failed" /\ checks' = [checks EXCEPT ![c] = row]
      /\ row.named = checks[c].named /\ row.since = checks[c].since /\ row.kind = checks[c].kind
  BY <1>1 DEF Becomes, AfterFailure, CheckRow
<1> HIDE DEF row
<1>3. OnItsWay(row, Active, tagged, containers')
  BY <1>1, <1>2 DEF OnItsWay, InHand
<1> QED BY <1>2, <1>3, CheckGoesOn DEF RuntimeInv, RuntimeTypes

LEMMA CheckClaimed == ASSUME RuntimeInv, NEW c \in Check, Claim(c) PROVE RuntimeInv'
<1>1. /\ UNCHANGED <<manifest, builds, containers, tagged>>
      /\ containers \in [Container -> Build \union {Base, Gone}]
      /\ checks[c] \in CheckRow /\ checks[c].state = "queued"
      /\ OnItsWay(checks[c], Active, tagged, containers)
  BY CheckRead DEF RuntimeInv, RuntimeTypes, Claim
<1>2. CASE checks[c].kind = "libraries" /\ Becomes(c, "checking")
  <2> DEFINE row == [checks[c] EXCEPT !.state = "checking"]
  <2>1. row \in CheckRow /\ row.kind = "libraries" /\ checks' = [checks EXCEPT ![c] = row]
    BY <1>1, <1>2 DEF Becomes, CheckRow
  <2> HIDE DEF row
  <2>2. OnItsWay(row, Active, tagged, containers')
    BY <2>1 DEF OnItsWay
  <2> QED BY <1>1, <2>1, <2>2, CheckGoesOn
<1>3. CASE \E b \in Active : checks' = [checks EXCEPT ![c].state = "tagging", ![c].took = b]
  <2>1. PICK b \in Active : checks' = [checks EXCEPT ![c].state = "tagging", ![c].took = b]
    BY <1>3
  <2> DEFINE row == [checks[c] EXCEPT !.state = "tagging", !.took = b]
  <2>2. b \in Build
    BY DEF Active
  <2>3. /\ row \in CheckRow /\ row.state = "tagging" /\ row.took = b /\ row.since = checks[c].since
        /\ row.kind = checks[c].kind /\ row.named = checks[c].named /\ checks' = [checks EXCEPT ![c] = row]
    BY <1>1, <2>1, <2>2 DEF CheckRow
  <2> HIDE DEF row
  <2>4. OnItsWay(row, Active, tagged, containers')
    BY <1>1, <2>3 DEF OnItsWay, InHand
  <2> QED BY <1>1, <2>3, <2>4, CheckGoesOn
<1>4. CASE Becomes(c, AfterFailure)
  BY <1>1, <1>4, CheckFails
<1> QED BY <1>2, <1>3, <1>4 DEF Claim

\* The tag is given to what the check took: those that relied on another build are late.
LEMMA CheckTagged == ASSUME RuntimeInv, NEW c \in Check, Retag(c) PROVE RuntimeInv'
<1>1. /\ UNCHANGED <<manifest, builds, containers>> /\ Active' = Active
      /\ checks \in [Check -> CheckRow] /\ checks[c].state = "tagging"
      /\ \A d \in Check : OnItsWay(checks[d], Active, tagged, containers)
  BY DEF RuntimeInv, RuntimeTypes, Retag, Active
<1>2. CASE Becomes(c, AfterFailure) /\ tagged' = tagged
  BY <1>1, <1>2, CheckFails
<1>3. CASE /\ tagged' = checks[c].took
           /\ checks' = [d \in Check |-> IF d = c THEN [checks[c] EXCEPT !.state = "applying", !.todo = Container]
                                         ELSE Displaced(checks[d], checks[c].took)]
  <2>1. ASSUME NEW d \in Check PROVE checks'[d] \in CheckRow /\ OnItsWay(checks'[d], Active, tagged', containers)
    <3>1. checks[d] \in CheckRow /\ OnItsWay(checks[d], Active, tagged, containers)
      BY <1>1
    <3>2. CASE d = c
      <4>1. /\ checks'[c] \in CheckRow /\ checks'[c].state = "applying" /\ checks'[c].todo = Container
            /\ checks'[c].since = checks[c].since /\ checks'[c].kind = checks[c].kind
            /\ checks'[c].named = checks[c].named
        BY <1>3, <3>1, <3>2 DEF CheckRow
      <4>2. OnItsWay(checks'[c], Active, tagged', containers)
        BY <1>1, <1>3, <4>1 DEF OnItsWay, InHand
      <4> QED BY <3>2, <4>1, <4>2
    <3>3. CASE d # c
      <4> DEFINE tag == checks[c].took
      <4>1. checks'[d] = [checks[d] EXCEPT !.late = @ \/ (InHand(checks[d]) /\ checks[d].named # tag)]
        BY <1>3, <3>3 DEF Displaced
      <4>2. /\ checks'[d] \in CheckRow /\ checks'[d].state = checks[d].state /\ checks'[d].kind = checks[d].kind
            /\ checks'[d].since = checks[d].since /\ checks'[d].named = checks[d].named
            /\ checks'[d].took = checks[d].took /\ checks'[d].todo = checks[d].todo
            /\ checks'[d].kept = checks[d].kept
            /\ checks'[d].late = (checks[d].late \/ (InHand(checks[d]) /\ checks[d].named # tag))
        BY <3>1, <4>1 DEF CheckRow
      <4>3. tagged' = tag
        BY <1>3
      <4> HIDE DEF tag
      <4>4. OnItsWay(checks'[d], Active, tagged', containers)
        BY <3>1, <4>2, <4>3 DEF OnItsWay, InHand
      <4> QED BY <4>2, <4>4
    <3> QED BY <3>2, <3>3
  <2>2. checks' = [d \in Check |-> checks'[d]]
    BY <1>3
  <2>3. tagged' \in Build \union {Base}
    BY <1>1, <1>3 DEF CheckRow
  <2> QED BY <1>1, <2>1, <2>2, <2>3 DEF RuntimeInv, RuntimeTypes
<1> QED BY <1>2, <1>3 DEF Retag

\* A container is made again, or not.
LEMMA Recreated == ASSUME RuntimeInv, NEW c \in Check, NEW k \in Container, RecreateWorker(c, k) PROVE RuntimeInv'
<1>1. /\ UNCHANGED <<manifest, builds, tagged>>
      /\ containers \in [Container -> Build \union {Base, Gone}] /\ tagged \in Build \union {Base}
      /\ checks[c] \in CheckRow /\ checks[c].state = "applying"
      /\ OnItsWay(checks[c], Active, tagged, containers)
  BY CheckRead DEF RuntimeInv, RuntimeTypes, RecreateWorker
<1>2. CASE /\ checks' = [checks EXCEPT ![c].todo = @ \ {k}, ![c].kept = @ \union {k}]
           /\ containers' = containers
  <2> DEFINE row == [checks[c] EXCEPT !.todo = @ \ {k}, !.kept = @ \union {k}]
  <2>1. /\ row \in CheckRow /\ row.state = "applying" /\ row.kept # {} /\ checks' = [checks EXCEPT ![c] = row]
        /\ row.named = checks[c].named /\ row.since = checks[c].since /\ row.late = checks[c].late /\ row.kind = checks[c].kind
    BY <1>1, <1>2 DEF CheckRow
  <2> HIDE DEF row
  <2>2. OnItsWay(row, Active, tagged, containers')
    BY <1>1, <2>1 DEF OnItsWay, InHand
  <2> QED BY <1>1, <1>2, <2>1, <2>2, CheckGoesOn
<1>3. CASE /\ checks' = [checks EXCEPT ![c].todo = @ \ {k}]
           /\ \E image \in {tagged, Gone} : containers' = [containers EXCEPT ![k] = image]
  <2> DEFINE row == [checks[c] EXCEPT !.todo = @ \ {k}]
  <2>1. PICK image \in {tagged, Gone} : containers' = [containers EXCEPT ![k] = image]
    BY <1>3
  <2>2. /\ row \in CheckRow /\ row.state = "applying" /\ row.kept = checks[c].kept /\ row.todo = checks[c].todo \ {k}
        /\ row.named = checks[c].named /\ row.since = checks[c].since /\ row.late = checks[c].late /\ row.kind = checks[c].kind
        /\ checks' = [checks EXCEPT ![c] = row]
    BY <1>1, <1>3 DEF CheckRow
  <2> HIDE DEF row
  <2>3. /\ containers' \in [Container -> Build \union {Base, Gone}] /\ containers'[k] \in {tagged, Gone}
        /\ \A x \in Container : x # k => containers'[x] = containers[x]
    BY <1>1, <2>1
  <2>4. OnItsWay(row, Active, tagged, containers')
    BY <1>1, <2>2, <2>3 DEF OnItsWay, InHand
  <2>5. \A x \in Container : containers'[x] \in {containers[x], tagged, Gone}
    BY <2>3
  <2> QED BY <1>1, <2>2, <2>3, <2>4, <2>5, CheckGoesOn
<1> QED BY <1>2, <1>3 DEF RecreateWorker

LEMMA CheckGoesOnOrEnds ==
  ASSUME RuntimeInv, NEW c \in Check, Wait(c) \/ Submit(c) PROVE RuntimeInv'
<1>1. /\ UNCHANGED <<manifest, builds, containers, tagged>> /\ manifest \in SUBSET Lib
      /\ containers \in [Container -> Build \union {Base, Gone}]
      /\ checks[c] \in CheckRow /\ OnItsWay(checks[c], Active, tagged, containers)
  BY CheckRead DEF RuntimeInv, RuntimeTypes, Wait, Submit
<1>2. PICK state \in {"checking", "success", "failed"}, libs \in SUBSET Lib :
        /\ checks' = [checks EXCEPT ![c].state = state, ![c].libs = libs]
        /\ state = "checking" => checks[c].state = "applying" /\ checks[c].todo = {}
  <2>1. Filled(c) \in SUBSET Lib /\ checks[c].libs \in SUBSET Lib
    BY <1>1 DEF Filled, CheckRow
  <2>2. CASE Wait(c)
    BY <2>1, <2>2 DEF Wait, AfterFailure
  <2>3. CASE Submit(c)
    <3>1. PICK state \in {"success", "failed"} : checks' = [checks EXCEPT ![c].state = state]
      BY <2>3 DEF Submit, Becomes
    <3>2. checks' = [checks EXCEPT ![c].state = state, ![c].libs = checks[c].libs]
      BY <1>1, <3>1 DEF CheckRow, RuntimeInv, RuntimeTypes
    <3> QED BY <2>1, <3>2
  <2> QED BY <2>2, <2>3
<1> DEFINE row == [checks[c] EXCEPT !.state = state, !.libs = libs]
<1>3. /\ row \in CheckRow /\ row.state = state /\ row.kept = checks[c].kept /\ row.todo = checks[c].todo
      /\ row.named = checks[c].named /\ row.since = checks[c].since /\ row.late = checks[c].late
      /\ row.kind = checks[c].kind /\ checks' = [checks EXCEPT ![c] = row]
  BY <1>1, <1>2 DEF CheckRow
<1> HIDE DEF row
<1>4. OnItsWay(row, Active, tagged, containers')
  BY <1>1, <1>2, <1>3 DEF OnItsWay, InHand
<1> QED BY <1>1, <1>3, <1>4, CheckGoesOn

LEMMA RuntimeKept == ASSUME RuntimeInv, [RuntimeNext]_runtimeVars PROVE RuntimeInv'
<1>1. CASE UNCHANGED runtimeVars
  <2>1. Active' = Active /\ UNCHANGED <<manifest, builds, checks, containers, tagged>>
    BY <1>1 DEF runtimeVars, Active
  <2> QED BY <2>1 DEF RuntimeInv, RuntimeTypes
<1>2. CASE \E l \in Lib : SetLibrary(l)
  <2>1. Active' = Active /\ UNCHANGED <<builds, checks, containers, tagged>> /\ manifest' \subseteq Lib
    BY <1>2 DEF SetLibrary, Active, RuntimeInv, RuntimeTypes
  <2> QED BY <2>1 DEF RuntimeInv, RuntimeTypes
<1> QED BY <1>1, <1>2, BuildsGoOn, ActivationGoesOn, BuildActivated, CheckRequested, CheckClaimed, CheckTagged,
        Recreated, CheckGoesOnOrEnds DEF RuntimeNext

\* An apply that ends in success vouches for the build it names, for any number of builds, checks and
\* containers, however many workers recreate them and however many activations are under way at a time, unless
\* another build was active at the request or any activated since, another worker tagged another build in
\* between, or a container could not be inspected (run_validation, apply_active_image, activate_build).
THEOREM AppliesVouch == RuntimeSpec => ApplyVouches
<1>1. RuntimeInit => RuntimeInv
  BY RuntimeStarts
<1>2. RuntimeInv /\ [RuntimeNext]_runtimeVars => RuntimeInv'
  BY RuntimeKept
<1> DEFINE Vouched ==
      \A c \in Check :
       ApplyEnds(c) /\ ~checks[c].since /\ ~checks[c].late /\ checks[c].kept = {} =>
         \A k \in Container : containers[k] = checks[c].named
<1>3. RuntimeInv /\ [RuntimeNext]_runtimeVars => [Vouched]_runtimeVars
  <2> SUFFICES ASSUME RuntimeInv, RuntimeNext, NEW c \in Check,
                      checks[c].state # "success", checks'[c].state = "success", checks[c].kind = "apply",
                      ~checks[c].since, ~checks[c].late, checks[c].kept = {}, NEW k \in Container
               PROVE  containers[k] = checks[c].named
    BY DEF Vouched, ApplyEnds
  <2>1. checks \in [Check -> CheckRow] /\ checks[c] \in CheckRow
    BY DEF RuntimeInv, RuntimeTypes
  <2>2. Submit(c) /\ Sound(c)
    <3>1. ASSUME NEW d \in Check, Request(d) PROVE FALSE
      BY <2>1, <3>1 DEF Request, OfLibraries, ToApply, NoCheck
    <3>2. ASSUME NEW d \in Check, Claim(d) PROVE FALSE
      BY <2>1, <3>2 DEF Claim, Becomes, AfterFailure, CheckRow
    <3>3. ASSUME NEW d \in Check, Wait(d) PROVE FALSE
      <4>1. PICK state \in {"checking", "failed"} :
              checks' = [checks EXCEPT ![d].state = state, ![d].libs = Filled(d)]
        BY <3>3 DEF Wait, AfterFailure
      <4> QED BY <2>1, <4>1 DEF CheckRow
    <3>9. ASSUME NEW d \in Check, Retag(d) PROVE FALSE
      <4>1. CASE Becomes(d, AfterFailure)
        BY <2>1, <4>1 DEF Becomes, AfterFailure, CheckRow
      <4>2. CASE checks' = [x \in Check |-> IF x = d THEN [checks[d] EXCEPT !.state = "applying", !.todo = Container]
                                            ELSE Displaced(checks[x], checks[d].took)]
        <5>1. checks[d] \in CheckRow
          BY <2>1
        <5>2. checks'[c].state \in {"applying", checks[c].state}
          BY <2>1, <4>2, <5>1 DEF Displaced, CheckRow
        <5> QED BY <5>2
      <4> QED BY <3>9, <4>1, <4>2 DEF Retag
    <3>4. ASSUME NEW d \in Check, NEW x \in Container, RecreateWorker(d, x) PROVE FALSE
      BY <2>1, <3>4 DEF RecreateWorker, CheckRow
    <3>5. ASSUME NEW d \in Check, Submit(d) PROVE d = c /\ Sound(c)
      BY <2>1, <3>5 DEF Submit, Becomes, CheckRow
    <3>6. ASSUME NEW a \in activations, ActivateCommits(a) \/ Deprecate(a) PROVE FALSE
      BY <2>1, <3>6 DEF ActivateCommits, Deprecate, CheckRow
    <3>7. ASSUME NEW b \in Build, CreateBuild(b) \/ RunBuild(b) \/ Activate(b) PROVE FALSE
      BY <3>7 DEF CreateBuild, RunBuild, Activate
    <3>8. ASSUME NEW l \in Lib, SetLibrary(l) PROVE FALSE
      BY <3>8 DEF SetLibrary
    <3> QED BY <3>1, <3>2, <3>3, <3>4, <3>5, <3>6, <3>7, <3>8, <3>9 DEF RuntimeNext
  <2>3. checks[c].state = "checking" /\ OnItsWay(checks[c], Active, tagged, containers) /\ containers[k] # Gone
    BY <2>2, CheckRead DEF Submit, Sound
  <2> QED BY <2>3 DEF OnItsWay, InHand
<1> QED BY <1>1, <1>2, <1>3, PTL DEF RuntimeSpec, ApplyVouches

-----------------------------------------------------------------------------
(* The panels.                                                             *)

SeenRow == [state : {"unused", "queued", "running", "success", "failed", "timeout", "cancelled"},
            task : Task \union {NoLoad}, step : BOOLEAN, created : Nat, started : Nat, ended : Nat, lasted : Int,
            load : Load \union {NoLoad}, source : Conns \union {NoConn}, target : Conns \union {NoConn},
            rows : {"none", "zero", "some"}, water : {"none", "kept", "moved"}]
\* An execution began before now, and was asked for before it.
InTime(row, time) ==
  /\ row.created <= time /\ row.started <= time /\ row.ended <= time
  /\ row.state # "unused" => row.created # Never /\ row.task \in Task
SeenInv ==
  /\ now \in Nat /\ now # 0 /\ linked \subseteq Conns
  /\ runs \in [Run -> SeenRow]
  /\ \A r \in Run : InTime(runs[r], now)

LEMMA SeenStarts == SeenInit => SeenInv
<1> SUFFICES ASSUME SeenInit PROVE SeenInv
  OBVIOUS
<1>1. NoSuchRun \in SeenRow /\ InTime(NoSuchRun, now)
  BY SeenAssumption DEF SeenInit, NoSuchRun, SeenRow, InTime, Never, Unmeasured
<1> QED BY <1>1, SeenAssumption DEF SeenInit, SeenInv

\* The row of one execution is written.
LEMMA RunWritten ==
  ASSUME SeenInv, NEW r \in Run, NEW row \in SeenRow, InTime(row, now), runs' = [runs EXCEPT ![r] = row],
         UNCHANGED <<now, linked>>
  PROVE  SeenInv'
BY DEF SeenInv

LEMMA RunRead == ASSUME SeenInv, NEW r \in Run PROVE runs[r] \in SeenRow /\ InTime(runs[r], now)
BY DEF SeenInv

LEMMA RunQueued == ASSUME SeenInv, NEW j \in Task, NEW step \in BOOLEAN, Queue(j, step) PROVE SeenInv'
<1> DEFINE row == [NoSuchRun EXCEPT !.state = "queued", !.task = j, !.step = step, !.created = now]
<1>1. now \in Nat /\ now # 0
  BY DEF SeenInv
<1>2. row \in SeenRow
  <2>1. NoSuchRun \in SeenRow
    BY DEF NoSuchRun, SeenRow, Never, Unmeasured
  <2> QED BY <1>1, <2>1 DEF SeenRow
<1>5. InTime(row, now)
  BY <1>1 DEF NoSuchRun, InTime, Never
<1>3. PICK r \in Run : runs' = [runs EXCEPT ![r] = row]
  BY DEF Queue
<1>4. UNCHANGED <<now, linked>>
  BY DEF Queue
<1> HIDE DEF row
<1> QED BY <1>2, <1>3, <1>4, <1>5, RunWritten

LEMMA RunTaken == ASSUME SeenInv, NEW r \in Run, Take(r) PROVE SeenInv'
<1> DEFINE c == ControlOf[runs[r].task]
           begun == [runs[r] EXCEPT !.state = "running", !.started = now]
           loaded == [begun EXCEPT !.load = c, !.source = Watched[c].source, !.target = Watched[c].target]
           lacks == [begun EXCEPT !.state = "failed", !.ended = now]
<1>1. /\ runs[r] \in SeenRow /\ InTime(runs[r], now) /\ now \in Nat /\ linked \subseteq Conns
      /\ runs[r].state = "queued" /\ UNCHANGED <<now, linked>>
  BY RunRead DEF SeenInv, Take
<1>2. \/ runs' = [runs EXCEPT ![r] = begun]
      \/ c # NoLoad /\ {Watched[c].source, Watched[c].target} \subseteq linked /\ runs' = [runs EXCEPT ![r] = loaded]
      \/ runs' = [runs EXCEPT ![r] = lacks]
  BY DEF Take
<1>3. begun \in SeenRow /\ InTime(begun, now)
  <2>1. begun \in SeenRow
    BY <1>1 DEF SeenRow
  <2>2. InTime(begun, now)
    BY <1>1 DEF SeenRow, InTime
  <2> QED BY <2>1, <2>2
<1>4. lacks \in SeenRow /\ InTime(lacks, now)
  <2>1. lacks \in SeenRow
    BY <1>1 DEF SeenRow
  <2>2. InTime(lacks, now)
    BY <1>1 DEF SeenRow, InTime
  <2> QED BY <2>1, <2>2
<1>5. ASSUME c # NoLoad, {Watched[c].source, Watched[c].target} \subseteq linked
      PROVE  loaded \in SeenRow /\ InTime(loaded, now)
  <2>1. c \in Load
    BY <1>1, <1>5, SeenAssumption DEF InTime
  <2>2. loaded \in SeenRow
    BY <1>1, <1>5, <2>1 DEF SeenRow
  <2>3. InTime(loaded, now)
    BY <1>1 DEF SeenRow, InTime
  <2> QED BY <2>2, <2>3
<1> HIDE DEF begun, loaded, lacks, c
<1> QED BY <1>1, <1>2, <1>3, <1>4, <1>5, RunWritten

LEMMA RunEnded == ASSUME SeenInv, NEW r \in Run, Finish(r) \/ Reap(r) \/ Drop(r) PROVE SeenInv'
<1>1. /\ runs[r] \in SeenRow /\ InTime(runs[r], now) /\ now \in Nat
      /\ runs[r].state # "unused" /\ UNCHANGED <<now, linked>>
  BY RunRead DEF SeenInv, Finish, Reap, Drop
<1>2. CASE Finish(r)
  <2>1. PICK state \in {"success", "failed", "timeout", "cancelled"}, s \in Summaries :
          runs' = [runs EXCEPT ![r].state = state, ![r].ended = now, ![r].lasted = now - runs[r].started,
                               ![r].rows = s.rows, ![r].water = s.water]
    BY <1>2 DEF Finish
  <2> DEFINE row == [runs[r] EXCEPT !.state = state, !.ended = now, !.lasted = now - runs[r].started,
                                    !.rows = s.rows, !.water = s.water]
  <2>2. s.rows \in {"none", "zero", "some"} /\ s.water \in {"none", "kept", "moved"}
    BY DEF Summaries
  <2>3. now - runs[r].started \in Int
    BY <1>1 DEF SeenRow
  <2>4. row \in SeenRow
    BY <1>1, <2>2, <2>3 DEF SeenRow
  <2>5. InTime(row, now)
    BY <1>1 DEF SeenRow, InTime
  <2>6. runs' = [runs EXCEPT ![r] = row]
    BY <2>1
  <2> HIDE DEF row
  <2> QED BY <1>1, <2>4, <2>5, <2>6, RunWritten
<1>3. CASE Reap(r) \/ Drop(r)
  <2>1. PICK state \in {"failed", "cancelled"} : runs' = [runs EXCEPT ![r].state = state, ![r].ended = now]
    BY <1>3 DEF Reap, Drop
  <2> DEFINE row == [runs[r] EXCEPT !.state = state, !.ended = now]
  <2>2. row \in SeenRow
    BY <1>1 DEF SeenRow
  <2>3. InTime(row, now)
    BY <1>1 DEF SeenRow, InTime
  <2>4. runs' = [runs EXCEPT ![r] = row]
    BY <2>1
  <2> HIDE DEF row
  <2> QED BY <1>1, <2>2, <2>3, <2>4, RunWritten
<1> QED BY <1>2, <1>3

LEMMA SeenKept == ASSUME SeenInv, [SeenNext]_seenVars PROVE SeenInv'
<1>1. CASE Tick
  <2>1. now \in Nat /\ now' = now + 1 /\ UNCHANGED <<runs, linked>>
    BY <1>1 DEF Tick, SeenInv
  <2>2. \A r \in Run : runs[r] \in SeenRow /\ InTime(runs[r], now)
    BY RunRead
  <2>3. \A r \in Run : InTime(runs[r], now + 1)
    BY <2>1, <2>2 DEF InTime, SeenRow
  <2> QED BY <2>1, <2>3 DEF SeenInv
<1>2. CASE (\E c \in Load : Switch(c)) \/ (\E k \in Conns : Unlink(k)) \/ UNCHANGED seenVars
  <2>1. UNCHANGED <<now, runs>> /\ linked' \subseteq Conns
    BY <1>2 DEF Switch, Unlink, seenVars, SeenInv
  <2> QED BY <2>1 DEF SeenInv
<1> QED BY <1>1, <1>2, RunQueued, RunTaken, RunEnded DEF SeenNext

-----------------------------------------------------------------------------

\* The last run of a load is one of its runs, and none of them is after it.
LEMMA LastRunIs ==
  ASSUME SeenInv, NEW r \in Run
  PROVE  LET c == runs[r].load IN LastRun(c) \in Run /\ runs[LastRun(c)].load = c /\ r <= LastRun(c)
<1> DEFINE c == runs[r].load
           S == RunsOf(c)
           over == {MaxRuns - q : q \in S}
<1>1. r \in S /\ S \subseteq 1..MaxRuns /\ S \subseteq Run /\ \A q \in S : runs[q].load = c
  BY DEF RunsOf, Run
<1> HIDE DEF S
<1>2. over \subseteq Nat /\ over # {}
  BY <1>1, SeenAssumption
<1>3. PICK least \in over : \A y \in over : least <= y
  <2> HIDE DEF over
  <2> QED BY <1>2, Least
<1>4. PICK last \in S : least = MaxRuns - last
  BY <1>3
<1>5. \A q \in S : last >= q
  <2>1. \A q \in S : MaxRuns - last <= MaxRuns - q
    BY <1>3, <1>4
  <2> QED BY <1>1, <2>1, SeenAssumption
<1>6. Max(S) \in S /\ \A q \in S : Max(S) >= q
  BY <1>4, <1>5 DEF Max
<1>7. LastRun(c) = Max(S)
  BY <1>1 DEF LastRun, S
<1>8. Max(S) \in 1..MaxRuns /\ r \in 1..MaxRuns /\ Max(S) >= r
  BY <1>1, <1>6
<1> QED BY <1>1, <1>6, <1>7, <1>8

\* A cut has all the rows, or so many as it may have and none older than one it leaves out.
LEMMA CutIs ==
  ASSUME NEW rows \in SUBSET Run, NEW list \in Cuts(rows, ListLimit)
  PROVE  /\ list \subseteq rows /\ Cardinality(rows) \in Nat
         /\ list = rows \/ (Full(list) /\ Cardinality(rows) > ListLimit)
         /\ \A r \in list, q \in rows \ list : runs[r].started >= runs[q].started
<1>1. /\ list \subseteq rows /\ Cardinality(list) = IF Cardinality(rows) <= ListLimit THEN Cardinality(rows) ELSE ListLimit
      /\ \A r \in list, q \in rows \ list : runs[r].started >= runs[q].started
  BY DEF Cuts
<1>2. IsFiniteSet(rows) /\ Cardinality(rows) \in Nat
  <2>1. IsFiniteSet(Run)
    BY FS_Interval, SeenAssumption DEF Run
  <2> QED BY <2>1, FS_Subset, FS_CardinalityType
<1>3. CASE Cardinality(rows) <= ListLimit
  <2>1. Cardinality(list) = Cardinality(rows)
    BY <1>1, <1>3
  <2> QED BY <1>1, <1>2, <2>1, FS_Subset
<1>4. CASE Cardinality(rows) > ListLimit
  BY <1>1, <1>2, <1>4, SeenAssumption DEF Full
<1> QED BY <1>1, <1>2, <1>3, <1>4, SeenAssumption

LEMMA CutCounts ==
  ASSUME NEW rows \in SUBSET Run PROVE Counts(Cardinality(rows), Cuts(rows, ListLimit))
  BY CutIs DEF Counts

LEMMA TodayTyped ==
  /\ StartedToday \in SUBSET Run /\ FailedToday \in SUBSET Run /\ ZeroToday \in SUBSET Run
  /\ InState({"running"}) \in SUBSET Run
  BY DEF StartedToday, FailedToday, ZeroToday, InState

LEMMA PanelsOfTheDay == ASSUME SeenInv PROVE PanelIsReport
<1>1. /\ Counts(Overview.failed_today, FailureRows) /\ Counts(Overview.running_now, RunningRows)
      /\ Counts(Overview.zero_records, ZeroRows)
  <2>1. FailedToday = {r \in InState({"failed", "timeout"}) : SinceMidnight(r)}
    BY DEF FailedToday, FailedStates
  <2>2. ZeroToday = {r \in InState({"success"}) : SinceMidnight(r) /\ runs[r].rows = "zero"}
    BY DEF ZeroToday, Zero, InState
  <2>3. /\ Overview.failed_today = Cardinality(FailedToday) /\ Overview.zero_records = Cardinality(ZeroToday)
        /\ Overview.running_now = Cardinality(InState({"running"}))
    BY <2>1, <2>2 DEF Overview
  <2> QED BY <2>3, CutCounts, TodayTyped DEF FailureRows, RunningRows, ZeroRows
<1>2. LateLoads = {c \in Reported : Health(c).late /\ loads[c].active /\ loads[c].last # Never}
  <2>1. \A c \in Load : loads[c].last # Never => Health(c).late = Overdue(c, loads[c].last)
    BY DEF Health
  <2>2. \A c \in Load : Overdue(c, loads[c].last) => loads[c].last # Never
    BY DEF Overdue
  <2> QED BY <2>1, <2>2 DEF LateLoads, Reported
<1>3. SlaBreaches = {c \in Reported : Health(c).breached}
  <2>1. \A c \in Load : Health(c).breached = (LastRun(c) # Never /\ Beyond(c, LastRun(c)))
    BY DEF Health
  <2> QED BY <2>1 DEF SlaBreaches, Reported
<1>4. StalledLoads = {c \in Load : Health(c).stalled /\ loads[c].active}
  <2>1. \A c \in Load : Health(c).stalled = (~Watched[c].full /\ LastRun(c) # Never /\ StillAt(LastRun(c)))
    BY DEF Health
  <2> QED BY <2>1 DEF StalledLoads
<1>5. ASSUME NEW today \in TodayRows, NEW recent \in RecentRows, NEW list \in FailureRows \union ZeroRows,
             NEW r \in (list \union Anomalies(recent)) \ today
      PROVE  Full(today) /\ \A q \in today : runs[q].started >= runs[r].started
  <2>1. list \subseteq StartedToday
    <3>1. FailedToday \subseteq StartedToday /\ ZeroToday \subseteq StartedToday
      BY DEF FailedToday, ZeroToday, StartedToday, InState
    <3>2. list \subseteq FailedToday \/ list \subseteq ZeroToday
      BY DEF FailureRows, ZeroRows, Cuts
    <3> QED BY <3>1, <3>2
  <2>2. Anomalies(recent) \subseteq StartedToday
    BY DEF Anomalies, RecentRows, Cuts, StartedToday
  <2>3. r \in StartedToday \ today
    BY <2>1, <2>2
  <2>4. /\ today = StartedToday \/ Full(today)
        /\ \A x \in today, y \in StartedToday \ today : runs[x].started >= runs[y].started
    BY CutIs, TodayTyped DEF TodayRows
  <2> QED BY <2>3, <2>4
<1>6. ASSUME NEW c \in Load, NEW list \in ZeroRows, Health(c).zero, SinceMidnight(LastRun(c))
      PROVE  LastRun(c) \in list \/ Full(list)
  <2>1. LastRun(c) # Never /\ Zero(LastRun(c))
    BY <1>6 DEF Health
  <2>2. RunsOf(c) # {}
    BY <2>1 DEF LastRun
  <2>3. PICK r \in Run : runs[r].load = c
    BY <2>2 DEF RunsOf
  <2>4. LastRun(c) \in ZeroToday
    BY <1>6, <2>1, <2>3, LastRunIs DEF ZeroToday
  <2>5. list = ZeroToday \/ Full(list)
    BY CutIs, TodayTyped DEF ZeroRows
  <2> QED BY <2>4, <2>5
<1> QED BY <1>1, <1>2, <1>3, <1>4, <1>5, <1>6 DEF PanelIsReport

LEMMA FailuresSeen == ASSUME SeenInv PROVE FailuresAreSeen
<1> SUFFICES ASSUME NEW r \in Run, runs[r].state \in {"failed", "timeout"}, runs[r].ended >= Midnight
             PROVE  /\ \/ /\ r \in FailedToday
                          /\ \A list \in FailureRows :
                               r \in list \/ (Full(list) /\ \A q \in list : runs[q].started >= runs[r].started)
                          /\ <<"target", runs[r].target>> \in BlameShown \/ runs[r].target \in Conns \ linked
                       \/ runs[r].started < Midnight /\ (r \in LastDay(FailedStates) \/ runs[r].created < now - DayLength)
                    /\ \/ runs[r].load = NoLoad \/ LastRun(runs[r].load) > r
                       \/ Health(runs[r].load).status \in {"failed", "timeout"}
  BY DEF FailuresAreSeen
<1>1. runs[r] \in SeenRow /\ InTime(runs[r], now) /\ now \in Nat /\ DayLength \in Nat \ {0}
  BY RunRead, SeenAssumption DEF SeenInv
<1>2. Midnight \in Int
  BY <1>1 DEF Midnight, Day
<1>3. r \in InState(FailedStates)
  BY DEF InState, FailedStates
<1>4. ASSUME SinceMidnight(r)
      PROVE  /\ r \in FailedToday
             /\ \A list \in FailureRows :
                  r \in list \/ (Full(list) /\ \A q \in list : runs[q].started >= runs[r].started)
             /\ <<"target", runs[r].target>> \in BlameShown \/ runs[r].target \in Conns \ linked
  <2>1. r \in FailedToday
    BY <1>3, <1>4 DEF FailedToday
  <2>2. runs[r].target \in Conns \union {NoConn} /\ r \in Blamed("target", runs[r].target)
    BY <1>1, <2>1 DEF SeenRow, Blamed
  <2>3. ASSUME runs[r].target \notin Conns \ linked PROVE <<"target", runs[r].target>> \in BlameShown
    BY <2>2, <2>3 DEF BlameShown
  <2>4. ASSUME NEW list \in FailureRows, r \notin list
        PROVE  Full(list) /\ \A q \in list : runs[q].started >= runs[r].started
    BY <2>1, <2>4, CutIs, TodayTyped DEF FailureRows
  <2> QED BY <2>1, <2>3, <2>4
<1>5. ASSUME ~SinceMidnight(r)
      PROVE  runs[r].started < Midnight /\ (r \in LastDay(FailedStates) \/ runs[r].created < now - DayLength)
  <2>1. runs[r].started \in Nat /\ runs[r].created \in Nat /\ runs[r].created # Never
    BY <1>1 DEF SeenRow, InTime
  <2>2. runs[r].started < Midnight
    BY <1>2, <1>5, <2>1 DEF SinceMidnight
  <2>3. runs[r].created < now - DayLength \/ runs[r].created >= now - DayLength
    BY <1>1, <2>1
  <2> QED BY <1>3, <2>1, <2>2, <2>3 DEF LastDay
<1>6. \/ runs[r].load = NoLoad \/ LastRun(runs[r].load) > r
      \/ Health(runs[r].load).status \in {"failed", "timeout"}
  <2> DEFINE c == runs[r].load
  <2>1. LastRun(c) \in Run /\ r <= LastRun(c)
    BY LastRunIs
  <2>2. CASE LastRun(c) = r
    <3>1. r # Never
      BY SeenAssumption DEF Run, Never
    <3> QED BY <2>2, <3>1 DEF Health
  <2>3. CASE LastRun(c) # r
    BY <2>1, <2>3, SeenAssumption DEF Run
  <2> QED BY <2>2, <2>3
<1> QED BY <1>4, <1>5, <1>6

\* Later instants are of later days.
LEMMA DaysInOrder == ASSUME NEW a \in Int, NEW b \in Int, a <= b PROVE Day(a) \in Int /\ Day(b) \in Int /\ Day(a) <= Day(b)
<1> DEFINE d == DayLength
<1>1. d \in Nat \ {0}
  BY SeenAssumption
<1> HIDE DEF d
<1> DEFINE x == a \div d
           y == b \div d
<1>2. x \in Int /\ y \in Int /\ d * x <= a /\ b < d * (y + 1)
  BY <1>1
<1> HIDE DEF x, y
<1>3. d * x < d * (y + 1)
  BY <1>1, <1>2
<1>4. x < y + 1
  BY <1>1, <1>2, <1>3
<1> QED BY <1>2, <1>4 DEF Day, x, y, d

LEMMA DaysAddUp == ASSUME SeenInv PROVE HistoryAddsUp
<1> SUFFICES ASSUME NEW days \in 1..2, NEW entity \in {"job", "pipeline"}, NEW j \in Task
             PROVE  History(entity, j, days) = UNION Range(Series(History(entity, j, days), days))
  BY DEF HistoryAddsUp
<1> DEFINE rows == History(entity, j, days)
           first == now - days * DayLength
           D == Day(first)..Day(now)
           of(d) == {r \in rows : Day(runs[r].started) = d}
<1>1. now \in Int /\ first \in Int /\ \A r \in rows : r \in Run /\ runs[r].started >= first
  <2>1. now \in Int /\ first \in Int
    BY SeenAssumption DEF SeenInv
  <2>2. \A r \in rows : r \in Run /\ runs[r].started >= first
    BY DEF History
  <2> QED BY <2>1, <2>2
<1>2. \A r \in rows : runs[r].started \in Int /\ runs[r].started <= now
  BY <1>1, RunRead DEF SeenRow, InTime
<1>3. Range(Series(rows, days)) = {of(d) : d \in D}
  BY DEF Range, Series
<1>4. ASSUME NEW r \in rows PROVE Day(runs[r].started) \in D
  BY <1>1, <1>2, DaysInOrder
<1> HIDE DEF rows, D
<1>5. rows = UNION {of(d) : d \in D}
  BY <1>4
<1> QED BY <1>3, <1>5 DEF rows

\* What the panels say of the executions agrees, for any number of loads, jobs, connections and
\* executions, days of any length and lists of any limit: a list has what its number counts until
\* it is full, and then leaves out the oldest (features/observability, features/dashboard).
THEOREM PanelsTellOneStory == SeenSpec => []PanelsAgree
<1>1. SeenInit => SeenInv
  BY SeenStarts
<1>2. SeenInv /\ [SeenNext]_seenVars => SeenInv'
  BY SeenKept
<1>3. SeenInv => PanelsAgree
  BY PanelsOfTheDay, FailuresSeen, DaysAddUp DEF PanelsAgree
<1> QED BY <1>1, <1>2, <1>3, PTL DEF SeenSpec

=============================================================================
