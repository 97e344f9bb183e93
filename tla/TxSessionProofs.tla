-------------------------- MODULE TxSessionProofs ---------------------------
(* Proofs about TxSession, for every set of nodes, every set of statement   *)
(* kinds and every number of statements.                                    *)
EXTENDS TxSession, FiniteSetTheorems, TLAPS

(* What a reply may do to the session and to its writes.                    *)
IsReply(r, s, t, dur) ==
    /\ r.sess \in Sessions
    /\ \/ r.ok = TRUE /\ s.live = TRUE /\ r.sess = t /\ r.dur = dur
       \/ r.ok = FALSE /\ r.sess = s /\ r.dur = {}
       \/ /\ r.ok = FALSE /\ r.dur \subseteq dur
          /\ r.sess.live = FALSE /\ r.sess.work = {}
          /\ r.sess.auto = s.auto /\ r.sess.trans = s.trans

(* What a server answers to a command, whatever becomes of it.             *)
LEMMA Replies ==
    \A s, t \in Sessions : \A dur : \A r \in Reply(s, t, dur) : IsReply(r, s, t, dur)
  <1> SUFFICES ASSUME NEW s \in Sessions, NEW t \in Sessions, NEW dur,
                      NEW r \in Reply(s, t, dur)
               PROVE  IsReply(r, s, t, dur)
    OBVIOUS
  <1> DEFINE broken == [s EXCEPT !.live = FALSE, !.work = {}]
  <1>1. /\ broken \in Sessions /\ broken.live = FALSE /\ broken.work = {}
        /\ broken.auto = s.auto /\ broken.trans = s.trans
        /\ s.live \in BOOLEAN
    BY Zenon DEF Sessions
  <1> HIDE DEF broken
  <1>2. \/ s.live /\ r = [ok |-> TRUE, sess |-> t, dur |-> dur]
        \/ r = [ok |-> FALSE, sess |-> s, dur |-> {}]
        \/ r = [ok |-> FALSE, sess |-> broken, dur |-> {}]
        \/ r = [ok |-> FALSE, sess |-> broken, dur |-> dur]
    BY DEF Reply, broken
  <1>3. CASE s.live /\ r = [ok |-> TRUE, sess |-> t, dur |-> dur]
    <2>1. s.live = TRUE /\ r.ok = TRUE /\ r.sess = t /\ r.dur = dur
      BY <1>1, <1>3
    <2> QED
      BY <2>1 DEF IsReply
  <1>4. CASE r = [ok |-> FALSE, sess |-> s, dur |-> {}]
    <2>1. r.ok = FALSE /\ r.sess = s /\ r.dur = {}
      BY <1>4
    <2> QED
      BY <2>1 DEF IsReply
  <1>5. CASE \/ r = [ok |-> FALSE, sess |-> broken, dur |-> {}]
             \/ r = [ok |-> FALSE, sess |-> broken, dur |-> dur]
    <2>1. r.ok = FALSE /\ r.sess = broken /\ r.dur \subseteq dur
      BY <1>5
    <2> QED
      BY <1>1, <2>1 DEF IsReply
  <1> QED
    BY <1>2, <1>3, <1>4, <1>5

(* The targets of the commands are sessions.                                *)
LEMMA SessionSteps ==
    \A s \in Sessions :
        /\ s.auto \in BOOLEAN /\ s.trans \in BOOLEAN /\ s.live \in BOOLEAN
        /\ s.work \in SUBSET Writes
        /\ Ended(s) \in Sessions /\ Ended(s).work = {}
        /\ Ended(s).auto = s.auto
  <1> QED
    BY Zenon DEF Ended, Sessions

(* One field of a session changes and the others do not.                   *)
LEMMA FieldSteps ==
    \A s \in Sessions :
        /\ [s EXCEPT !.trans = TRUE] \in Sessions
        /\ [s EXCEPT !.trans = TRUE].work = s.work
        /\ [s EXCEPT !.trans = TRUE].trans = TRUE
        /\ [s EXCEPT !.trans = TRUE].auto = s.auto
        /\ [s EXCEPT !.auto = TRUE] \in Sessions
        /\ [s EXCEPT !.auto = TRUE].work = s.work
        /\ [s EXCEPT !.auto = FALSE] \in Sessions
        /\ [s EXCEPT !.auto = FALSE].work = s.work
        /\ [s EXCEPT !.auto = FALSE].auto = FALSE
  <1> QED
    BY Zenon DEF Sessions

(* An outcome of a command that concerns the writes ws: durable, open in    *)
(* the session, or neither.                                                 *)
Outcome(r, ws) ==
    /\ r.sess \in Sessions /\ r.ok \in BOOLEAN
    /\ r.dur \subseteq ws /\ r.sess.work \subseteq ws
    /\ r.dur \cap r.sess.work = {}

(* COMMIT makes the work durable, or fails.                                *)
LEMMA CommitReplies ==
    \A s \in Sessions : \A r \in CommitOn(s) :
        /\ Outcome(r, s.work)
        /\ r.ok = TRUE => s.live = TRUE /\ r.dur = s.work
  <1> SUFFICES ASSUME NEW s \in Sessions, NEW r \in CommitOn(s)
               PROVE  /\ Outcome(r, s.work)
                      /\ r.ok = TRUE => s.live = TRUE /\ r.dur = s.work
    BY Zenon
  <1>1. IsReply(r, s, Ended(s), s.work)
    BY SessionSteps, Replies DEF CommitOn
  <1> QED
    BY <1>1, SessionSteps, Zenon DEF IsReply, Outcome

(* ROLLBACK makes nothing durable.                                         *)
LEMMA RollbackReplies ==
    \A s \in Sessions : \A r \in RollbackOn(s) : Outcome(r, s.work) /\ r.dur = {}
  <1> SUFFICES ASSUME NEW s \in Sessions, NEW r \in RollbackOn(s)
               PROVE  Outcome(r, s.work) /\ r.dur = {}
    OBVIOUS
  <1>1. IsReply(r, s, Ended(s), {})
    BY SessionSteps, Replies DEF RollbackOn
  <1> QED
    BY <1>1, SessionSteps, Zenon DEF IsReply, Outcome

(* BEGIN commits what was open and starts a transaction.                   *)
LEMMA BeginReplies ==
    \A s \in Sessions : \A r \in BeginOn(s) :
        /\ Outcome(r, s.work)
        /\ r.ok = TRUE => s.live = TRUE /\ r.dur = s.work /\ r.sess.trans = TRUE
        /\ r.sess.auto = s.auto /\ (s.trans = TRUE => r.sess.trans = TRUE)
  <1> SUFFICES ASSUME NEW s \in Sessions, NEW r \in BeginOn(s)
               PROVE  /\ Outcome(r, s.work)
                      /\ r.ok = TRUE => s.live = TRUE /\ r.dur = s.work /\ r.sess.trans = TRUE
                      /\ r.sess.auto = s.auto /\ (s.trans = TRUE => r.sess.trans = TRUE)
    BY Zenon
  <1> DEFINE t == [Ended(s) EXCEPT !.trans = TRUE]
  <1>1. t \in Sessions /\ t.work = {} /\ t.trans = TRUE /\ t.auto = s.auto
    <2>1. Ended(s) \in Sessions /\ Ended(s).work = {} /\ Ended(s).auto = s.auto
      BY SessionSteps
    <2> QED
      BY <2>1, FieldSteps, Zenon
  <1>2. r \in Reply(s, t, s.work)
    BY DEF BeginOn
  <1> HIDE DEF t
  <1>3. IsReply(r, s, t, s.work)
    BY <1>1, <1>2, Replies
  <1> QED
    BY <1>1, <1>3, Zenon DEF IsReply, Outcome

(* Turning autocommit on commits the session's work if it was off.          *)
LEMMA AutocommitOnReplies ==
    \A s \in Sessions : \A r \in AutocommitOn(s) :
        /\ Outcome(r, s.work)
        /\ s.auto = TRUE => r.dur = {}
        /\ s.auto = FALSE /\ r.ok = TRUE => s.live = TRUE /\ r.dur = s.work
  <1> SUFFICES ASSUME NEW s \in Sessions, NEW r \in AutocommitOn(s)
               PROVE  /\ Outcome(r, s.work)
                      /\ s.auto = TRUE => r.dur = {}
                      /\ s.auto = FALSE /\ r.ok = TRUE => s.live = TRUE /\ r.dur = s.work
    BY Zenon
  <1>1. CASE s.auto = TRUE
    <2>1. r \in Reply(s, s, {})
      BY <1>1 DEF AutocommitOn
    <2>2. IsReply(r, s, s, {})
      BY <2>1, Replies
    <2> QED
      BY <1>1, <2>2, Zenon DEF IsReply, Outcome
  <1>2. CASE s.auto = FALSE
    <2> DEFINE t == [Ended(s) EXCEPT !.auto = TRUE]
    <2>1. t \in Sessions /\ t.work = {}
      BY SessionSteps, FieldSteps, Zenon
    <2>2. r \in Reply(s, t, s.work)
      BY <1>2 DEF AutocommitOn
    <2> HIDE DEF t
    <2>3. IsReply(r, s, t, s.work)
      BY <2>1, <2>2, Replies
    <2> QED
      BY <1>2, <2>1, <2>3, Zenon DEF IsReply, Outcome
  <1> QED
    BY <1>1, <1>2, SessionSteps, Zenon

(* A statement that writes nothing changes no work.                        *)
LEMMA ReadReplies ==
    \A s \in Sessions : \A r \in ReadOn(s) :
        /\ Outcome(r, s.work) /\ r.dur = {}
        /\ r.sess = s \/ (r.ok = FALSE /\ r.sess.live = FALSE)
        /\ r.sess.auto = s.auto /\ r.sess.trans = s.trans
  <1> SUFFICES ASSUME NEW s \in Sessions, NEW r \in ReadOn(s)
               PROVE  /\ Outcome(r, s.work) /\ r.dur = {}
                      /\ r.sess = s \/ (r.ok = FALSE /\ r.sess.live = FALSE)
                      /\ r.sess.auto = s.auto /\ r.sess.trans = s.trans
    BY Zenon
  <1>1. IsReply(r, s, s, {})
    BY Replies DEF ReadOn
  <1>2. Outcome(r, s.work) /\ r.dur = {}
    BY <1>1, Zenon DEF IsReply, Outcome
  <1> QED
    BY <1>1, <1>2 DEF IsReply

(* A session as it is kept in txConns: its writes stay open.                *)
InTx(s) == s.auto = TRUE => s.trans = TRUE

(* A write on a kept session, or on one that commits by itself.             *)
LEMMA WriteReplies ==
    ASSUME NEW s \in Sessions, NEW w \in Writes, NEW r \in WriteOn(s, w)
    PROVE  /\ InTx(s) => /\ Outcome(r, s.work \cup {w}) /\ r.dur = {}
                         /\ r.ok = TRUE => w \in r.sess.work
                         /\ r.sess.live = TRUE => s.live = TRUE /\ s.work \subseteq r.sess.work
                         /\ r.sess.auto = s.auto /\ InTx(r.sess)
           /\ s.auto = TRUE /\ s.trans = FALSE =>
                         /\ Outcome(r, s.work \cup {w}) \/ w \in s.work
                         /\ r.ok = TRUE => r.dur = {w}
  <1>1. ASSUME InTx(s)
        PROVE  /\ Outcome(r, s.work \cup {w}) /\ r.dur = {}
               /\ r.ok = TRUE => w \in r.sess.work
               /\ r.sess.live = TRUE => s.live = TRUE /\ s.work \subseteq r.sess.work
               /\ r.sess.auto = s.auto /\ InTx(r.sess)
    <2> DEFINE t == [s EXCEPT !.trans = TRUE, !.work = @ \cup {w}]
    <2>1. /\ t \in Sessions /\ t.work = s.work \cup {w}
          /\ t.trans = TRUE /\ t.auto = s.auto
      BY Zenon DEF Sessions
    <2>2. ~(s.auto /\ ~s.trans)
      BY <1>1, SessionSteps DEF InTx
    <2>3. r \in Reply(s, t, {})
      BY <2>2 DEF WriteOn
    <2> HIDE DEF t
    <2>4. IsReply(r, s, t, {})
      BY <2>1, <2>3, Replies
    <2> QED
      BY <1>1, <2>1, <2>4, Zenon DEF IsReply, Outcome, InTx
  <1>2. ASSUME s.auto = TRUE, s.trans = FALSE
        PROVE  /\ Outcome(r, s.work \cup {w}) \/ w \in s.work
               /\ r.ok = TRUE => r.dur = {w}
    <2>1. r \in Reply(s, s, {w})
      BY <1>2 DEF WriteOn
    <2>2. IsReply(r, s, s, {w})
      BY <2>1, Replies
    <2> QED
      BY <2>2, Zenon DEF IsReply, Outcome
  <1> QED
    BY <1>1, <1>2, Zenon
-----------------------------------------------------------------------------
(* The kept sessions: each is in a transaction of its own node, and what it *)
(* holds is open in MySQL.                                                  *)
Kept ==
    \A n \in Conns :
        /\ auto = TRUE => txConns[n].auto = TRUE
        /\ InTx(txConns[n])
        /\ \A w \in txConns[n].work : w[1] = n /\ fate[w] = "open"

Unmade == \A w \in Writes : w[2] > stmts => fate[w] = "unmade"

Pending(ws) == \A w \in ws : fate[w] \in {"open", "undone"}

(* No kept session holds a write that the client renounced.                 *)
Apart == \A n \in Conns : txConns[n].work \cap renounced = {}

Sound ==
    /\ TypeOK /\ KeptOnlyInTransaction
    /\ Kept /\ Unmade /\ Apart
    /\ Pending(told) /\ Pending(renounced)

(* For a client that keeps to one style: the writes it was told of are in   *)
(* the hands of the kept sessions, which commit them or are known broken.   *)
Held ==
    /\ \A n \in Conns : txConns[n].auto = auto
    /\ \A w \in told : /\ w[1] \in Conns
                       /\ txConns[w[1]].live = TRUE => w \in txConns[w[1]].work
-----------------------------------------------------------------------------
At(n) == {w \in Writes : w[1] = n}

(* The outcomes o concern the writes C: work of the sessions they are about *)
(* or writes of the statement now made.                                     *)
Concerned(o, C) ==
    /\ C \subseteq Writes
    /\ \A n \in DOMAIN o : Outcome(o[n], C \cap At(n))
    /\ \A w \in C : /\ w[1] \in DOMAIN o
                    /\ \/ w[1] \in Conns /\ w \in txConns[w[1]].work
                       \/ w[2] = stmts + 1 /\ stmts' = stmts + 1

(* Settle gives each write the fate its one outcome says.                   *)
LEMMA SettleFates ==
    ASSUME fate \in [Writes -> Fates], NEW o, NEW C, Concerned(o, C), Settle(o, C)
    PROVE  /\ fate' \in [Writes -> Fates]
           /\ \A w \in Writes \ C : fate'[w] = fate[w]
           /\ \A n \in DOMAIN o : \A w \in o[n].dur : fate'[w] = "durable"
           /\ \A n \in DOMAIN o : \A w \in o[n].sess.work : w \in C \cap At(n) /\ fate'[w] = "open"
           /\ (\A n \in DOMAIN o : o[n].dur = {}) => \A w \in C : fate'[w] \in {"open", "undone"}
  <1>1. fate' \in [Writes -> Fates]
    BY DEF Settle, Fates
  <1>2. \A n \in DOMAIN o : /\ o[n].dur \subseteq C \cap At(n)
                            /\ o[n].sess.work \subseteq C \cap At(n)
                            /\ o[n].dur \cap o[n].sess.work = {}
    BY DEF Concerned, Outcome
  <1>3. C \subseteq Writes
    BY DEF Concerned
  <1>4. \A w \in Writes \ C : fate'[w] = fate[w]
    BY <1>2 DEF Settle
  <1>5. \A n \in DOMAIN o : \A w \in o[n].dur : fate'[w] = "durable"
    BY <1>2, <1>3 DEF Settle
  <1>6. ASSUME NEW n \in DOMAIN o, NEW w \in o[n].sess.work
        PROVE  w \in C \cap At(n) /\ fate'[w] = "open"
    <2>1. w \in C \cap At(n) /\ w \in Writes
      BY <1>2, <1>3
    <2>2. ~ \E m \in DOMAIN o : w \in o[m].dur
      BY <1>2, <2>1 DEF At
    <2> QED
      BY <2>1, <2>2 DEF Settle
  <1>7. (\A n \in DOMAIN o : o[n].dur = {}) => \A w \in C : fate'[w] \in {"open", "undone"}
    BY <1>3 DEF Settle
  <1> QED
    BY <1>1, <1>4, <1>5, <1>6, <1>7

(* What a step leaves alone when it settles the outcomes o.                 *)
Carried(o) ==
    /\ fate' \in [Writes -> Fates]
    /\ Unmade'
    /\ \A w \in renounced : fate'[w] \in {"open", "undone"}
    /\ \A w \in promised : fate[w] = "durable" => fate'[w] = "durable"
    /\ (\A n \in DOMAIN o : o[n].dur = {}) => \A w \in told : fate'[w] \in {"open", "undone"}
    /\ \A n \in Conns \ DOMAIN o : \A w \in txConns[n].work : fate'[w] = "open"
    /\ \A n \in DOMAIN o : /\ o[n].sess \in Sessions
                           /\ \A w \in o[n].dur : fate'[w] = "durable"
                           /\ \A w \in o[n].sess.work :
                                w[1] = n /\ fate'[w] = "open" /\ w \notin renounced

(* Settling what a command concerns accounts for every write.              *)
LEMMA SettleCarries ==
    ASSUME Sound, NEW o, NEW C, Concerned(o, C), Settle(o, C),
           stmts' = stmts \/ stmts' = stmts + 1
    PROVE  Carried(o)
  <1> USE DEF Sound
  <1>0. /\ fate \in [Writes -> Fates] /\ stmts \in Nat
        /\ told \subseteq Writes /\ promised \subseteq Writes /\ renounced \subseteq Writes
        /\ \A w \in Writes : w[1] \in Nodes /\ w[2] \in Nat
        /\ \A n \in Conns : txConns[n] \in Sessions
    BY TxSessionAssumption DEF TypeOK, Writes
  <1>1. /\ fate' \in [Writes -> Fates]
        /\ \A w \in Writes \ C : fate'[w] = fate[w]
        /\ \A n \in DOMAIN o : \A w \in o[n].dur : fate'[w] = "durable"
        /\ \A n \in DOMAIN o : \A w \in o[n].sess.work : w \in C \cap At(n) /\ fate'[w] = "open"
        /\ (\A n \in DOMAIN o : o[n].dur = {}) => \A w \in C : fate'[w] \in {"open", "undone"}
    BY <1>0, SettleFates
  <1>2. \A w \in C : /\ w \in Writes /\ w[1] \in DOMAIN o
                     /\ fate[w] \in {"open", "unmade"} /\ w \notin renounced
                     /\ w[2] <= stmts'
    <2> SUFFICES ASSUME NEW w \in C
                 PROVE  /\ w \in Writes /\ w[1] \in DOMAIN o
                        /\ fate[w] \in {"open", "unmade"} /\ w \notin renounced
                        /\ w[2] <= stmts'
      OBVIOUS
    <2>1. w \in Writes /\ w[1] \in DOMAIN o
      BY DEF Concerned
    <2>2. CASE w[1] \in Conns /\ w \in txConns[w[1]].work
      <3>1. fate[w] = "open" /\ w \notin renounced
        BY <2>2 DEF Kept, Apart
      <3>2. w[2] <= stmts
        BY <1>0, <2>1, <3>1 DEF Unmade
      <3> QED
        BY <1>0, <2>1, <3>1, <3>2
    <2>3. CASE w[2] = stmts + 1 /\ stmts' = stmts + 1
      <3>1. fate[w] = "unmade"
        BY <1>0, <2>1, <2>3 DEF Unmade
      <3> QED
        BY <1>0, <2>1, <2>3, <3>1 DEF Pending
    <2> QED
      BY <2>2, <2>3 DEF Concerned
  <1>3. Unmade'
    <2> SUFFICES ASSUME NEW w \in Writes, w[2] > stmts'
                 PROVE  fate'[w] = "unmade"
      BY DEF Unmade, Writes
    <2>1. w \notin C /\ w[2] > stmts
      BY <1>0, <1>2
    <2> QED
      BY <1>1, <2>1 DEF Unmade
  <1>4. \A w \in renounced : fate'[w] \in {"open", "undone"}
    BY <1>0, <1>1, <1>2 DEF Pending
  <1>5. \A w \in promised : fate[w] = "durable" => fate'[w] = "durable"
    BY <1>0, <1>1, <1>2
  <1>6. (\A n \in DOMAIN o : o[n].dur = {}) => \A w \in told : fate'[w] \in {"open", "undone"}
    BY <1>0, <1>1 DEF Pending
  <1>7. ASSUME NEW n \in Conns \ DOMAIN o, NEW w \in txConns[n].work
        PROVE  fate'[w] = "open"
    <2>1. w[1] = n /\ fate[w] = "open" /\ w \in Writes
      BY <1>0 DEF Kept, Sessions
    <2> QED
      BY <1>1, <1>2, <2>1
  <1>8. \A n \in DOMAIN o : /\ o[n].sess \in Sessions
                            /\ \A w \in o[n].dur : fate'[w] = "durable"
                            /\ \A w \in o[n].sess.work :
                                 w[1] = n /\ fate'[w] = "open" /\ w \notin renounced
    BY <1>1, <1>2 DEF Concerned, Outcome, At
  <1> QED
    BY <1>1, <1>3, <1>4, <1>5, <1>6, <1>7, <1>8 DEF Carried
-----------------------------------------------------------------------------
(* Each chooses one outcome for every connection.                          *)
LEMMA EachChooses ==
    ASSUME NEW out, NEW o \in Each(out)
    PROVE  DOMAIN o = DOMAIN out /\ \A n \in DOMAIN out : o[n] \in out[n]
  BY DEF Each

(* A command on kept connections concerns their work.                       *)
LEMMA KeptConcerned ==
    ASSUME Sound, NEW R \in SUBSET Conns, NEW o, DOMAIN o = R,
           \A n \in R : Outcome(o[n], txConns[n].work)
    PROVE  Concerned(o, WorkOf(R))
  <1>1. \A n \in Conns : txConns[n].work \subseteq Writes /\ \A w \in txConns[n].work : w[1] = n
    BY DEF Sound, TypeOK, Sessions, Kept
  <1>2. WorkOf(R) \subseteq Writes
    BY <1>1 DEF WorkOf
  <1>3. \A n \in R : txConns[n].work \subseteq WorkOf(R) \cap At(n)
    BY <1>1 DEF WorkOf, At
  <1>4. \A n \in R : Outcome(o[n], WorkOf(R) \cap At(n))
    BY <1>3 DEF Outcome
  <1>5. \A w \in WorkOf(R) : w[1] \in R /\ w \in txConns[w[1]].work
    BY <1>1 DEF WorkOf
  <1> QED
    BY <1>2, <1>4, <1>5 DEF Concerned

(* The connections after a step: those the outcomes o are about, as they    *)
(* left them, and others as they were.                                      *)
Replaced(o) ==
    \A n \in DOMAIN txConns' :
        \/ n \in DOMAIN o /\ txConns'[n] = o[n].sess
        \/ n \in Conns \ DOMAIN o /\ txConns'[n] = txConns[n]

(* Connections with their new sessions hold their open work.               *)
LEMMA ReplacedKept ==
    ASSUME Sound, NEW o, Carried(o), Replaced(o), renounced' = renounced,
           \A n \in DOMAIN o : /\ auto' = TRUE => o[n].sess.auto = TRUE
                               /\ InTx(o[n].sess),
           auto' = TRUE => auto = TRUE
    PROVE  Kept' /\ Apart' /\ Pending(renounced)'
  <1>1. ASSUME NEW n \in DOMAIN txConns'
        PROVE  /\ auto' = TRUE => txConns'[n].auto = TRUE
               /\ InTx(txConns'[n])
               /\ \A w \in txConns'[n].work : w[1] = n /\ fate'[w] = "open"
               /\ txConns'[n].work \cap renounced = {}
    <2>1. CASE n \in DOMAIN o /\ txConns'[n] = o[n].sess
      BY <2>1 DEF Carried
    <2>2. CASE n \in Conns \ DOMAIN o /\ txConns'[n] = txConns[n]
      BY <2>2 DEF Carried, Sound, Kept, Apart
    <2> QED
      BY <2>1, <2>2, Zenon DEF Replaced
  <1>2. Kept'
    BY <1>1, Zenon DEF Kept, Conns, InTx
  <1>3. Apart'
    BY <1>1, Zenon DEF Apart, Conns
  <1>4. Pending(renounced)'
    BY DEF Carried, Pending
  <1> QED
    BY <1>2, <1>3, <1>4

(* With no connection kept there is nothing to hold.                       *)
LEMMA NoneKept ==
    ASSUME txConns' = NoConns
    PROVE  /\ Conns' = {} /\ (Conns' \subseteq Nodes) /\ txConns' \in [Conns' -> Sessions]
           /\ Kept' /\ Apart' /\ KeptOnlyInTransaction'
  BY DEF NoConns, Conns, Kept, Apart, KeptOnlyInTransaction
-----------------------------------------------------------------------------
(* What a step keeps: what is durable stays so, what is newly promised is   *)
(* durable, and the writes told of stay in the hands of the sessions.       *)
Keeps ==
    /\ \A w \in promised : fate[w] = "durable" => fate'[w] = "durable"
    /\ Held => \A w \in promised' \ promised : fate'[w] = "durable"
    /\ Held /\ ~MixesStyles => Held'

(* A commit that every kept connection answered OK commits what was told.   *)
LEMMA ToldCommitted ==
    ASSUME Held, NEW o, Carried(o), DOMAIN o = Conns, Succeeds(o),
           \A n \in Conns : Outcome(o[n], txConns[n].work),
           \A n \in Conns : o[n].ok = TRUE => txConns[n].live = TRUE /\ o[n].dur = txConns[n].work
    PROVE  \A w \in told : fate'[w] = "durable"
  <1> SUFFICES ASSUME NEW w \in told PROVE fate'[w] = "durable"
    OBVIOUS
  <1>1. w[1] \in Conns /\ (txConns[w[1]].live = TRUE => w \in txConns[w[1]].work)
    BY DEF Held
  <1>2. o[w[1]].ok \in BOOLEAN
    BY <1>1 DEF Outcome
  <1>3. o[w[1]].ok = TRUE
    BY <1>1, <1>2 DEF Succeeds
  <1> QED
    BY <1>1, <1>3 DEF Carried

(* With no connections kept and nothing told, nothing is to be held.        *)
LEMMA NothingHeld == Conns' = {} /\ told' = {} => Held'
  BY DEF Held

(* handleBegin.                                                            *)
LEMMA BeginSound == Sound /\ handleBegin => Sound' /\ Keeps
  <1> SUFFICES ASSUME Sound, handleBegin PROVE Sound' /\ Keeps
    OBVIOUS
  <1> DEFINE Reached(R, o) ==
          /\ (R = Conns /\ Succeeds(o)) \/ StopsAtError(o)
          /\ txConns' = [n \in Conns |-> IF n \in R THEN o[n].sess ELSE txConns[n]]
          /\ inTrans' = (inTrans \/ Succeeds(o))
          /\ answer' = Succeeds(o)
          /\ Settle(o, WorkOf(R))
          /\ promised' = IF Succeeds(o) THEN promised \cup told ELSE promised
  <1>1. PICK R \in SUBSET Conns :
          \E o \in Each([n \in R |-> BeginOn(txConns[n])]) : Reached(R, o)
    BY DEF handleBegin
  <1>2. PICK o \in Each([n \in R |-> BeginOn(txConns[n])]) : Reached(R, o)
    BY <1>1
  <1>3. DOMAIN o = R /\ \A n \in R : o[n] \in BeginOn(txConns[n])
    BY EachChooses
  <1>4. TypeOK /\ \A n \in Conns : txConns[n] \in Sessions
    BY DEF Sound, TypeOK
  <1>5. \A n \in R : /\ Outcome(o[n], txConns[n].work)
                     /\ o[n].sess.auto = txConns[n].auto
                     /\ InTx(txConns[n]) => InTx(o[n].sess)
    BY <1>3, <1>4, BeginReplies DEF InTx
  <1>6. Concerned(o, WorkOf(R))
    BY <1>3, <1>5, KeptConcerned
  <1>7. Carried(o)
    BY <1>2, <1>6, SettleCarries DEF handleBegin
  <1>8. Replaced(o)
    BY <1>2, <1>3 DEF Replaced
  <1>9. Kept' /\ Apart' /\ Pending(renounced)'
    <2>1. \A n \in DOMAIN o : (auto' = TRUE => o[n].sess.auto = TRUE) /\ InTx(o[n].sess)
      BY <1>3, <1>5 DEF Sound, Kept, handleBegin
    <2> QED
      BY <1>7, <1>8, <2>1, ReplacedKept, Zenon DEF handleBegin
  <1>10. TypeOK'
    <2>1. Conns' = Conns /\ txConns' \in [Conns -> Sessions]
      BY <1>2, <1>3, <1>4, <1>5 DEF Conns, Outcome
    <2>2. inTrans' \in BOOLEAN /\ answer' \in BOOLEAN
      BY <1>2 DEF Succeeds
    <2>3. promised' \subseteq Writes
      BY <1>2, <1>4 DEF TypeOK
    <2> QED
      BY <1>4, <1>7, <2>1, <2>2, <2>3, SMTT(30) DEF TypeOK, handleBegin, Carried
  <1>11. KeptOnlyInTransaction'
    BY <1>2, Zenon DEF Sound, KeptOnlyInTransaction, isInTransaction, handleBegin, Conns
  <1>12. Unmade' /\ Pending(told)'
    BY <1>7 DEF Carried, Pending, handleBegin
  <1>13. Held => \A w \in promised' \ promised : fate'[w] = "durable"
    <2>1. CASE Succeeds(o)
      <3>1. R = Conns
        BY <1>2, <2>1 DEF Succeeds, StopsAtError
      <3>2. \A n \in Conns : o[n].ok = TRUE => txConns[n].live = TRUE /\ o[n].dur = txConns[n].work
        BY <1>3, <1>4, <3>1, BeginReplies
      <3>3. Held => \A w \in told : fate'[w] = "durable"
        BY <1>3, <1>5, <1>7, <2>1, <3>1, <3>2, ToldCommitted, Zenon
      <3> QED
        BY <1>2, <3>3
    <2>2. CASE ~Succeeds(o)
      BY <1>2, <2>2
    <2> QED
      BY <2>1, <2>2
  <1>14. Held => Held'
    <2>1. DOMAIN txConns' = Conns
      BY <1>2
    <2>2. \A n \in Conns : txConns'[n].auto = txConns[n].auto
      BY <1>2, <1>5
    <2>3. told' = {} /\ auto' = auto
      BY DEF handleBegin
    <2> QED
      BY <2>1, <2>2, <2>3 DEF Held, Conns
  <1>15. Keeps
    BY <1>7, <1>13, <1>14 DEF Keeps, Carried
  <1> QED
    BY <1>9, <1>10, <1>11, <1>12, <1>15 DEF Sound

(* handleCommit.                                                           *)
LEMMA CommitSound == Sound /\ handleCommit => Sound' /\ Keeps
  <1> SUFFICES ASSUME Sound, handleCommit PROVE Sound' /\ Keeps
    OBVIOUS
  <1>1. PICK o \in Each([n \in Conns |-> CommitOn(txConns[n])]) :
          /\ EndOn(o)
          /\ promised' = IF Succeeds(o) THEN promised \cup told ELSE promised
    BY DEF handleCommit
  <1>2. DOMAIN o = Conns /\ \A n \in Conns : o[n] \in CommitOn(txConns[n])
    BY EachChooses
  <1>3. TypeOK /\ \A n \in Conns : txConns[n] \in Sessions
    BY DEF Sound, TypeOK
  <1>a. \A n \in Conns : /\ Outcome(o[n], txConns[n].work)
                         /\ o[n].ok = TRUE => txConns[n].live = TRUE /\ o[n].dur = txConns[n].work
    BY <1>2, <1>3, CommitReplies
  <1>4. Concerned(o, WorkOf(Conns))
    BY <1>2, <1>a, KeptConcerned
  <1>5. Carried(o)
    BY <1>1, <1>4, SettleCarries DEF handleCommit, EndOn
  <1>6. inTrans' \in BOOLEAN /\ answer' \in BOOLEAN /\ promised' \subseteq Writes
    BY <1>1, <1>3, Zenon DEF EndOn, Succeeds, TypeOK
  <1>7. TypeOK'
    BY <1>1, <1>3, <1>5, <1>6, NoneKept DEF TypeOK, handleCommit, EndOn, Carried
  <1>8. Kept' /\ Apart' /\ KeptOnlyInTransaction'
    BY <1>1, NoneKept, SMTT(30) DEF EndOn
  <1>9. Unmade' /\ Pending(told)' /\ Pending(renounced)'
    BY <1>1, <1>5 DEF Carried, Pending, handleCommit, EndOn
  <1>10. Held => \A w \in promised' \ promised : fate'[w] = "durable"
    <2>1. Held /\ Succeeds(o) => \A w \in told : fate'[w] = "durable"
      BY <1>2, <1>5, <1>a, ToldCommitted, ZenonT(30)
    <2> QED
      BY <1>1, <2>1
  <1>11. Keeps
    BY <1>1, <1>5, <1>10, NoneKept, NothingHeld, SMTT(30) DEF Keeps, Carried, EndOn
  <1> QED
    BY <1>7, <1>8, <1>9, <1>11 DEF Sound

(* handleRollback.                                                         *)
LEMMA RollbackSound == Sound /\ handleRollback => Sound' /\ Keeps
  <1> SUFFICES ASSUME Sound, handleRollback PROVE Sound' /\ Keeps
    OBVIOUS
  <1>1. PICK o \in Each([n \in Conns |-> RollbackOn(txConns[n])]) :
          /\ EndOn(o)
          /\ renounced' = IF Succeeds(o) THEN renounced \cup told ELSE renounced
    BY DEF handleRollback
  <1>2. DOMAIN o = Conns /\ \A n \in Conns : o[n] \in RollbackOn(txConns[n])
    BY EachChooses
  <1>3. TypeOK /\ \A n \in Conns : txConns[n] \in Sessions
    BY DEF Sound, TypeOK
  <1>4. \A n \in Conns : Outcome(o[n], txConns[n].work) /\ o[n].dur = {}
    BY <1>2, <1>3, RollbackReplies
  <1>5. Carried(o)
    BY <1>1, <1>2, <1>4, KeptConcerned, SettleCarries DEF handleRollback, EndOn
  <1>6. inTrans' \in BOOLEAN /\ answer' \in BOOLEAN /\ renounced' \subseteq Writes
    BY <1>1, <1>3, Zenon DEF EndOn, Succeeds, TypeOK
  <1>7. TypeOK'
    BY <1>1, <1>3, <1>5, <1>6, NoneKept, SMTT(30) DEF TypeOK, handleRollback, EndOn, Carried
  <1>8. Kept' /\ Apart' /\ KeptOnlyInTransaction'
    BY <1>1, NoneKept, SMTT(30) DEF EndOn
  <1>9. \A w \in told \cup renounced : fate'[w] \in {"open", "undone"}
    BY <1>2, <1>4, <1>5 DEF Carried
  <1>10. Unmade' /\ Pending(told)' /\ Pending(renounced)'
    BY <1>1, <1>5, <1>9, SMTT(30) DEF Carried, Pending, EndOn
  <1>11. Keeps
    BY <1>1, <1>5, NoneKept, NothingHeld DEF Keeps, Carried, EndOn, handleRollback
  <1> QED
    BY <1>7, <1>8, <1>10, <1>11 DEF Sound

(* SET autocommit = 1.                                                     *)
LEMMA AutocommitOnSound == Sound /\ SetAutoCommitOn => Sound' /\ Keeps
  <1> SUFFICES ASSUME Sound, SetAutoCommitOn PROVE Sound' /\ Keeps
    OBVIOUS
  <1> DEFINE Reached(R, o) ==
          /\ (R = Conns /\ Succeeds(o)) \/ StopsAtError(o)
          /\ answer' = Succeeds(o)
          /\ Settle(o, WorkOf(R))
          /\ \A n \in Conns \ R : lost[n] < MaxLost
          /\ lost' = [n \in Nodes |-> IF n \in Conns \ R THEN lost[n] + 1 ELSE lost[n]]
          /\ promised' = IF Succeeds(o) /\ ~auto THEN promised \cup told ELSE promised
          /\ told' = IF Succeeds(o) /\ auto THEN told ELSE {}
  <1>a. PICK R \in SUBSET Conns :
          \E o \in Each([n \in R |-> AutocommitOn(txConns[n])]) : Reached(R, o)
    BY SMTT(30) DEF SetAutoCommitOn
  <1>1. PICK o \in Each([n \in R |-> AutocommitOn(txConns[n])]) : Reached(R, o)
    BY <1>a
  <1>2. DOMAIN o = R /\ \A n \in R : o[n] \in AutocommitOn(txConns[n])
    BY EachChooses
  <1>3. TypeOK /\ \A n \in Conns : txConns[n] \in Sessions
    BY DEF Sound, TypeOK
  <1>4. \A n \in R : /\ Outcome(o[n], txConns[n].work)
                     /\ txConns[n].auto = TRUE => o[n].dur = {}
    BY <1>2, <1>3, AutocommitOnReplies, SMTT(30)
  <1>5. Carried(o)
    BY <1>1, <1>2, <1>4, KeptConcerned, SettleCarries DEF SetAutoCommitOn
  <1>6. /\ auto' \in BOOLEAN /\ inTrans' \in BOOLEAN /\ answer' \in BOOLEAN
        /\ promised' \subseteq Writes /\ told' \subseteq Writes
    BY <1>1, <1>3, Zenon DEF SetAutoCommitOn, Succeeds, TypeOK
  <1>7. lost' \in [Nodes -> 0..MaxLost]
    BY <1>1, <1>3, TxSessionAssumption DEF TypeOK
  <1>8. TypeOK'
    <2>1. fate' \in [Writes -> Fates]
      BY <1>5, Zenon DEF Carried
    <2>2. (Conns' \subseteq Nodes) /\ txConns' \in [Conns' -> Sessions]
      BY NoneKept, Zenon DEF SetAutoCommitOn
    <2>3. stmts' = stmts /\ renounced' = renounced
      BY ZenonT(30) DEF SetAutoCommitOn
    <2> QED
      BY <1>3, <1>6, <1>7, <2>1, <2>2, <2>3 DEF TypeOK
  <1>9. Kept' /\ Apart' /\ KeptOnlyInTransaction'
    BY NoneKept DEF SetAutoCommitOn
  <1>10. Unmade' /\ Pending(renounced)'
    BY <1>5, Zenon DEF Carried, Pending, SetAutoCommitOn
  <1>11. Pending(told)'
    <2>1. CASE auto = TRUE
      <3>1. \A n \in DOMAIN o : o[n].dur = {}
        <4>1. \A n \in Conns : txConns[n].auto = TRUE
          BY <2>1, ZenonT(30) DEF Sound, Kept
        <4> QED
          BY <1>2, <1>4, <4>1, Zenon
      <3> QED
        BY <1>1, <1>5, <3>1 DEF Carried, Pending
    <2>2. CASE auto = FALSE
      BY <1>1, <2>2 DEF Pending
    <2>3. auto \in BOOLEAN
      BY <1>3, Zenon DEF TypeOK
    <2> QED
      BY <2>1, <2>2, <2>3, ZenonT(30)
  <1>12. Held => \A w \in promised' \ promised : fate'[w] = "durable"
    <2>1. CASE Succeeds(o) /\ auto = FALSE
      <3>1. R = Conns
        BY <1>1, <2>1 DEF Succeeds, StopsAtError
      <3>2. Held => \A n \in Conns : txConns[n].auto = FALSE
        BY <2>1 DEF Held
      <3>3. Held => \A n \in Conns : o[n].ok = TRUE =>
                        txConns[n].live = TRUE /\ o[n].dur = txConns[n].work
        BY <1>2, <1>3, <3>1, <3>2, AutocommitOnReplies
      <3>4. Held => \A w \in told : fate'[w] = "durable"
        BY <1>2, <1>4, <1>5, <2>1, <3>1, <3>3, ToldCommitted, Zenon
      <3> QED
        BY <1>1, <3>4
    <2>2. CASE ~Succeeds(o) \/ auto = TRUE
      BY <1>1, <2>2
    <2> QED
      BY <1>3, <2>1, <2>2, Zenon DEF TypeOK
  <1>13. Held /\ ~MixesStyles => Held'
    <2>1. ASSUME Held, ~MixesStyles
          PROVE  told' = {}
      <3>1. auto = TRUE => Conns = {}
        BY <2>1 DEF SetAutoCommitOn, Sound, KeptOnlyInTransaction, isInTransaction
      <3>2. Conns = {} => told = {}
        BY <2>1 DEF Held
      <3> QED
        BY <1>1, <1>3, <3>1, <3>2 DEF TypeOK
    <2> QED
      BY <2>1, NoneKept, NothingHeld DEF SetAutoCommitOn
  <1>14. Keeps
    BY <1>5, <1>12, <1>13 DEF Keeps, Carried
  <1> QED
    BY <1>8, <1>9, <1>10, <1>11, <1>14, SMTT(30) DEF Sound

(* SET autocommit = 0.                                                     *)
LEMMA AutocommitOffSound == Sound /\ SetAutoCommitOff => Sound' /\ Keeps
  <1> SUFFICES ASSUME Sound, SetAutoCommitOff PROVE Sound' /\ Keeps
    OBVIOUS
  <1>1. TypeOK'
    BY Zenon DEF Sound, TypeOK, SetAutoCommitOff, Conns
  <1>2. KeptOnlyInTransaction'
    BY DEF KeptOnlyInTransaction, isInTransaction, SetAutoCommitOff
  <1>3. Kept' /\ Apart' /\ Unmade'
    BY DEF Sound, Kept, Apart, Unmade, SetAutoCommitOff, Conns, InTx
  <1>4. Pending(told)' /\ Pending(renounced)'
    BY DEF Sound, Pending, SetAutoCommitOff
  <1>5. Held /\ ~MixesStyles => Held'
    <2> SUFFICES ASSUME Held, ~MixesStyles PROVE Held'
      OBVIOUS
    <2>1. auto = TRUE => Conns = {}
      BY DEF SetAutoCommitOff, Sound, KeptOnlyInTransaction, isInTransaction
    <2>2. auto \in BOOLEAN
      BY DEF Sound, TypeOK
    <2> QED
      BY <2>1, <2>2, Zenon DEF Held, SetAutoCommitOff, Conns
  <1>6. Keeps
    BY <1>5 DEF Keeps, SetAutoCommitOff
  <1> QED
    BY <1>1, <1>2, <1>3, <1>4, <1>6 DEF Sound

(* The two ends of a client: rolled back, or only given up.                 *)
LEMMA QuitSound == Sound /\ (Quit \/ clean) => Sound' /\ Keeps
  <1> SUFFICES ASSUME Sound, Quit \/ clean PROVE Sound' /\ Keeps
    OBVIOUS
  <1>1. NewClient
    BY DEF Quit, clean
  <1>2. TypeOK /\ \A n \in Conns : txConns[n] \in Sessions
    BY DEF Sound, TypeOK
  <1>3. /\ fate' \in [Writes -> Fates] /\ Unmade'
        /\ \A w \in told \cup renounced : fate'[w] \in {"open", "undone"}
        /\ \A w \in promised : fate[w] = "durable" => fate'[w] = "durable"
    <2>1. CASE Quit
      <3>1. PICK o \in Each([n \in Conns |-> RollbackOn(txConns[n])]) : Settle(o, WorkOf(Conns))
        BY <2>1 DEF Quit
      <3>2. DOMAIN o = Conns /\ \A n \in Conns : o[n] \in RollbackOn(txConns[n])
        BY EachChooses
      <3>3. \A n \in Conns : Outcome(o[n], txConns[n].work) /\ o[n].dur = {}
        BY <1>2, <3>2, RollbackReplies
      <3>4. Carried(o)
        BY <1>1, <3>1, <3>2, <3>3, KeptConcerned, SettleCarries DEF NewClient
      <3> QED
        BY <3>2, <3>3, <3>4 DEF Carried
    <2>2. CASE clean
      BY <1>1, <1>2, <2>2 DEF clean, NewClient, Sound, TypeOK, Unmade, Pending
    <2> QED
      BY <2>1, <2>2
  <1>4. TypeOK'
    BY <1>1, <1>2, <1>3, NoneKept, Zenon DEF TypeOK, NewClient
  <1>5. Kept' /\ Apart' /\ KeptOnlyInTransaction'
    BY <1>1, NoneKept DEF NewClient
  <1>6. Pending(told)' /\ Pending(renounced)'
    BY <1>1, <1>3 DEF Pending, NewClient
  <1>7. Keeps
    BY <1>1, <1>3, NoneKept, NothingHeld DEF Keeps, NewClient
  <1> QED
    BY <1>3, <1>4, <1>5, <1>6, <1>7 DEF Sound

(* The pool resets a connection it takes back.                             *)
LEMMA PoolResetsSound == Sound /\ (\E w \in Writes : PoolResets(w)) => Sound' /\ Keeps
  <1> SUFFICES ASSUME Sound, NEW w \in Writes, PoolResets(w) PROVE Sound' /\ Keeps
    OBVIOUS
  <1> USE DEF PoolResets, statusVars, clientVars
  <1>1. TypeOK' /\ KeptOnlyInTransaction'
    BY DEF Sound, TypeOK, Conns, Fates, KeptOnlyInTransaction, isInTransaction
  <1>2. /\ fate' \in [Writes -> Fates] /\ fate[w] = "open"
        /\ \A v \in Writes : fate'[v] = IF v = w THEN "undone" ELSE fate[v]
    BY DEF Sound, TypeOK, Fates
  <1>3. \A n \in Conns : txConns[n].work \subseteq Writes /\ w \notin txConns[n].work
    BY DEF Sound, TypeOK, Sessions, WorkOf
  <1>4. Kept' /\ Apart'
    BY <1>2, <1>3 DEF Sound, Kept, Apart, Conns, InTx
  <1>5. Unmade'
    BY <1>2 DEF Sound, Unmade
  <1>6. Pending(told)' /\ Pending(renounced)'
    BY <1>2 DEF Sound, Pending, TypeOK
  <1>7. Keeps
    BY <1>2 DEF Keeps, Held, Conns, Sound, TypeOK
  <1> QED
    BY <1>1, <1>4, <1>5, <1>6, <1>7 DEF Sound

(* A statement that failed leaves its transaction as it was.               *)
LEMMA FailSound ==
    ASSUME Sound, NEW L, Fail(L), UNCHANGED <<statusVars, renounced>>
    PROVE  Sound' /\ Keeps
  <1> USE DEF Fail, statusVars
  <1>1. lost' \in [Nodes -> 0..MaxLost]
    BY TxSessionAssumption DEF Sound, TypeOK
  <1>2. TypeOK' /\ KeptOnlyInTransaction'
    BY <1>1, Zenon DEF Sound, TypeOK, Conns, KeptOnlyInTransaction, isInTransaction
  <1>3. Kept' /\ Apart' /\ Unmade'
    BY DEF Sound, Kept, Apart, Unmade, Conns, InTx
  <1>4. Pending(told)' /\ Pending(renounced)'
    BY DEF Sound, Pending
  <1>5. Keeps
    BY DEF Keeps, Held, Conns
  <1> QED
    BY <1>2, <1>3, <1>4, <1>5 DEF Sound

(* The session a statement of a transaction runs on at node n: the kept one *)
(* or one popped and opened for it.                                         *)
Usable(s, n) ==
    /\ s \in Sessions /\ InTx(s)
    /\ auto = TRUE => s.auto = TRUE
    /\ IF n \in Conns THEN s = txConns[n] ELSE s.work = {} /\ s.auto = auto

(* One command on node n's session, in a transaction.                       *)
Ran(n, s, r, ws) ==
    /\ Outcome(r, s.work \cup ws) /\ r.dur = {}
    /\ r.sess.auto = s.auto /\ InTx(r.sess)
    /\ ws \subseteq At(n)
    /\ \A w \in ws : w[2] = stmts + 1 /\ stmts' = stmts + 1
    /\ txConns' = Keep(n, r.sess)
    /\ Settle([m \in {n} |-> r], s.work \cup ws)
    /\ stmts' \in {stmts, stmts + 1} /\ stmts' \in 0..MaxStmts
    /\ UNCHANGED <<auto, inTrans, lost, promised, renounced>>

(* When it is answered OK its writes are open in the session.               *)
Executed(n, s, r, ws) ==
    /\ Usable(s, n) /\ Ran(n, s, r, ws)
    /\ r.sess.live = TRUE => s.live = TRUE /\ s.work \subseteq r.sess.work
    /\ answer' \in BOOLEAN
    /\ told' = told \/ (told' = told \cup ws /\ ws \subseteq r.sess.work)

(* A statement that ran on one more connection.                            *)
LEMMA RanCarries ==
    ASSUME Sound, NEW n \in Nodes, NEW s, Usable(s, n), NEW r, NEW ws, Ran(n, s, r, ws)
    PROVE  /\ Carried([m \in {n} |-> r]) /\ Kept' /\ Apart' /\ Pending(renounced)'
           /\ \A w \in told : fate'[w] \in {"open", "undone"}
           /\ Conns' = Conns \cup {n} /\ txConns' \in [Conns' -> Sessions]
  <1> DEFINE o == [m \in {n} |-> r]
             C == s.work \cup ws
  <1>1. DOMAIN o = {n} /\ o[n] = r
    OBVIOUS
  <1>2. s.work \subseteq At(n) /\ C \subseteq At(n)
    <2>1. CASE n \in Conns
      BY <2>1 DEF Usable, Sound, TypeOK, Sessions, Kept, At, Ran
    <2>2. CASE n \notin Conns
      BY <2>2 DEF Usable, Ran
    <2> QED
      BY <2>1, <2>2, SMTT(30)
  <1>3. Concerned(o, C)
    <2>1. C \subseteq Writes /\ C \cap At(n) = C
      BY <1>2 DEF At
    <2>2. \A m \in DOMAIN o : Outcome(o[m], C \cap At(m))
      BY <1>1, <2>1, Zenon DEF Ran
    <2>3. \A w \in C : /\ w[1] \in DOMAIN o
                       /\ \/ w[1] \in Conns /\ w \in txConns[w[1]].work
                          \/ w[2] = stmts + 1 /\ stmts' = stmts + 1
      BY <1>1, <1>2, SMTT(30) DEF At, Ran, Usable
    <2> QED
      BY <2>1, <2>2, <2>3 DEF Concerned
  <1>4. Carried(o)
    BY <1>3, SettleCarries DEF Ran
  <1>5. Conns' = Conns \cup {n} /\ txConns' \in [Conns' -> Sessions]
    BY SMTT(30) DEF Ran, Keep, Conns, Outcome, Sound, TypeOK
  <1>6. Replaced(o)
    BY <1>1, <1>5 DEF Ran, Keep, Replaced, Conns
  <1>7. \A m \in DOMAIN o : (auto' = TRUE => o[m].sess.auto = TRUE) /\ InTx(o[m].sess)
    BY <1>1 DEF Ran, Usable
  <1>8. Kept' /\ Apart' /\ Pending(renounced)'
    <2> HIDE DEF o
    <2>1. renounced' = renounced /\ auto' = auto
      BY ZenonT(30) DEF Ran
    <2> QED
      BY <1>4, <1>6, <1>7, <2>1, ReplacedKept, Zenon
  <1>9. \A w \in told : fate'[w] \in {"open", "undone"}
    BY <1>1, <1>4, Zenon DEF Carried, Ran
  <1> QED
    BY <1>4, <1>5, <1>8, <1>9

(* And the connection it ran on is kept.                                   *)
LEMMA ExecutedHeld ==
    ASSUME Sound, NEW n \in Nodes, NEW s, NEW r, NEW ws, Executed(n, s, r, ws), Held
    PROVE  Held'
  <1>1. Conns' = Conns \cup {n}
    BY RanCarries, Zenon DEF Executed
  <1>2. /\ txConns'[n] = r.sess
        /\ \A m \in Conns \ {n} : txConns'[m] = txConns[m]
    BY DEF Executed, Ran, Keep
  <1>3. \A m \in Conns' : txConns'[m].auto = auto'
    <2>1. s.auto = auto
      BY DEF Executed, Usable, Held
    <2> QED
      BY <1>1, <1>2, <2>1 DEF Executed, Ran, Held
  <1>4. ASSUME NEW w \in told
        PROVE  /\ w[1] \in Conns'
               /\ txConns'[w[1]].live = TRUE => w \in txConns'[w[1]].work
    <2>1. w[1] \in Conns /\ (txConns[w[1]].live = TRUE => w \in txConns[w[1]].work)
      BY DEF Held
    <2>2. CASE w[1] = n
      BY <1>1, <1>2, <2>1, <2>2 DEF Executed, Usable
    <2>3. CASE w[1] # n
      BY <1>1, <1>2, <2>1, <2>3
    <2> QED
      BY <2>2, <2>3, Zenon
  <1>5. ASSUME NEW w \in told' \ told
        PROVE  /\ w[1] \in Conns'
               /\ w \in txConns'[w[1]].work
    <2>1. w \in ws /\ w \in r.sess.work /\ w[1] = n
      BY SMTT(30) DEF Executed, Ran, At
    <2> QED
      BY <1>1, <1>2, <2>1, SMTT(30)
  <1> QED
    BY <1>3, <1>4, <1>5, Zenon DEF Held

(* A statement in a transaction, once it has run.                          *)
LEMMA ExecutedSound ==
    ASSUME Sound, isInTransaction, NEW n \in Nodes, NEW s, NEW r, NEW ws,
           Executed(n, s, r, ws)
    PROVE  Sound' /\ Keeps
  <1>1. /\ Carried([m \in {n} |-> r]) /\ Kept' /\ Apart' /\ Pending(renounced)'
        /\ \A w \in told : fate'[w] \in {"open", "undone"}
        /\ Conns' = Conns \cup {n} /\ txConns' \in [Conns' -> Sessions]
    <2>1. Usable(s, n) /\ Ran(n, s, r, ws)
      BY Zenon DEF Executed
    <2> QED
      BY <2>1, RanCarries, Zenon
  <1>2. told' \subseteq Writes /\ ws \subseteq Writes
    <2>1. ws \subseteq Writes
      BY Zenon DEF Executed, Ran, At
    <2>2. told \subseteq Writes
      BY ZenonT(30) DEF Sound, TypeOK
    <2> QED
      BY <2>1, <2>2, Zenon DEF Executed
  <1>3. TypeOK'
    <2>1. auto' \in BOOLEAN /\ inTrans' \in BOOLEAN /\ answer' \in BOOLEAN
      BY Zenon DEF Sound, TypeOK, Executed, Ran
    <2>2. Conns \subseteq Nodes
      BY Zenon DEF Sound, TypeOK
    <2>3. Conns' \subseteq Nodes
      BY <1>1, <2>2, Zenon
    <2>4. lost' \in [Nodes -> 0..MaxLost] /\ stmts' \in 0..MaxStmts
      BY Zenon DEF Sound, TypeOK, Executed, Ran
    <2>5. fate' \in [Writes -> Fates]
      BY <1>1, Zenon DEF Carried
    <2>6. promised' \subseteq Writes /\ renounced' \subseteq Writes
      BY ZenonT(30) DEF Sound, TypeOK, Executed, Ran
    <2> QED
      BY <1>1, <1>2, <2>1, <2>3, <2>4, <2>5, <2>6, Zenon DEF TypeOK
  <1>4. KeptOnlyInTransaction'
    BY SMTT(30) DEF KeptOnlyInTransaction, isInTransaction, Executed, Ran
  <1>5. \A w \in r.sess.work : fate'[w] = "open"
    BY <1>1, SMTT(30) DEF Carried
  <1>6. Pending(told)' /\ Unmade'
    BY <1>1, <1>5 DEF Pending, Carried, Executed
  <1>7. Keeps
    <2>1. promised' = promised
      BY Zenon DEF Executed, Ran
    <2>2. \A w \in promised : fate[w] = "durable" => fate'[w] = "durable"
      BY <1>1, Zenon DEF Carried
    <2>3. Held => Held'
      BY ExecutedHeld, Zenon
    <2> QED
      BY <2>1, <2>2, <2>3, Zenon DEF Keeps
  <1> QED
    BY <1>1, <1>3, <1>4, <1>6, <1>7 DEF Sound

(* A connection dies with the work it held.                                *)
LEMMA ConnDiesSound == Sound /\ (\E n \in Conns : ConnDies(n)) => Sound' /\ Keeps
  <1> SUFFICES ASSUME Sound, NEW n \in Conns, ConnDies(n) PROVE Sound' /\ Keeps
    BY SMTT(30)
  <1> DEFINE s == txConns[n]
             broken == [s EXCEPT !.live = FALSE, !.work = {}]
             r == [ok |-> FALSE, dur |-> {}, sess |-> broken]
  <1>1. Usable(s, n)
    BY DEF Usable, Sound, TypeOK, Kept
  <1>2. /\ broken \in Sessions /\ broken.work = {}
        /\ broken.auto = s.auto /\ broken.trans = s.trans
    BY <1>1, Zenon DEF Usable, Sessions
  <1>3. r.sess = broken /\ r.dur = {} /\ r.ok = FALSE
    OBVIOUS
  <1>4. txConns' = Keep(n, broken) /\ Settle([m \in {n} |-> r], s.work)
    BY DEF ConnDies
  <1> HIDE DEF r, broken
  <1>5. Ran(n, s, r, {})
    <2>1. Outcome(r, s.work \cup {})
      BY <1>2, <1>3, Zenon DEF Outcome
    <2>2. s.work \cup {} = s.work
      BY SMTT(30)
    <2>3. InTx(r.sess)
      BY <1>1, <1>2, <1>3 DEF Usable, InTx
    <2> QED
      BY <1>2, <1>3, <1>4, <2>1, <2>2, <2>3
      DEF Ran, ConnDies, statusVars, clientVars, Sound, TypeOK
  <1>6. n \in Nodes /\ isInTransaction /\ answer' \in BOOLEAN /\ told' = told
    BY DEF Sound, TypeOK, KeptOnlyInTransaction, ConnDies, clientVars
  <1>7. r.sess.live = FALSE
    BY <1>1, <1>3 DEF broken, Usable, Sessions
  <1>8. Executed(n, s, r, {})
    BY <1>1, <1>5, <1>6, <1>7 DEF Executed
  <1> QED
    BY <1>6, <1>8, ExecutedSound

(* A connection from the pool has no work and no transaction.              *)
LEMMA PoppedSessions ==
    \A s \in Popped : /\ s \in Sessions /\ s.work = {}
                      /\ s.auto = TRUE /\ s.trans = FALSE
  BY Zenon DEF Popped, Sessions

(* A connection that joins a transaction by SET autocommit = 0.            *)
LEMMA AutocommitOffReplies ==
    \A s \in Sessions : \A r \in AutocommitOff(s) :
        r.ok = TRUE => /\ r.sess \in Sessions /\ r.sess.work = s.work
                       /\ r.sess.auto = FALSE
  <1> SUFFICES ASSUME NEW s \in Sessions, NEW r \in AutocommitOff(s), r.ok = TRUE
               PROVE  /\ r.sess \in Sessions /\ r.sess.work = s.work
                      /\ r.sess.auto = FALSE
    BY Zenon
  <1> DEFINE t == [s EXCEPT !.auto = FALSE]
  <1>1. t \in Sessions /\ t.work = s.work /\ t.auto = FALSE
    BY FieldSteps, Zenon
  <1>2. r \in Reply(s, t, {})
    BY DEF AutocommitOff
  <1> HIDE DEF t
  <1>3. IsReply(r, s, t, {})
    BY <1>1, <1>2, Replies
  <1> QED
    BY <1>1, <1>3 DEF IsReply

(* A connection on which a transaction was opened can be kept.              *)
LEMMA OpenedUsable ==
    ASSUME auto \in BOOLEAN, NEW n \in Nodes, n \notin Conns,
           NEW s \in Popped, NEW b \in OpenTxOn(s), b.ok = TRUE
    PROVE  Usable(b.sess, n)
  <1>1. s \in Sessions /\ s.work = {} /\ s.auto = TRUE
    BY PoppedSessions
  <1>2. CASE auto = TRUE
    <2>1. b \in BeginOn(s)
      BY <1>2 DEF OpenTxOn
    <2>2. b.sess \in Sessions /\ b.sess.work \subseteq s.work /\ b.sess.trans = TRUE /\ b.sess.auto = s.auto
      BY <1>1, <2>1, BeginReplies DEF Outcome
    <2> QED
      BY <1>1, <1>2, <2>2, Zenon DEF Usable, InTx
  <1>3. CASE auto = FALSE
    <2>1. b \in AutocommitOff(s)
      BY <1>3 DEF OpenTxOn
    <2>2. b.sess \in Sessions /\ b.sess.work = s.work /\ b.sess.auto = FALSE
      BY <1>1, <2>1, AutocommitOffReplies
    <2> QED
      BY <1>1, <1>3, <2>2, Zenon DEF Usable, InTx
  <1> QED
    BY <1>2, <1>3, Zenon

(* What a statement does to a session it can use.                           *)
Opens(r, s, ws) ==
    /\ Outcome(r, s.work \cup ws) /\ r.dur = {}
    /\ r.sess.auto = s.auto /\ InTx(r.sess)
    /\ r.ok = TRUE => ws \subseteq r.sess.work
    /\ r.sess.live = TRUE => s.live = TRUE /\ s.work \subseteq r.sess.work

(* A statement in a transaction leaves its writes open.                    *)
LEMMA ExecuteReplies ==
    ASSUME NEW n \in Nodes, NEW s \in Sessions, InTx(s), NEW writes \in BOOLEAN,
           stmts \in Nat, writes => stmts < MaxStmts,
           NEW r \in ExecuteOn(s, n, writes)
    PROVE  Opens(r, s, WritesOf({n}, writes))
  <1>1. CASE writes
    <2> DEFINE w == <<n, stmts + 1>>
    <2>1. WritesOf({n}, writes) = {w} /\ r \in WriteOn(s, w)
      BY <1>1 DEF WritesOf, ExecuteOn
    <2>2. w \in Writes
      BY <1>1, TxSessionAssumption DEF Writes
    <2> HIDE DEF w
    <2>3. /\ Outcome(r, s.work \cup {w}) /\ r.dur = {}
          /\ r.ok = TRUE => w \in r.sess.work
          /\ r.sess.live = TRUE => s.live = TRUE /\ s.work \subseteq r.sess.work
          /\ r.sess.auto = s.auto /\ InTx(r.sess)
      BY <2>1, <2>2, WriteReplies, Zenon
    <2> QED
      BY <2>1, <2>3 DEF Opens
  <1>2. CASE ~writes
    <2>1. WritesOf({n}, writes) = {} /\ r \in ReadOn(s)
      BY <1>2 DEF WritesOf, ExecuteOn
    <2>2. s.work \cup {} = s.work
      OBVIOUS
    <2> QED
      BY <2>1, <2>2, ReadReplies, Zenon DEF InTx, Opens
  <1> QED
    BY <1>1, <1>2

(* The writes of a statement are new, and each is of one node.             *)
LEMMA NewWrites ==
    ASSUME NEW S \in SUBSET Nodes, NEW writes \in BOOLEAN, stmts \in Nat,
           writes => stmts < MaxStmts
    PROVE  /\ WritesOf(S, writes) \subseteq Writes
           /\ \A w \in WritesOf(S, writes) : writes /\ w[1] \in S /\ w[2] = stmts + 1
           /\ \A n \in S : WritesOf({n}, writes) = WritesOf(S, writes) \cap At(n)
  <1>1. CASE writes
    BY <1>1, TxSessionAssumption DEF WritesOf, Writes, At
  <1>2. CASE ~writes
    BY <1>2 DEF WritesOf
  <1> QED
    BY <1>1, <1>2

(* A statement in a transaction fails, losing connections, or runs on one   *)
(* node's session.                                                          *)
LEMMA InTransactionSteps ==
    ASSUME Sound, NEW kind, NEW S \in SUBSET Nodes, NEW writes \in BOOLEAN,
           writes => stmts < MaxStmts, InTransaction(kind, S, writes)
    PROVE  \/ \E L : Fail(L)
           \/ /\ ~TransInMulti(kind, S)
              /\ \E n \in S : \E s, r, ws : Executed(n, s, r, ws)
  <1>1. CASE \E L : Fail(L)
    BY <1>1
  <1>2. CASE ~ \E L : Fail(L)
    <2> DEFINE Had(n) == IF n \in Conns THEN {txConns[n]}
                         ELSE {b.sess : b \in {b \in UNION {OpenTxOn(s) : s \in Popped} : b.ok}}
               UseFails(n, s) ==
                   \E o \in ReadOn(s) :
                        /\ ~o.ok
                        /\ txConns' = Keep(n, o.sess)
                        /\ Settle([m \in {n} |-> o], s.work)
                        /\ Acknowledge(FALSE, {})
                        /\ UNCHANGED stmts
               Runs(n, s) ==
                   \E o \in ExecuteOn(s, n, writes) :
                        /\ txConns' = Keep(n, o.sess)
                        /\ Settle([m \in {n} |-> o], s.work \cup WritesOf({n}, writes))
                        /\ Acknowledge(o.ok, WritesOf({n}, writes))
                        /\ stmts' = IF writes THEN stmts + 1 ELSE stmts
    <2>1. ~TransInMulti(kind, S) /\ isInTransaction /\ UNCHANGED <<statusVars, renounced>>
      BY <1>2, Zenon DEF InTransaction
    <2>2. PICK n \in S : /\ \E s \in Had(n) : UseFails(n, s) \/ Runs(n, s)
                         /\ UNCHANGED lost
      BY <1>2, Zenon DEF InTransaction
    <2> HIDE DEF Had, UseFails, Runs
    <2>3. PICK s \in Had(n) : UseFails(n, s) \/ Runs(n, s)
      BY <2>2
    <2>4. /\ auto \in BOOLEAN /\ stmts \in 0..MaxStmts /\ n \in Nodes
          /\ stmts \in Nat /\ MaxStmts \in Nat
      BY TxSessionAssumption DEF Sound, TypeOK
    <2>5. Usable(s, n)
      <3>1. CASE n \in Conns
        BY <3>1 DEF Had, Usable, Sound, TypeOK, Kept
      <3>2. CASE n \notin Conns
        <4>1. PICK b \in UNION {OpenTxOn(p) : p \in Popped} : b.ok /\ s = b.sess
          BY <3>2 DEF Had
        <4>2. PICK p \in Popped : b \in OpenTxOn(p)
          BY <4>1
        <4> QED
          BY <2>4, <3>2, <4>1, <4>2, OpenedUsable, Zenon
      <3> QED
        BY <3>1, <3>2
    <2>6. s \in Sessions /\ InTx(s)
      BY <2>5 DEF Usable
    <2>7. CASE UseFails(n, s)
      <3>1. PICK o \in ReadOn(s) :
                        /\ ~o.ok
                        /\ txConns' = Keep(n, o.sess)
                        /\ Settle([m \in {n} |-> o], s.work)
                        /\ Acknowledge(FALSE, {})
                        /\ UNCHANGED stmts
        BY <2>7, Zenon DEF UseFails
      <3>2. s.work \cup {} = s.work
        OBVIOUS
      <3>3. /\ Outcome(o, s.work) /\ o.dur = {}
            /\ o.sess = s \/ (o.ok = FALSE /\ o.sess.live = FALSE)
            /\ o.sess.auto = s.auto /\ o.sess.trans = s.trans
        BY <2>6, ReadReplies
      <3>4. answer' = FALSE /\ told' = told /\ promised' = promised
        BY <3>1 DEF Acknowledge
      <3>5. InTx(o.sess)
        BY <2>6, <3>3 DEF InTx
      <3>6. Ran(n, s, o, {})
        BY <2>1, <2>2, <2>4, <3>1, <3>2, <3>3, <3>4, <3>5, Zenon DEF Ran, statusVars
      <3>7. Executed(n, s, o, {})
        BY <2>5, <3>3, <3>4, <3>6, Zenon DEF Executed
      <3> QED
        BY <2>1, <3>7
    <2>8. CASE Runs(n, s)
      <3> DEFINE ws == WritesOf({n}, writes)
      <3>1. PICK o \in ExecuteOn(s, n, writes) :
                        /\ txConns' = Keep(n, o.sess)
                        /\ Settle([m \in {n} |-> o], s.work \cup ws)
                        /\ Acknowledge(o.ok, ws)
                        /\ stmts' = IF writes THEN stmts + 1 ELSE stmts
        BY <2>8, Zenon DEF Runs
      <3>2. /\ Outcome(o, s.work \cup ws) /\ o.dur = {}
            /\ o.sess.auto = s.auto /\ InTx(o.sess)
            /\ o.ok = TRUE => ws \subseteq o.sess.work
            /\ o.sess.live = TRUE => s.live = TRUE /\ s.work \subseteq o.sess.work
        <4>1. Opens(o, s, ws)
          BY <2>4, <2>6, ExecuteReplies
        <4> QED
          BY <4>1, SMTT(30) DEF Opens
      <3>3. ws \subseteq Writes /\ \A w \in ws : writes /\ w[1] \in {n} /\ w[2] = stmts + 1
        BY <2>4, NewWrites
      <3>4. o.ok \in BOOLEAN
        BY <3>2, SMTT(30) DEF Outcome
      <3> HIDE DEF ws
      <3>5. /\ answer' = o.ok /\ promised' = promised
            /\ told' = told \/ (told' = told \cup ws /\ ws \subseteq o.sess.work)
        BY <2>1, <3>1, <3>2, <3>4, SMTT(30) DEF Acknowledge
      <3>6. ws \subseteq At(n) /\ \A w \in ws : w[2] = stmts + 1 /\ stmts' = stmts + 1
        BY <3>1, <3>3 DEF At
      <3>7. stmts' \in {stmts, stmts + 1} /\ stmts' \in 0..MaxStmts
        BY <2>4, <3>1
      <3>8. Ran(n, s, o, ws)
        BY <2>1, <2>2, <3>1, <3>2, <3>5, <3>6, <3>7, Zenon DEF Ran, statusVars
      <3>9. Executed(n, s, o, ws)
        BY <2>5, <3>2, <3>4, <3>5, <3>8, Zenon DEF Executed
      <3> QED
        BY <2>1, <3>9
    <2> QED
      BY <2>3, <2>7, <2>8
  <1> QED
    BY <1>1, <1>2

(* A statement within a transaction.                                       *)
LEMMA InTransactionSound ==
    ASSUME Sound, NEW kind, NEW S \in SUBSET Nodes, NEW writes \in BOOLEAN,
           writes => stmts < MaxStmts, InTransaction(kind, S, writes)
    PROVE  Sound' /\ Keeps
  <1>1. UNCHANGED <<statusVars, renounced>> /\ isInTransaction
    BY DEF InTransaction
  <1>2. CASE \E L : Fail(L)
    BY <1>1, <1>2, FailSound
  <1>3. ASSUME NEW n \in S, NEW s, NEW r, NEW ws, Executed(n, s, r, ws)
        PROVE  Sound' /\ Keeps
    BY <1>1, <1>3, ExecutedSound
  <1> QED
    BY <1>2, <1>3, InTransactionSteps, Zenon

(* A statement outside a transaction fails, or its writes are settled, and  *)
(* are durable when it is answered OK.                                      *)
Autocommitted(ws) ==
    /\ \E o : Carried(o) /\ \A n \in DOMAIN o : n \notin Conns
    /\ \A w \in told : fate'[w] \in {"open", "undone"}
    /\ answer' \in BOOLEAN /\ told' = told
    /\ ws \subseteq Writes
    /\ \/ promised' = promised
       \/ promised' = promised \cup ws /\ \A w \in ws : fate'[w] = "durable"
    /\ stmts' \in 0..MaxStmts
    /\ UNCHANGED <<txConns, lost>>

(* A statement outside a transaction is durable when it succeeds.          *)
LEMMA OutsideReplies ==
    ASSUME NEW n \in Nodes, NEW s \in Popped, NEW writes \in BOOLEAN,
           stmts \in Nat, writes => stmts < MaxStmts,
           NEW r \in ExecuteOn(s, n, writes)
    PROVE  /\ Outcome(r, WritesOf({n}, writes))
           /\ r.ok = TRUE => r.dur = WritesOf({n}, writes)
  <1>1. s \in Sessions /\ s.work = {} /\ s.auto = TRUE /\ s.trans = FALSE
    BY PoppedSessions
  <1>2. CASE writes
    <2> DEFINE w == <<n, stmts + 1>>
    <2>1. WritesOf({n}, writes) = {w} /\ r \in WriteOn(s, w)
      BY <1>2 DEF WritesOf, ExecuteOn
    <2>2. w \in Writes
      BY <1>2, TxSessionAssumption DEF Writes
    <2> HIDE DEF w
    <2>3. (Outcome(r, s.work \cup {w}) \/ w \in s.work) /\ (r.ok = TRUE => r.dur = {w})
      BY <1>1, <2>1, <2>2, WriteReplies, Zenon
    <2>4. s.work \cup {w} = {w}
      BY <1>1
    <2> QED
      BY <1>1, <2>1, <2>3, <2>4
  <1>3. CASE ~writes
    <2>1. WritesOf({n}, writes) = {} /\ r \in ReadOn(s)
      BY <1>3 DEF WritesOf, ExecuteOn
    <2>2. Outcome(r, s.work) /\ r.dur = {}
      BY <1>1, <2>1, ReadReplies, Zenon
    <2> QED
      BY <1>1, <2>1, <2>2
  <1> QED
    BY <1>2, <1>3, Zenon

(* It fails, or all it wrote is settled.                                   *)
LEMMA OutsideSteps ==
    ASSUME Sound, NEW kind, NEW S \in SUBSET Nodes, NEW writes \in BOOLEAN,
           writes => stmts < MaxStmts, Outside(kind, S, writes)
    PROVE  (\E L : Fail(L)) \/ \E ws : Autocommitted(ws)
  <1> DEFINE ws == WritesOf(S, writes)
  <1>1. CASE \E L : Fail(L)
    BY <1>1
  <1>2. CASE ~ \E L : Fail(L)
    <2>1. /\ \E p \in [S -> Popped] : \E o \in Each([n \in S |-> ExecuteOn(p[n], n, writes)]) :
                /\ Settle(o, ws)
                /\ Acknowledge(Succeeds(o), ws)
          /\ stmts' = IF writes THEN stmts + 1 ELSE stmts
          /\ UNCHANGED <<txConns, lost>>
      BY <1>2 DEF Outside
    <2>2. PICK p \in [S -> Popped] : \E o \in Each([n \in S |-> ExecuteOn(p[n], n, writes)]) :
                Settle(o, ws) /\ Acknowledge(Succeeds(o), ws)
      BY <2>1
    <2>3. PICK o \in Each([n \in S |-> ExecuteOn(p[n], n, writes)]) :
                Settle(o, ws) /\ Acknowledge(Succeeds(o), ws)
      BY <2>2
    <2>4. DOMAIN o = S /\ \A n \in S : o[n] \in ExecuteOn(p[n], n, writes)
      BY EachChooses
    <2>5. /\ stmts \in Nat /\ MaxStmts \in Nat /\ stmts \in 0..MaxStmts
          /\ told \subseteq Writes /\ fate \in [Writes -> Fates]
      BY TxSessionAssumption DEF Sound, TypeOK
    <2>6. ASSUME NEW n \in S
          PROVE  /\ Outcome(o[n], WritesOf({n}, writes))
                 /\ o[n].ok = TRUE => o[n].dur = WritesOf({n}, writes)
      BY <2>4, <2>5, OutsideReplies, Zenon
    <2>7. /\ ws \subseteq Writes
          /\ \A w \in ws : writes /\ w[1] \in S /\ w[2] = stmts + 1
          /\ \A n \in S : WritesOf({n}, writes) = ws \cap At(n)
      BY <2>5, NewWrites
    <2> HIDE DEF ws
    <2>8. Concerned(o, ws)
      BY <2>1, <2>4, <2>6, <2>7, Zenon DEF Concerned
    <2>9. Carried(o)
      BY <2>1, <2>3, <2>8, SettleCarries
    <2>10. Conns = {}
      BY DEF Outside, Sound, KeptOnlyInTransaction
    <2>11. \A w \in told : fate'[w] \in {"open", "undone"}
      <3>1. \A w \in Writes \ ws : fate'[w] = fate[w]
        BY <2>3, <2>5, <2>8, SettleFates, Zenon
      <3>2. told \cap ws = {}
        BY <2>5, <2>7 DEF Sound, Pending, Unmade
      <3> QED
        BY <2>5, <3>1, <3>2 DEF Sound, Pending
    <2>12. answer' \in BOOLEAN /\ told' = told
      BY <2>3 DEF Acknowledge, Outside, Succeeds
    <2>13. ASSUME Succeeds(o), NEW w \in ws
           PROVE  fate'[w] = "durable"
      <3>1. w[1] \in S /\ w \in ws \cap At(w[1])
        BY <2>7 DEF At
      <3>2. o[w[1]].ok = TRUE
        <4>1. o[w[1]].ok \in BOOLEAN
          BY <2>6, <3>1, Zenon DEF Outcome
        <4> QED
          BY <2>4, <2>13, <3>1, <4>1 DEF Succeeds
      <3>3. w \in o[w[1]].dur
        BY <2>6, <2>7, <3>1, <3>2, Zenon
      <3> QED
        BY <2>4, <2>9, <3>1, <3>3, Zenon DEF Carried
    <2>14. \/ promised' = promised
           \/ promised' = promised \cup ws /\ \A w \in ws : fate'[w] = "durable"
      BY <2>3, <2>13 DEF Acknowledge
    <2>15. stmts' \in 0..MaxStmts
      <3>1. stmts' = IF writes THEN stmts + 1 ELSE stmts
        BY <2>1, ZenonT(30)
      <3> QED
        BY <2>5, <3>1
    <2>16. Autocommitted(ws)
      BY <2>1, <2>7, <2>9, <2>10, <2>11, <2>12, <2>14, <2>15 DEF Autocommitted
    <2> QED
      BY <2>16
  <1> QED
    BY <1>1, <1>2

(* A statement outside a transaction.                                      *)
LEMMA OutsideSound ==
    ASSUME Sound, NEW kind, NEW S \in SUBSET Nodes, NEW writes \in BOOLEAN,
           writes => stmts < MaxStmts, Outside(kind, S, writes)
    PROVE  Sound' /\ Keeps
  <1>1. UNCHANGED <<statusVars, renounced>> /\ Conns = {}
    BY DEF Outside, Sound, KeptOnlyInTransaction
  <1>2. CASE \E L : Fail(L)
    BY <1>1, <1>2, FailSound
  <1>3. ASSUME NEW ws, Autocommitted(ws)
        PROVE  Sound' /\ Keeps
    <2>1. PICK o : Carried(o)
      BY <1>3 DEF Autocommitted
    <2>a. txConns' = txConns
      BY <1>3, Zenon DEF Autocommitted
    <2>2. Conns' = {} /\ txConns' = txConns
      BY <1>1, <2>a, ZenonT(30) DEF Conns
    <2>3. TypeOK'
      BY <1>1, <1>3, <2>1, <2>2 DEF Sound, TypeOK, Autocommitted, Carried, statusVars
    <2>4. Kept' /\ Apart' /\ KeptOnlyInTransaction'
      BY <2>2, SMTT(30) DEF Kept, Apart, KeptOnlyInTransaction
    <2>5. Unmade' /\ Pending(told)' /\ Pending(renounced)'
      BY <1>1, <1>3, <2>1 DEF Carried, Pending, Autocommitted
    <2>6. Held => Held'
      BY <1>1, <1>3, <2>2, NothingHeld, SMTT(30) DEF Held, Autocommitted
    <2>7. Keeps
      BY <1>3, <2>1, <2>6 DEF Keeps, Carried, Autocommitted
    <2> QED
      BY <2>3, <2>4, <2>5, <2>7 DEF Sound
  <1> QED
    BY <1>2, <1>3, OutsideSteps

(* Statements go to nodes.                                                 *)
LEMMA TargetNodes == \A kind : Targets(kind) \subseteq SUBSET Nodes
  BY TxSessionAssumption DEF Targets

(* Every step keeps Sound.                                                 *)
LEMMA NextSound == Sound /\ [Next]_vars => Sound' /\ Keeps
  <1> SUFFICES ASSUME Sound, [Next]_vars PROVE Sound' /\ Keeps
    OBVIOUS
  <1>1. CASE handleBegin \/ handleCommit \/ handleRollback
    BY <1>1, BeginSound, CommitSound, RollbackSound
  <1>2. CASE SetAutoCommitOn \/ SetAutoCommitOff
    BY <1>2, AutocommitOnSound, AutocommitOffSound
  <1>3. ASSUME NEW kind \in Kinds, NEW writes \in BOOLEAN, Statement(kind, writes)
        PROVE  Sound' /\ Keeps
    <2>1. PICK S \in Targets(kind) : InTransaction(kind, S, writes) \/ Outside(kind, S, writes)
      BY <1>3 DEF Statement
    <2>2. S \in SUBSET Nodes /\ (writes => stmts < MaxStmts)
      BY <1>3, TargetNodes DEF Statement
    <2>3. CASE InTransaction(kind, S, writes)
      BY <2>2, <2>3, InTransactionSound
    <2>4. CASE Outside(kind, S, writes)
      BY <2>2, <2>4, OutsideSound
    <2> QED
      BY <2>1, <2>3, <2>4
  <1>4. CASE Quit \/ clean
    BY <1>4, QuitSound
  <1>5. CASE \E n \in Conns : ConnDies(n)
    BY <1>5, ConnDiesSound
  <1>6. CASE \E w \in Writes : PoolResets(w)
    BY <1>6, PoolResetsSound
  <1>7. CASE UNCHANGED vars
    <2>1. TypeOK' /\ KeptOnlyInTransaction'
      BY <1>7 DEF Sound, TypeOK, Conns, KeptOnlyInTransaction, isInTransaction, vars
    <2>2. Kept' /\ Apart' /\ Unmade'
      BY <1>7 DEF Sound, Kept, Apart, Unmade, Conns, InTx, vars
    <2>3. Pending(told)' /\ Pending(renounced)'
      BY <1>7 DEF Sound, Pending, vars
    <2>4. Keeps
      BY <1>7 DEF Keeps, Held, Conns, vars
    <2> QED
      BY <2>1, <2>2, <2>3, <2>4 DEF Sound
  <1> QED
    BY <1>1, <1>2, <1>3, <1>4, <1>5, <1>6, <1>7 DEF Next

(* Sound holds at first.                                                   *)
LEMMA InitSound == Init => Sound
  <1> SUFFICES ASSUME Init PROVE Sound
    OBVIOUS
  <1>1. Conns = {} /\ txConns \in [Conns -> Sessions]
    BY DEF Init, NoConns, Conns
  <1>2. TypeOK
    <2>1. lost \in [Nodes -> 0..MaxLost] /\ stmts \in 0..MaxStmts
      BY TxSessionAssumption DEF Init
    <2>2. fate \in [Writes -> Fates]
      BY DEF Init, Fates
    <2> QED
      BY <1>1, <2>1, <2>2, Zenon DEF Init, TypeOK
  <1>3. KeptOnlyInTransaction /\ Kept /\ Apart
    BY <1>1 DEF KeptOnlyInTransaction, Kept, Apart
  <1>4. Unmade /\ Pending(told) /\ Pending(renounced)
    BY DEF Init, Unmade, Pending
  <1> QED
    BY <1>2, <1>3, <1>4 DEF Sound

(* Sound is an invariant.                                                  *)
LEMMA AlwaysSound == Spec => []Sound
  BY InitSound, NextSound, PTL DEF Spec

(* Whatever styles the client mixes: its statuses, connections and the      *)
(* fates of its writes stay within their types.                             *)
THEOREM SessionTypes == Spec => []TypeOK
  <1>1. Sound => TypeOK
    BY DEF Sound
  <1> QED
    BY <1>1, AlwaysSound, PTL

(* Connections are kept only in a transaction: closeConn never gives back   *)
(* a connection that txConns still holds.                                   *)
THEOREM NothingKeptOutside == Spec => []KeptOnlyInTransaction
  <1>1. Sound => KeptOnlyInTransaction
    BY DEF Sound
  <1> QED
    BY <1>1, AlwaysSound, PTL

(* What a client rolled back, or left open when it went away, is never      *)
(* committed, whatever connections break and whatever the client mixes.     *)
THEOREM RenouncedStaysUndone == Spec => []Renounced
  <1>1. Sound => Renounced
    BY DEF Sound, Pending, Renounced
  <1> QED
    BY <1>1, AlwaysSound, PTL

(* A client that sends SET autocommit only outside BEGIN ... COMMIT: what   *)
(* it was told is committed is durable in MySQL, whatever connections break *)
(* or refuse the commit.                                                    *)
THEOREM PromisesKept ==
    ASSUME ~MixesStyles
    PROVE  Spec => []Durability
  <1> DEFINE Inv == Sound /\ Held /\ Durability
  <1>1. Init => Inv
    <2> SUFFICES ASSUME Init PROVE Held /\ Durability
      BY InitSound
    <2> QED
      BY DEF Init, NoConns, Conns, Held, Durability
  <1>2. Inv /\ [Next]_vars => Inv'
    <2> SUFFICES ASSUME Inv, [Next]_vars PROVE Inv'
      OBVIOUS
    <2>1. Sound' /\ Keeps
      BY NextSound
    <2>2. Held'
      BY <2>1 DEF Keeps
    <2>3. Durability'
      BY <2>1 DEF Keeps, Durability
    <2> QED
      BY <2>1, <2>2, <2>3
  <1>3. Inv => Durability
    OBVIOUS
  <1> QED
    BY <1>1, <1>2, <1>3, PTL DEF Spec
-----------------------------------------------------------------------------
(* A transaction of sharded and hinted statements keeps one connection.     *)
OneConn == \A m, n \in Conns : m = n

(* A set with two elements is not a singleton.                             *)
LEMMA TwoElements ==
    ASSUME NEW S, IsFiniteSet(S), NEW m \in S, NEW n \in S, m # n
    PROVE  Cardinality(S) > 1
  <1>1. IsFiniteSet({m}) /\ Cardinality({m}) = 1
    BY FS_Singleton, Zenon
  <1>2. IsFiniteSet({m} \cup {n}) /\ Cardinality({m} \cup {n}) = 2
    <2>1. /\ IsFiniteSet({m} \cup {n})
          /\ Cardinality({m} \cup {n}) =
                IF n \in {m} THEN Cardinality({m}) ELSE Cardinality({m}) + 1
      BY <1>1, FS_AddElement, Zenon
    <2>2. n \notin {m}
      OBVIOUS
    <2> QED
      BY <1>1, <2>1, <2>2
  <1>3. {m} \cup {n} \subseteq S
    OBVIOUS
  <1>4. Cardinality({m} \cup {n}) <= Cardinality(S)
    BY <1>3, FS_Subset
  <1>5. Cardinality(S) \in Nat
    BY FS_CardinalityType
  <1> QED
    BY <1>2, <1>4, <1>5

(* ErrTransInMulti lets a statement through only on the node already kept.  *)
LEMMA SameNode ==
    ASSUME OneConn, NEW kind \in {"shard", "hint"}, NEW S \in Targets(kind),
           ~TransInMulti(kind, S), NEW n \in S, NEW c \in Conns
    PROVE  n = c
  <1>1. Conns = {c} /\ Cardinality(Conns) = 1
    BY FS_Singleton DEF OneConn
  <1>2. c \in S
    BY <1>1 DEF TransInMulti
  <1>3. CASE kind = "shard"
    <2>1. IsFiniteSet(S)
      BY TargetNodes, TxSessionAssumption, FS_Subset
    <2>2. ~(Cardinality(S) > 1)
      BY <1>3 DEF TransInMulti
    <2> QED
      BY <1>2, <2>1, <2>2, TwoElements
  <1>4. CASE kind = "hint"
    BY <1>2, <1>4 DEF Targets
  <1> QED
    BY <1>3, <1>4

(* With statements for one node each, one connection is kept at most.      *)
LEMMA NextOneConn ==
    ASSUME Sound, OneConn, Kinds \subseteq {"shard", "hint"}, [Next]_vars
    PROVE  OneConn'
  <1>1. ASSUME Conns' \subseteq Conns
        PROVE  OneConn'
    BY <1>1 DEF OneConn
  <1>2. CASE handleBegin
    <2>1. DOMAIN txConns' = Conns
      BY <1>2, Zenon DEF handleBegin
    <2> QED
      BY <1>1, <2>1 DEF Conns
  <1>3. CASE handleCommit \/ handleRollback \/ SetAutoCommitOn \/ Quit \/ clean
    BY <1>1, <1>3, NoneKept, Zenon
    DEF handleCommit, handleRollback, EndOn, SetAutoCommitOn, Quit, clean, NewClient
  <1>4. CASE SetAutoCommitOff \/ (\E w \in Writes : PoolResets(w)) \/ UNCHANGED vars
    BY <1>1, <1>4 DEF SetAutoCommitOff, PoolResets, vars, Conns
  <1>5. ASSUME NEW kind \in Kinds, NEW writes \in BOOLEAN, Statement(kind, writes)
        PROVE  OneConn'
    <2>1. PICK S \in Targets(kind) : InTransaction(kind, S, writes) \/ Outside(kind, S, writes)
      BY <1>5 DEF Statement
    <2>2. S \in SUBSET Nodes /\ (writes => stmts < MaxStmts)
      BY <1>5, TargetNodes DEF Statement
    <2>3. CASE \E L : Fail(L)
      BY <1>1, <2>3 DEF Fail, Conns
    <2>4. ASSUME NEW n \in S, NEW s, NEW r, NEW ws, Executed(n, s, r, ws),
                 ~TransInMulti(kind, S)
          PROVE  OneConn'
      <3>1. Conns' = Conns \cup {n}
        BY <2>2, <2>4, RanCarries, Zenon DEF Executed
      <3>2. \A c \in Conns : n = c
        BY <2>4, SameNode
      <3> QED
        BY <3>1, <3>2 DEF OneConn
    <2>5. CASE InTransaction(kind, S, writes)
      BY <2>2, <2>3, <2>4, <2>5, InTransactionSteps, Zenon
    <2>6. ASSUME NEW ws, Autocommitted(ws)
          PROVE  OneConn'
      BY <1>1, <2>6 DEF Autocommitted, Conns
    <2>7. CASE Outside(kind, S, writes)
      BY <2>2, <2>3, <2>6, <2>7, OutsideSteps
    <2> QED
      BY <2>1, <2>5, <2>7
  <1>6. ASSUME NEW n \in Conns, ConnDies(n)
        PROVE  OneConn'
    BY <1>1, <1>6 DEF ConnDies, Keep, Conns
  <1> QED
    BY <1>2, <1>3, <1>4, <1>5, <1>6 DEF Next

(* Sharded and hinted statements answered OK in one transaction ran on one  *)
(* node: getShardConns and GetTransExecDB refuse every other one.           *)
THEOREM OneNodePerTransaction ==
    ASSUME ~MixesStyles, Kinds \subseteq {"shard", "hint"}
    PROVE  Spec => []SingleNode
  <1> DEFINE Inv == Sound /\ Held /\ OneConn
  <1>1. Init => Inv
    <2> SUFFICES ASSUME Init PROVE Held /\ OneConn
      BY InitSound
    <2> QED
      BY DEF Init, NoConns, Conns, Held, OneConn
  <1>2. Inv /\ [Next]_vars => Inv'
    <2> SUFFICES ASSUME Inv, [Next]_vars PROVE Inv'
      OBVIOUS
    <2>1. Sound' /\ Held'
      BY NextSound DEF Keeps
    <2>2. OneConn'
      BY NextOneConn
    <2> QED
      BY <2>1, <2>2
  <1>3. Inv => SingleNode
    BY DEF Held, OneConn, SingleNode
  <1> QED
    BY <1>1, <1>2, <1>3, PTL DEF Spec
-----------------------------------------------------------------------------
(* A connection is lost only by a command that is answered with an error:   *)
(* a failing SET autocommit, or a statement that could not take all its     *)
(* connections.                                                             *)
THEOREM LostOnlyWithError == Spec => LeaksAreErrors
  <1>1. ASSUME Sound, [Next]_vars
        PROVE  [lost' # lost => ~answer']_vars
    <2>1. lost \in [Nodes -> 0..MaxLost]
      BY <1>1 DEF Sound, TypeOK
    <2>2. CASE SetAutoCommitOn
      <3>1. PICK R \in SUBSET Conns : \E o \in Each([n \in R |-> AutocommitOn(txConns[n])]) :
              /\ (R = Conns /\ Succeeds(o)) \/ StopsAtError(o)
              /\ answer' = Succeeds(o)
              /\ lost' = [n \in Nodes |-> IF n \in Conns \ R THEN lost[n] + 1 ELSE lost[n]]
        BY <2>2 DEF SetAutoCommitOn
      <3>2. CASE R = Conns
        <4>1. lost' = [n \in Nodes |-> lost[n]]
          BY <3>1, <3>2
        <4> QED
          BY <2>1, <4>1
      <3>3. CASE R # Conns
        BY <3>1, <3>3 DEF StopsAtError, Succeeds
      <3> QED
        BY <3>2, <3>3, SMTT(30)
    <2>3. ASSUME NEW L, Fail(L)
          PROVE  ~answer'
      BY <2>3 DEF Fail
    <2>4. ASSUME NEW kind \in Kinds, NEW writes \in BOOLEAN, Statement(kind, writes)
          PROVE  lost' # lost => ~answer'
      <3>1. PICK S \in Targets(kind) : InTransaction(kind, S, writes) \/ Outside(kind, S, writes)
        BY <2>4 DEF Statement
      <3>2. S \in SUBSET Nodes /\ (writes => stmts < MaxStmts)
        BY <2>4, TargetNodes DEF Statement
      <3>3. CASE InTransaction(kind, S, writes)
        BY <1>1, <2>3, <3>2, <3>3, InTransactionSteps, ZenonT(30) DEF Executed, Ran
      <3>4. CASE Outside(kind, S, writes)
        BY <1>1, <2>3, <3>2, <3>4, OutsideSteps DEF Autocommitted
      <3> QED
        BY <3>1, <3>3, <3>4
    <2>5. CASE handleBegin \/ handleCommit \/ handleRollback \/ SetAutoCommitOff
      BY <2>5 DEF handleBegin, handleCommit, handleRollback, SetAutoCommitOff
    <2>6. CASE Quit \/ clean
      BY <2>6 DEF Quit, clean, NewClient
    <2>7. CASE (\E n \in Conns : ConnDies(n)) \/ \E w \in Writes : PoolResets(w)
      BY <2>7, Zenon DEF ConnDies, PoolResets
    <2> QED
      BY <1>1, <2>2, <2>4, <2>5, <2>6, <2>7 DEF Next
  <1> QED
    BY <1>1, AlwaysSound, PTL DEF Spec, LeaksAreErrors
=============================================================================
