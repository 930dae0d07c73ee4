---------------------------- MODULE DesktopProofs ---------------------------
(***************************************************************************)
(* Proofs about the device's home directory, for any scenarios, homes,     *)
(* passphrases, runs of the command line client and commands in flight;    *)
(* about the supervisor of the node, for any scenarios and processes; and  *)
(* about what goes to the chain and comes back: the relay of queries, for  *)
(* any nodes and answers, and the rewards agent, for any receipts, faults  *)
(* and restarts.                                                           *)
(***************************************************************************)
EXTENDS Home, NodeSupervisor, Rewards, FiniteSums

----------------------------------------------------------------------------
(* Home: what the variables hold.                                          *)
ContentsType == [dev : Nat, gen : Nat, full : BOOLEAN, db : Nat]
Copies == [key : [pass : Passes, salt : Nat], c : ContentsType]
Steps == {"net", "send", "try"}
Quiet == Seq({"net"})
RunsOf(S) == [script : S, left : Seq(Steps), ok : BOOLEAN, got : BOOLEAN]
Holding == {"key", "build", "one", "rewrite"}

DiskRecs == [vault : Copies \cup {NoH}, store : Clis \cup {"app", NoH}, hello : Passes \cup {NoH}]
CliRecs == [pc : {"off", "store", "run"}, home : HomeDirs, run : RunsOf(ClientCommands),
            acct : Copies \cup {NoH}]
AppRecs == [one : Copies \cup {NoH}, session : BOOLEAN, mutex : CallIds \cup {"sync", NoH},
            loop : BOOLEAN, idle : BOOLEAN, words : BOOLEAN, run : RunsOf(DesktopCommands \cup {SyncRound})]
CallRecs == [pc : {"idle", "open", "session", "abort", "drop", "clear", "command", "reread"} \cup Holding,
             pass : Passes \cup {NoH}, new : {<< >>} \cup (Passes \X Passes),
             run : RunsOf(DesktopCommands), acct : Copies \cup {NoH}]
WorldRecs == [sent : SUBSET [dev : Nat, gen : Nat, n : Nat], n : Nat, devs : Nat, salts : Nat,
              causes : SUBSET {"overlap", "crash", "signal"},
              acked : SUBSET [script : DesktopCommands \cup ClientCommands, dev : Nat, gen : Nat],
              runs : Nat, backup : [full : BOOLEAN] \cup {NoH}]

HomeTypes ==
  /\ hsc.client \subseteq ClientCommands /\ hsc.desktop \subseteq DesktopCommands
  /\ disk \in [HomeDirs -> DiskRecs]
  /\ cli \in [Clis -> CliRecs]
  /\ app \in AppRecs
  /\ calls \in [CallIds -> CallRecs]
  /\ world \in WorldRecs

(* Who has a copy of the account when, and who holds the facade's lock.    *)
HomeShape ==
  /\ \A p \in Clis : cli[p].acct = NoH <=> cli[p].pc = "off"
  /\ \A p \in Clis : cli[p].run.script.steps \in Quiet => cli[p].run.left \in Quiet
  /\ \A k \in CallIds : /\ calls[k].acct /= NoH <=> calls[k].pc \in Holding
                        /\ calls[k].pc = "command" => app.mutex = k
                        /\ calls[k].pc \in {"reread", "rewrite"} => calls[k].new \in Passes \X Passes
  /\ app.mutex /= NoH => app.one /= NoH

----------------------------------------------------------------------------
(* The copies in memory, with their holders and homes, and the vaults.     *)
Hold(who, h, a) == {[who |-> who, home |-> h, dev |-> b.c.dev, gen |-> b.c.gen] : b \in {a} \ {NoH}}
CliHeld(cl) == UNION {Hold(<<"cli", p>>, cl[p].home, cl[p].acct) : p \in Clis}
CallHeld(ca) == UNION {Hold(<<"call", k>>, AppHome, ca[k].acct) : k \in CallIds}
OneHeld(a) == Hold(<<"one">>, AppHome, a.one)
Held == CliHeld(cli) \cup CallHeld(calls) \cup OneHeld(app)
Kept(d) == {[home |-> h, dev |-> d[h].vault.c.dev, gen |-> d[h].vault.c.gen] :
              h \in {g \in HomeDirs : d[g].vault /= NoH}}

(* Whoever saves the account when it ends, or says that it has not.        *)
Saver(s) == s.save = "always" \/ s = CallSignal

(* Vaults that may be behind what was sent: the facade saves when it is    *)
(* dropped, a run of the client when it ends.                              *)
Trails ==
  (IF app.one = NoH THEN {} ELSE {AppHome} \X Nat) \cup
  {<<cli[p].home, cli[p].acct.c.dev>> :
     p \in {q \in Clis : cli[q].acct /= NoH /\ cli[q].pc = "run" /\ Saver(cli[q].run.script)}}

Told == {a \in world.acked : a.script /= mail_read_mark}

(* What the books are: copies G and vaults K of devices up to d, causes c, *)
(* messages s and answers a.  No device has two homes, and without an      *)
(* overlap no two holders.  Without a cause no message is ahead of a copy  *)
(* of its device, none is ahead of the vault but in a home that trails, and*)
(* no generation has two messages.  Without an overlap no answer is ahead  *)
(* of a copy or a vault.                                                   *)
Sound(G, K, T, d, c, s, a) ==
  /\ d \in Nat
  /\ \A x \in G \cup K : x.dev \in Nat /\ x.gen \in Nat /\ x.dev <= d
  /\ \A m \in s \cup a : m.dev \in Nat /\ m.gen \in Nat /\ m.dev <= d
  /\ \A x \in G, y \in G : x.who = y.who => x = y
  /\ \A x \in G, y \in G : x.dev = y.dev => x.home = y.home /\ ("overlap" \notin c => x.who = y.who)
  /\ \A x \in G, y \in K : x.dev = y.dev => x.home = y.home
  /\ \A x \in K, y \in K : x.dev = y.dev \/ x.home = y.home => x = y
  /\ c = {} => /\ \A m \in s, x \in G : m.dev = x.dev => m.gen <= x.gen
               /\ \A m \in s, y \in K : m.dev = y.dev => m.gen <= y.gen \/ <<y.home, y.dev>> \in T
               /\ \A m \in s, n \in s : m.dev = n.dev /\ m.gen = n.gen => m = n
  /\ "overlap" \notin c => \A m \in a, x \in G \cup K : m.dev = x.dev => m.gen <= x.gen

Books == Sound(Held, Kept(disk), Trails, world.devs, world.causes, world.sent, Told)

HomeInv == HomeTypes /\ HomeShape /\ Books

----------------------------------------------------------------------------
(* What can happen to copies and vaults.                                   *)

(* Copies are dropped and vaults removed: nothing more is claimed of those *)
(* that are left, but of the vaults that trailed an owner that went.       *)
LEMMA Loses ==
  ASSUME NEW G, NEW K, NEW T, NEW d, NEW c, NEW s, NEW a, Sound(G, K, T, d, c, s, a),
         NEW H \in SUBSET G, NEW L \in SUBSET K, NEW U, NEW e, c \subseteq e, T \subseteq U \/ e /= {}
  PROVE  Sound(H, L, U, d, e, s, a)
<1>1. e = {} => c = {} /\ T \subseteq U
  OBVIOUS
<1>2. "overlap" \notin e => "overlap" \notin c
  OBVIOUS
<1> QED
  BY <1>1, <1>2 DEF Sound

(* A vault is opened: the copy is what the vault has, and a copy of its    *)
(* home that was there before is remembered.                               *)
LEMMA Reads ==
  ASSUME NEW G, NEW K, NEW T, NEW d, NEW c, NEW s, NEW a, Sound(G, K, T, d, c, s, a),
         NEW y \in K, NEW w, NEW z, z.who = w, z.home = y.home, z.dev = y.dev, z.gen = y.gen,
         NEW H, H \subseteq {x \in G : x.who /= w} \cup {z}, NEW U, T \subseteq U,
         NEW e, c \subseteq e, (\E x \in G : x.home = y.home) => "overlap" \in e,
         (\A x \in G : x.home /= y.home) => \A t \in T : t[1] /= y.home
  PROVE  Sound(H, K, U, d, e, s, a)
<1>1. "overlap" \notin e => "overlap" \notin c /\ \A x \in G : x.home /= y.home
  OBVIOUS
<1>2. e = {} => c = {} /\ <<y.home, y.dev>> \notin T
  BY <1>1
<1>3. \A x \in H : x = z \/ (x \in G /\ x.who /= w)
  OBVIOUS
<1>4. \A x \in G : x.dev = y.dev => x.home = y.home
  BY DEF Sound
<1>5. y.dev \in Nat /\ y.gen \in Nat /\ y.dev <= d
  BY DEF Sound
<1>6. /\ d \in Nat
      /\ \A x \in H \cup K : x.dev \in Nat /\ x.gen \in Nat /\ x.dev <= d
      /\ \A m \in s \cup a : m.dev \in Nat /\ m.gen \in Nat /\ m.dev <= d
      /\ \A x \in K, u \in K : x.dev = u.dev \/ x.home = u.home => x = u
  BY <1>3, <1>5 DEF Sound
<1>7. \A x \in H, u \in H : x.who = u.who => x = u
  BY <1>3 DEF Sound
<1>8. \A x \in H, u \in H : x.dev = u.dev => x.home = u.home /\ ("overlap" \notin e => x.who = u.who)
  BY <1>1, <1>3, <1>4 DEF Sound
<1>9. \A x \in H, u \in K : x.dev = u.dev => x.home = u.home
  BY <1>3 DEF Sound
<1>10. ASSUME e = {}
       PROVE  /\ \A m \in s, x \in H : m.dev = x.dev => m.gen <= x.gen
              /\ \A m \in s, u \in K : m.dev = u.dev => m.gen <= u.gen \/ <<u.home, u.dev>> \in U
              /\ \A m \in s, n \in s : m.dev = n.dev /\ m.gen = n.gen => m = n
  BY <1>2, <1>3, <1>10 DEF Sound
<1>11. "overlap" \notin e => \A m \in a, x \in H \cup K : m.dev = x.dev => m.gen <= x.gen
  BY <1>1, <1>3 DEF Sound
<1> QED
  BY <1>6, <1>7, <1>8, <1>9, <1>10, <1>11 DEF Sound

(* A new vault of a new device, opened at once or not.                     *)
LEMMA Creates ==
  ASSUME NEW G, NEW K, NEW T, NEW d, NEW c, NEW s, NEW a, Sound(G, K, T, d, c, s, a),
         NEW y, y.dev = d + 1, y.gen = 0, NEW w, NEW z, z.who = w, z.home = y.home, z.dev = d + 1, z.gen = 0,
         NEW L, L \subseteq {x \in K : x.home /= y.home} \cup {y},
         NEW H, H \subseteq {x \in G : x.who /= w} \cup {z} \/ H \subseteq G, NEW U, T \subseteq U
  PROVE  Sound(H, L, U, d + 1, c, s, a)
<1>1. d \in Nat
  BY DEF Sound
<1>2. \A x \in H : x = z \/ x \in G
  OBVIOUS
<1>4. \A x \in L : x = y \/ (x \in K /\ x.home /= y.home)
  OBVIOUS
<1>5. \A x \in G \cup K \cup s \cup a : x.dev \in Nat /\ x.dev <= d /\ x.dev /= d + 1
  BY <1>1 DEF Sound
<1>3. \A x \in H : x = z => \A u \in H : u = z \/ u.who /= w
  BY <1>5
<1>6. /\ d + 1 \in Nat
      /\ \A x \in H \cup L : x.dev \in Nat /\ x.gen \in Nat /\ x.dev <= d + 1
      /\ \A m \in s \cup a : m.dev \in Nat /\ m.gen \in Nat /\ m.dev <= d + 1
  BY <1>1, <1>2, <1>4 DEF Sound
<1>7. \A x \in H, u \in H : x.who = u.who => x = u
  BY <1>2, <1>3 DEF Sound
<1>8. \A x \in H, u \in H : x.dev = u.dev => x.home = u.home /\ ("overlap" \notin c => x.who = u.who)
  BY <1>2, <1>5 DEF Sound
<1>9. \A x \in H, u \in L : x.dev = u.dev => x.home = u.home
  BY <1>2, <1>4, <1>5 DEF Sound
<1>10. \A x \in L, u \in L : x.dev = u.dev \/ x.home = u.home => x = u
  BY <1>4, <1>5 DEF Sound
<1>11. ASSUME c = {}
       PROVE  /\ \A m \in s, x \in H : m.dev = x.dev => m.gen <= x.gen
              /\ \A m \in s, u \in L : m.dev = u.dev => m.gen <= u.gen \/ <<u.home, u.dev>> \in U
              /\ \A m \in s, n \in s : m.dev = n.dev /\ m.gen = n.gen => m = n
  BY <1>2, <1>4, <1>5, <1>11 DEF Sound
<1>12. "overlap" \notin c => \A m \in a, x \in H \cup L : m.dev = x.dev => m.gen <= x.gen
  BY <1>2, <1>4, <1>5 DEF Sound
<1> QED
  BY <1>6, <1>7, <1>8, <1>9, <1>10, <1>11, <1>12 DEF Sound

(* A step of a command: its copy's ratchet may move on, and a message made *)
(* with the next generation may be on the wire.                            *)
LEMMA Uses ==
  ASSUME NEW G, NEW K, NEW T, NEW d, NEW c, NEW s, NEW a, Sound(G, K, T, d, c, s, a),
         NEW x \in G, NEW z, z.who = x.who, z.home = x.home, z.dev = x.dev, z.gen = x.gen \/ z.gen = x.gen + 1,
         NEW H, H \subseteq {y \in G : y.who /= x.who} \cup {z},
         NEW m, m.dev = x.dev, m.gen = x.gen + 1,
         NEW r, r = s \/ (r \subseteq s \cup {m} /\ z.gen = x.gen + 1 /\ <<x.home, x.dev>> \in T),
         NEW U, T \subseteq U
  PROVE  Sound(H, K, U, d, c, r, a)
<1>1. x.dev \in Nat /\ x.gen \in Nat /\ x.dev <= d /\ z.gen \in Nat /\ z.gen >= x.gen /\ m.gen \in Nat
  BY DEF Sound
<1>2. \A y \in H : y = z \/ (y \in G /\ y.who /= x.who)
  OBVIOUS
<1>3. \A n \in r : n \in s \/ (n = m /\ z.gen = x.gen + 1 /\ <<x.home, x.dev>> \in T)
  OBVIOUS
<1>4. /\ d \in Nat
      /\ \A y \in H \cup K : y.dev \in Nat /\ y.gen \in Nat /\ y.dev <= d
      /\ \A n \in r \cup a : n.dev \in Nat /\ n.gen \in Nat /\ n.dev <= d
      /\ \A y \in K, u \in K : y.dev = u.dev \/ y.home = u.home => y = u
  BY <1>1, <1>2, <1>3 DEF Sound
<1>5. \A y \in H, u \in H : y.who = u.who => y = u
  BY <1>2 DEF Sound
<1>6. \A y \in H, u \in H : y.dev = u.dev => y.home = u.home /\ ("overlap" \notin c => y.who = u.who)
  BY <1>2 DEF Sound
<1>7. \A y \in H, u \in K : y.dev = u.dev => y.home = u.home
  BY <1>2 DEF Sound
<1>8. ASSUME c = {}
      PROVE  /\ \A n \in r, y \in H : n.dev = y.dev => n.gen <= y.gen
             /\ \A n \in r, u \in K : n.dev = u.dev => n.gen <= u.gen \/ <<u.home, u.dev>> \in U
             /\ \A n \in r, o \in r : n.dev = o.dev /\ n.gen = o.gen => n = o
  <2>1. /\ \A n \in s, y \in G : n.dev = y.dev => n.gen <= y.gen
        /\ \A y \in G : y.dev = x.dev => y.who = x.who
        /\ \A n \in s, u \in K : n.dev = u.dev => n.gen <= u.gen \/ <<u.home, u.dev>> \in T
        /\ \A n \in s, o \in s : n.dev = o.dev /\ n.gen = o.gen => n = o
        /\ \A n \in s : n.gen \in Nat /\ n.dev \in Nat
        /\ \A u \in K : u.dev = x.dev => u.home = x.home
    BY <1>8 DEF Sound
  <2>2. \A n \in r, y \in H : n.dev = y.dev => n.gen <= y.gen
    BY <1>1, <1>2, <1>3, <2>1
  <2>3. \A n \in r, u \in K : n.dev = u.dev => n.gen <= u.gen \/ <<u.home, u.dev>> \in U
    BY <1>3, <2>1
  <2>4. \A n \in s : n.dev = m.dev => n.gen /= m.gen
    BY <1>1, <2>1
  <2>5. \A n \in r, o \in r : n.dev = o.dev /\ n.gen = o.gen => n = o
    BY <1>3, <2>1, <2>4
  <2> QED
    BY <2>2, <2>3, <2>5
<1>9. ASSUME "overlap" \notin c
      PROVE  \A n \in a, y \in H \cup K : n.dev = y.dev => n.gen <= y.gen
  <2>1. /\ \A n \in a, y \in G \cup K : n.dev = y.dev => n.gen <= y.gen
        /\ \A n \in a : n.gen \in Nat
    BY <1>9 DEF Sound
  <2> QED
    BY <1>1, <1>2, <2>1
<1> QED
  BY <1>4, <1>5, <1>6, <1>7, <1>8, <1>9 DEF Sound

(* A copy is saved to its home, and may be dropped; a command may have     *)
(* told the user that it is done.                                          *)
LEMMA SavesCopy ==
  ASSUME NEW G, NEW K, NEW T, NEW d, NEW c, NEW s, NEW a, Sound(G, K, T, d, c, s, a),
         NEW x \in G, NEW z, z.home = x.home, z.dev = x.dev, z.gen = x.gen,
         NEW L, L \subseteq {y \in K : y.home /= x.home} \cup {z}, NEW H \in SUBSET G,
         NEW b, \A n \in b : n \in a \/ (n.dev = x.dev /\ n.gen = x.gen),
         NEW e, c \subseteq e, NEW U, e /= {} \/ \A t \in T : t \in U \/ t[1] = x.home
  PROVE  Sound(H, L, U, d, e, s, b)
<1>1. x.dev \in Nat /\ x.gen \in Nat /\ x.dev <= d
  BY DEF Sound
<1>2. \A y \in L : y = z \/ (y \in K /\ y.home /= x.home)
  OBVIOUS
<1>3. \A n \in b : n \in a \/ (n.dev = x.dev /\ n.gen = x.gen)
  OBVIOUS
<1>4. e = {} => c = {} /\ \A t \in T : t \in U \/ t[1] = x.home
  OBVIOUS
<1>5. /\ d \in Nat
      /\ \A y \in H \cup L : y.dev \in Nat /\ y.gen \in Nat /\ y.dev <= d
      /\ \A n \in s \cup b : n.dev \in Nat /\ n.gen \in Nat /\ n.dev <= d
      /\ \A y \in H, u \in H : y.who = u.who => y = u
  BY <1>1, <1>2, <1>3 DEF Sound
<1>6. \A y \in H, u \in H : y.dev = u.dev => y.home = u.home /\ ("overlap" \notin e => y.who = u.who)
  BY DEF Sound
<1>7. \A y \in H, u \in L : y.dev = u.dev => y.home = u.home
  BY <1>2 DEF Sound
<1>8. \A y \in L, u \in L : y.dev = u.dev \/ y.home = u.home => y = u
  BY <1>2 DEF Sound
<1>9. ASSUME e = {}
      PROVE  /\ \A n \in s, y \in H : n.dev = y.dev => n.gen <= y.gen
             /\ \A n \in s, u \in L : n.dev = u.dev => n.gen <= u.gen \/ <<u.home, u.dev>> \in U
             /\ \A n \in s, o \in s : n.dev = o.dev /\ n.gen = o.gen => n = o
  <2>1. ASSUME NEW n \in s, NEW u \in L, n.dev = u.dev
        PROVE  n.gen <= u.gen \/ <<u.home, u.dev>> \in U
    <3>1. CASE u = z
      BY <1>4, <1>9, <2>1, <3>1 DEF Sound
    <3>2. CASE u \in K /\ u.home /= x.home
      <4>1. n.gen <= u.gen \/ <<u.home, u.dev>> \in T
        BY <1>4, <1>9, <2>1, <3>2 DEF Sound
      <4>2. <<u.home, u.dev>>[1] /= x.home
        BY <3>2
      <4> QED
        BY <1>4, <1>9, <4>1, <4>2
    <3> QED
      BY <1>2, <3>1, <3>2
  <2> QED
    BY <1>4, <1>9, <2>1 DEF Sound
<1>10. ASSUME "overlap" \notin e
       PROVE  \A n \in b, y \in H \cup L : n.dev = y.dev => n.gen <= y.gen
  <2>1. /\ \A n \in a, y \in G \cup K : n.dev = y.dev => n.gen <= y.gen
        /\ \A y \in G : y.dev = x.dev => y = x
        /\ \A u \in K : u.dev = x.dev => u.home = x.home
    BY <1>10 DEF Sound
  <2> QED
    BY <1>1, <1>2, <1>3, <2>1
<1> QED
  BY <1>5, <1>6, <1>7, <1>8, <1>9, <1>10 DEF Sound

(* A copy goes to another holder, in the place of what that had.           *)
LEMMA Moves ==
  ASSUME NEW G, NEW K, NEW T, NEW d, NEW c, NEW s, NEW a, Sound(G, K, T, d, c, s, a),
         NEW x \in G, NEW w, NEW z, z.who = w, z.home = x.home, z.dev = x.dev, z.gen = x.gen,
         NEW H, H \subseteq {y \in G : y.who /= x.who /\ y.who /= w} \cup {z}, NEW U, T \subseteq U
  PROVE  Sound(H, K, U, d, c, s, a)
<1>1. \A y \in H : y = z \/ (y \in G /\ y.who /= x.who /\ y.who /= w)
  OBVIOUS
<1>2. /\ d \in Nat
      /\ \A y \in H \cup K : y.dev \in Nat /\ y.gen \in Nat /\ y.dev <= d
      /\ \A n \in s \cup a : n.dev \in Nat /\ n.gen \in Nat /\ n.dev <= d
      /\ \A y \in K, u \in K : y.dev = u.dev \/ y.home = u.home => y = u
  BY <1>1 DEF Sound
<1>3. \A y \in H, u \in H : y.who = u.who => y = u
  BY <1>1 DEF Sound
<1>4. \A y \in H, u \in H : y.dev = u.dev => y.home = u.home /\ ("overlap" \notin c => y.who = u.who)
  BY <1>1 DEF Sound
<1>5. \A y \in H, u \in K : y.dev = u.dev => y.home = u.home
  BY <1>1 DEF Sound
<1>6. ASSUME c = {}
      PROVE  /\ \A n \in s, y \in H : n.dev = y.dev => n.gen <= y.gen
             /\ \A n \in s, u \in K : n.dev = u.dev => n.gen <= u.gen \/ <<u.home, u.dev>> \in U
             /\ \A n \in s, o \in s : n.dev = o.dev /\ n.gen = o.gen => n = o
  BY <1>1, <1>6 DEF Sound
<1>7. "overlap" \notin c => \A n \in a, y \in H \cup K : n.dev = y.dev => n.gen <= y.gen
  BY <1>1 DEF Sound
<1> QED
  BY <1>2, <1>3, <1>4, <1>5, <1>6, <1>7 DEF Sound

----------------------------------------------------------------------------
(* How the copies, the vaults and the trailing vaults change with the      *)
(* variables.                                                              *)
Mark(who, h, a) == [who |-> who, home |-> h, dev |-> a.c.dev, gen |-> a.c.gen]
VaultOf(h, v) == [home |-> h, dev |-> v.c.dev, gen |-> v.c.gen]
(* A holder and its one copy, as a set.                                    *)
LEMMA HoldIs ==
  ASSUME NEW w, NEW h, NEW a
  PROVE  Hold(w, h, a) = IF a = NoH THEN {} ELSE {Mark(w, h, a)}
BY DEF Hold, Mark

(* Who is in Held.                                                         *)
LEMMA HeldIs ==
  /\ \A p \in Clis : cli[p].acct /= NoH => Mark(<<"cli", p>>, cli[p].home, cli[p].acct) \in Held
  /\ \A k \in CallIds : calls[k].acct /= NoH => Mark(<<"call", k>>, AppHome, calls[k].acct) \in Held
  /\ app.one /= NoH => Mark(<<"one">>, AppHome, app.one) \in Held
  /\ \A x \in Held : \/ \E p \in Clis : cli[p].acct /= NoH /\ x = Mark(<<"cli", p>>, cli[p].home, cli[p].acct)
                     \/ \E k \in CallIds : calls[k].acct /= NoH /\ x = Mark(<<"call", k>>, AppHome, calls[k].acct)
                     \/ app.one /= NoH /\ x = Mark(<<"one">>, AppHome, app.one)
<1>1. /\ \A x : x \in CliHeld(cli) <=>
             \E p \in Clis : cli[p].acct /= NoH /\ x = Mark(<<"cli", p>>, cli[p].home, cli[p].acct)
      /\ \A x : x \in CallHeld(calls) <=>
             \E k \in CallIds : calls[k].acct /= NoH /\ x = Mark(<<"call", k>>, AppHome, calls[k].acct)
      /\ \A x : x \in OneHeld(app) <=> app.one /= NoH /\ x = Mark(<<"one">>, AppHome, app.one)
  BY HoldIs DEF CliHeld, CallHeld, OneHeld
<1> QED
  BY <1>1 DEF Held

(* The fields of a mark, and that no two holders share a name.             *)
LEMMA Whose ==
  ASSUME NEW h, NEW a
  PROVE  /\ \A w : Mark(w, h, a).who = w /\ Mark(w, h, a).home = h
                   /\ Mark(w, h, a).dev = a.c.dev /\ Mark(w, h, a).gen = a.c.gen
         /\ \A p, q : <<"cli", p>> /= <<"call", q>> /\ <<"cli", p>> /= <<"one">> /\ <<"call", p>> /= <<"one">>
         /\ \A p, q : <<"cli", p>> = <<"cli", q>> => p = q
         /\ \A p, q : <<"call", p>> = <<"call", q>> => p = q
BY DEF Mark

(* One run of the client, one call or the facade changes its copy.         *)
LEMMA ClientMoves ==
  ASSUME NEW p \in Clis, \A q \in Clis : q /= p => cli'[q] = cli[q],
         \A k \in CallIds : calls'[k].acct = calls[k].acct, app'.one = app.one
  PROVE  Held' \subseteq {x \in Held : x.who /= <<"cli", p>>} \cup Hold(<<"cli", p>>, cli'[p].home, cli'[p].acct)
<1> SUFFICES ASSUME NEW x \in Held'
             PROVE  x \in {y \in Held : y.who /= <<"cli", p>>} \cup Hold(<<"cli", p>>, cli'[p].home, cli'[p].acct)
  OBVIOUS
<1>1. \/ \E q \in Clis : cli'[q].acct /= NoH /\ x = Mark(<<"cli", q>>, cli'[q].home, cli'[q].acct)
      \/ \E k \in CallIds : calls'[k].acct /= NoH /\ x = Mark(<<"call", k>>, AppHome, calls'[k].acct)
      \/ app'.one /= NoH /\ x = Mark(<<"one">>, AppHome, app'.one)
  BY HoldIs DEF Held, CliHeld, CallHeld, OneHeld
<1>2. CASE cli'[p].acct /= NoH /\ x = Mark(<<"cli", p>>, cli'[p].home, cli'[p].acct)
  BY <1>2, HoldIs
<1>3. ASSUME NEW q \in Clis, q /= p, cli'[q].acct /= NoH, x = Mark(<<"cli", q>>, cli'[q].home, cli'[q].acct)
      PROVE  x \in Held /\ x.who /= <<"cli", p>>
  BY <1>3, HeldIs, Whose
<1>4. ASSUME NEW k \in CallIds, calls'[k].acct /= NoH, x = Mark(<<"call", k>>, AppHome, calls'[k].acct)
      PROVE  x \in Held /\ x.who /= <<"cli", p>>
  BY <1>4, HeldIs, Whose
<1>5. ASSUME app'.one /= NoH, x = Mark(<<"one">>, AppHome, app'.one)
      PROVE  x \in Held /\ x.who /= <<"cli", p>>
  BY <1>5, HeldIs, Whose
<1> QED
  BY <1>1, <1>2, <1>3, <1>4, <1>5

(* Only the copy of call k changes.                                        *)
LEMMA CallMoves ==
  ASSUME NEW k \in CallIds, \A j \in CallIds : j /= k => calls'[j].acct = calls[j].acct,
         cli' = cli, app'.one = app.one
  PROVE  Held' \subseteq {x \in Held : x.who /= <<"call", k>>} \cup Hold(<<"call", k>>, AppHome, calls'[k].acct)
<1> SUFFICES ASSUME NEW x \in Held'
             PROVE  x \in {y \in Held : y.who /= <<"call", k>>} \cup Hold(<<"call", k>>, AppHome, calls'[k].acct)
  OBVIOUS
<1>1. \/ \E q \in Clis : cli[q].acct /= NoH /\ x = Mark(<<"cli", q>>, cli[q].home, cli[q].acct)
      \/ \E j \in CallIds : calls'[j].acct /= NoH /\ x = Mark(<<"call", j>>, AppHome, calls'[j].acct)
      \/ app'.one /= NoH /\ x = Mark(<<"one">>, AppHome, app'.one)
  BY HoldIs DEF Held, CliHeld, CallHeld, OneHeld
<1>2. CASE calls'[k].acct /= NoH /\ x = Mark(<<"call", k>>, AppHome, calls'[k].acct)
  BY <1>2, HoldIs
<1>3. ASSUME NEW q \in Clis, cli[q].acct /= NoH, x = Mark(<<"cli", q>>, cli[q].home, cli[q].acct)
      PROVE  x \in Held /\ x.who /= <<"call", k>>
  BY <1>3, HeldIs, Whose
<1>4. ASSUME NEW j \in CallIds, j /= k, calls'[j].acct /= NoH, x = Mark(<<"call", j>>, AppHome, calls'[j].acct)
      PROVE  x \in Held /\ x.who /= <<"call", k>>
  BY <1>4, HeldIs, Whose
<1>5. ASSUME app'.one /= NoH, x = Mark(<<"one">>, AppHome, app'.one)
      PROVE  x \in Held /\ x.who /= <<"call", k>>
  BY <1>5, HeldIs, Whose
<1> QED
  BY <1>1, <1>2, <1>3, <1>4, <1>5

(* The facade's copy changes; the one that a call hands over has left it.  *)
LEMMA FacadeMoves ==
  ASSUME \A k \in CallIds : calls'[k].acct \in {NoH, calls[k].acct}, cli' = cli
  PROVE  Held' \subseteq {x \in Held : /\ x.who /= <<"one">>
                                     /\ \A k \in CallIds : x.who = <<"call", k>> => calls'[k].acct = calls[k].acct}
                     \cup Hold(<<"one">>, AppHome, app'.one)
<1> DEFINE R == {x \in Held : /\ x.who /= <<"one">>
                             /\ \A k \in CallIds : x.who = <<"call", k>> => calls'[k].acct = calls[k].acct}
<1> SUFFICES ASSUME NEW x \in Held'
             PROVE  x \in R \cup Hold(<<"one">>, AppHome, app'.one)
  OBVIOUS
<1>1. \/ \E q \in Clis : cli[q].acct /= NoH /\ x = Mark(<<"cli", q>>, cli[q].home, cli[q].acct)
      \/ \E j \in CallIds : calls'[j].acct /= NoH /\ x = Mark(<<"call", j>>, AppHome, calls'[j].acct)
      \/ app'.one /= NoH /\ x = Mark(<<"one">>, AppHome, app'.one)
  BY HoldIs DEF Held, CliHeld, CallHeld, OneHeld
<1>2. CASE app'.one /= NoH /\ x = Mark(<<"one">>, AppHome, app'.one)
  BY <1>2, HoldIs
<1>3. ASSUME NEW q \in Clis, cli[q].acct /= NoH, x = Mark(<<"cli", q>>, cli[q].home, cli[q].acct)
      PROVE  x \in R
  BY <1>3, HeldIs, Whose
<1>4. ASSUME NEW j \in CallIds, calls'[j].acct /= NoH, x = Mark(<<"call", j>>, AppHome, calls'[j].acct)
      PROVE  x \in R
  <2>1. calls'[j].acct = calls[j].acct
    BY <1>4
  <2>2. x \in Held /\ x.who = <<"call", j>>
    BY <1>4, <2>1, HeldIs, Whose
  <2> QED
    BY <2>1, <2>2, Whose
<1> QED
  BY <1>1, <1>2, <1>3, <1>4

(* Only the vault of home h changes.                                       *)
LEMMA KeptChanges ==
  ASSUME NEW d, NEW e, NEW h, \A g \in HomeDirs : g /= h => e[g].vault = d[g].vault
  PROVE  Kept(e) \subseteq {x \in Kept(d) : x.home /= h}
                           \cup (IF e[h].vault = NoH THEN {} ELSE {VaultOf(h, e[h].vault)})
BY DEF Kept, VaultOf

(* A vault that is there is kept.                                          *)
LEMMA KeptHas ==
  ASSUME NEW d, NEW h \in HomeDirs, d[h].vault /= NoH
  PROVE  VaultOf(h, d[h].vault) \in Kept(d)
BY DEF Kept, VaultOf

(* Vaults that are removed or left as they were.                           *)
LEMMA KeptSame ==
  ASSUME NEW d, NEW e, \A g \in HomeDirs : e[g].vault \in {NoH, d[g].vault}
  PROVE  Kept(e) \subseteq Kept(d)
BY DEF Kept

(* Nobody has a copy of the home: none of its vaults trails.               *)
LEMMA Alone ==
  ASSUME HomeShape, NEW h \in HomeDirs
  PROVE  /\ Live(h) = {} => \A x \in Held : x.home /= h
         /\ (\A x \in Held : x.home /= h) => \A t \in Trails : t[1] /= h
<1>1. ASSUME Live(h) = {}, NEW x \in Held PROVE x.home /= h
  <2>1. ASSUME NEW p \in Clis, cli[p].acct /= NoH, x = Mark(<<"cli", p>>, cli[p].home, cli[p].acct) PROVE x.home /= h
    BY <1>1, <2>1, Whose DEF Live, HomeShape
  <2>2. ASSUME NEW k \in CallIds, calls[k].acct /= NoH, x = Mark(<<"call", k>>, AppHome, calls[k].acct) PROVE x.home /= h
    BY <1>1, <2>2, Whose DEF Live
  <2>3. ASSUME app.one /= NoH, x = Mark(<<"one">>, AppHome, app.one) PROVE x.home /= h
    BY <1>1, <2>3, Whose DEF Live
  <2> QED
    BY <2>1, <2>2, <2>3, HeldIs
<1>2. ASSUME \A x \in Held : x.home /= h, NEW t \in Trails PROVE t[1] /= h
  <2>1. ASSUME app.one /= NoH, t \in {AppHome} \X Nat PROVE t[1] /= h
    <3>1. t[1] = AppHome
      BY <2>1
    <3> DEFINE x == Mark(<<"one">>, AppHome, app.one)
    <3>2. x \in Held
      BY <2>1, HeldIs
    <3>3. x.home = AppHome
      BY Whose
    <3> HIDE DEF x
    <3> QED
      BY <1>2, <3>1, <3>2, <3>3
  <2>2. ASSUME NEW p \in Clis, cli[p].acct /= NoH, t = <<cli[p].home, cli[p].acct.c.dev>> PROVE t[1] /= h
    <3> DEFINE x == Mark(<<"cli", p>>, cli[p].home, cli[p].acct)
    <3>1. x \in Held
      BY <2>2, HeldIs
    <3>2. x.home = cli[p].home
      BY Whose
    <3>3. t[1] = cli[p].home
      BY <2>2
    <3> HIDE DEF x
    <3> QED
      BY <1>2, <3>1, <3>2, <3>3
  <2> QED
    BY <1>2, <2>1, <2>2 DEF Trails
<1> QED
  BY <1>1, <1>2

(* The facade is still there, and so is every run that will save.          *)
LEMMA TrailsGrow ==
  ASSUME app.one /= NoH => app'.one /= NoH,
         \A p \in Clis : cli[p].acct /= NoH /\ cli[p].pc = "run" /\ Saver(cli[p].run.script) =>
           /\ cli'[p].acct /= NoH /\ cli'[p].pc = "run" /\ Saver(cli'[p].run.script)
           /\ cli'[p].home = cli[p].home /\ cli'[p].acct.c.dev = cli[p].acct.c.dev
  PROVE  Trails \subseteq Trails'
<1> SUFFICES ASSUME NEW t \in Trails PROVE t \in Trails'
  OBVIOUS
<1>1. CASE app.one /= NoH /\ t \in {AppHome} \X Nat
  BY <1>1 DEF Trails
<1>2. ASSUME NEW p \in Clis, cli[p].acct /= NoH, cli[p].pc = "run", Saver(cli[p].run.script),
             t = <<cli[p].home, cli[p].acct.c.dev>>
      PROVE  t \in Trails'
  BY <1>2 DEF Trails
<1> QED
  BY <1>1, <1>2 DEF Trails

(* No copy but those dropped, no vault but those removed, no message and   *)
(* no answer: nothing changes.                                             *)
LEMMA Stands ==
  ASSUME Books, cli' = cli, app'.one = app.one, \A k \in CallIds : calls'[k].acct \in {NoH, calls[k].acct},
         \A h \in HomeDirs : disk'[h].vault \in {NoH, disk[h].vault},
         world'.devs = world.devs, world.causes \subseteq world'.causes, world'.sent = world.sent,
         world'.acked = world.acked
  PROVE  Books'
<1>1. Held' \subseteq Held
  <2> SUFFICES ASSUME NEW x \in Held' PROVE x \in Held
    OBVIOUS
  <2>1. \/ \E q \in Clis : cli[q].acct /= NoH /\ x = Mark(<<"cli", q>>, cli[q].home, cli[q].acct)
        \/ \E j \in CallIds : calls'[j].acct /= NoH /\ x = Mark(<<"call", j>>, AppHome, calls'[j].acct)
        \/ app'.one /= NoH /\ x = Mark(<<"one">>, AppHome, app'.one)
    BY HoldIs DEF Held, CliHeld, CallHeld, OneHeld
  <2>2. ASSUME NEW j \in CallIds, calls'[j].acct /= NoH, x = Mark(<<"call", j>>, AppHome, calls'[j].acct)
        PROVE  x \in Held
    <3>1. calls'[j].acct = calls[j].acct
      BY <2>2
    <3> QED
      BY <2>2, <3>1, HeldIs
  <2> QED
    BY <2>1, <2>2, HeldIs
<1>2. Kept(disk') \subseteq Kept(disk)
  BY KeptSame
<1>3. Trails' = Trails /\ Told' = Told
  BY DEF Trails, Told
<1>4. Sound(Held, Kept(disk), Trails, world.devs, world.causes, world.sent, Told)
  BY DEF Books
<1>5. Sound(Held', Kept(disk'), Trails, world.devs, world'.causes, world.sent, Told)
  BY <1>1, <1>2, <1>4, Loses
<1>6. Kept(disk)' = Kept(disk')
  BY DEF Kept
<1> QED
  BY <1>3, <1>5, <1>6 DEF Books

----------------------------------------------------------------------------
(* Commands: what is not saved has not used the ratchet.                   *)

(* The sequences of steps that occur.                                      *)
LEMMA StepsAre ==
  /\ <<>> \in Quiet /\ <<>> \in Seq(Steps)
  /\ <<"net">> \in Quiet /\ <<"net">> \in Seq(Steps)
  /\ <<"net", "net">> \in Quiet /\ <<"net", "net">> \in Seq(Steps)
  /\ <<"try">> \in Seq(Steps)
  /\ <<"send">> \in Seq(Steps)
  /\ <<"net", "try">> \in Seq(Steps)
  /\ <<"try", "try">> \in Seq(Steps)
  /\ <<"net", "send">> \in Seq(Steps)
  /\ <<"net", "try", "try">> \in Seq(Steps)
  /\ <<"try", "net", "try">> \in Seq(Steps)
  /\ <<"net", "net", "try">> \in Seq(Steps)
  /\ <<"net", "try", "net", "try">> \in Seq(Steps)
  /\ <<"net", "net", "try", "try">> \in Seq(Steps)
  /\ <<"net", "send", "net", "try">> \in Seq(Steps)
  /\ <<"net", "try", "net", "try", "net", "try">> \in Seq(Steps)
BY DEF Quiet, Steps

(* The desktop's commands: what is never saved sends nothing, but          *)
(* mail_mark_read.                                                         *)
LEMMA DesktopDiscipline ==
  ASSUME NEW s \in DesktopCommands
  PROVE  /\ s.steps \in Seq(Steps) /\ s.save \in {"ok", "sent", "never"}
         /\ s.save = "never" => s = mail_read_mark \/ s.steps \in Quiet
<1> DEFINE ok(c) == /\ c.steps \in Seq(Steps) /\ c.save \in {"ok", "sent", "never"}
                    /\ c.save = "never" => c = mail_read_mark \/ c.steps \in Quiet
<1>1. /\ \A q \in Seq(Steps) : ok(Saved(q)) /\ ok(SavedSent(q))
      /\ \A q \in Quiet : q \in Seq(Steps) => ok(Unsaved(q))
      /\ ok(mail_read_mark)
  BY StepsAre DEF Saved, SavedSent, Unsaved, Script, mail_read_mark
<1> HIDE DEF ok
<1>2. \A c \in {people_resolve, people_request, people_respond, people_edit, people_follow,
                 people_list, people_send_card, people_card_of, people_username_of, profile_of,
                 profile_save, profile_upload_image} : ok(c)
  BY <1>1, StepsAre DEF people_resolve, people_request, people_respond, people_edit, people_follow, people_list,
     people_send_card, people_card_of, people_username_of, profile_of, profile_save,
     profile_upload_image
<1>3. \A c \in {profile_timeline, mail_lists, mail_read_mark, mail_edit, mail_settings,
                 mail_resolve_recipients, mail_drafts, mail_attach_file, mail_attach_bytes,
                 mail_attach_drive, mail_draft_remove_attachment, mail_compose} : ok(c)
  BY <1>1, StepsAre DEF profile_timeline, mail_lists, mail_read_mark, mail_edit, mail_settings,
     mail_resolve_recipients, mail_drafts, mail_attach_file, mail_attach_bytes,
     mail_attach_drive, mail_draft_remove_attachment, mail_compose
<1>4. \A c \in {mail_attachment_files, mail_attachments, drive_lists, drive_availability,
                 drive_details, drive_mkdir, drive_upload, drive_upload_bytes, drive_update,
                 drive_download, drive_open, drive_edit} : ok(c)
  BY <1>1, StepsAre DEF mail_attachment_files, mail_attachments, drive_lists, drive_availability, drive_details,
     drive_mkdir, drive_upload, drive_upload_bytes, drive_update, drive_download, drive_open,
     drive_edit
<1>5. \A c \in {drive_rekey, drive_rekey_all, drive_commit, drive_share, drive_revoke,
                 drive_shares, drive_shared_files, drive_shared_save, drive_shared_folder,
                 feed_pages, feed_explore, feed_thread} : ok(c)
  BY <1>1, StepsAre DEF drive_rekey, drive_rekey_all, drive_commit, drive_share, drive_revoke, drive_shares,
     drive_shared_files, drive_shared_save, drive_shared_folder, feed_pages, feed_explore,
     feed_thread
<1>6. \A c \in {feed_post, feed_post_media, story_create, stories, feed_interact, feed_refresh,
                 feed_profile_update, feed_media, circles_members, circles_leave_group,
                 circles_publish, circles_read} : ok(c)
  BY <1>1, StepsAre DEF feed_post, feed_post_media, story_create, stories, feed_interact, feed_refresh,
     feed_profile_update, feed_media, circles_members, circles_leave_group, circles_publish,
     circles_read
<1>7. \A c \in {circles_media_fetch, hashwall_pages, walls_create, walls_read, people_cached,
                 profile_me, network_lists, spaces_open, spaces_publish, spaces_directory,
                 spaces_read, spaces_event} : ok(c)
  BY <1>1, StepsAre DEF circles_media_fetch, hashwall_pages, walls_create, walls_read, people_cached, profile_me,
     network_lists, spaces_open, spaces_publish, spaces_directory, spaces_read, spaces_event
<1>8. \A c \in {spaces_chat_open, spaces_mail, spaces_drive_files, spaces_drive_save, chat_list,
                 chat_open, chat_create_group, chat_add_member, chat_leave, chat_text,
                 chat_send_media, chat_attachment_open} : ok(c)
  BY <1>1, StepsAre DEF spaces_chat_open, spaces_mail, spaces_drive_files, spaces_drive_save, chat_list, chat_open,
     chat_create_group, chat_add_member, chat_leave, chat_text, chat_send_media,
     chat_attachment_open
<1>9. \A c \in {flush_queue, identity_status, identity_register, devices_list, device_add,
                 device_revoke, devices_reconcile, devices_bootstrap, earn_read, earn_tx,
                 ensure_operator_secret} : ok(c)
  BY <1>1, StepsAre DEF flush_queue, identity_status, identity_register, devices_list, device_add, device_revoke,
     devices_reconcile, devices_bootstrap, earn_read, earn_tx, ensure_operator_secret
<1>10. ok(s)
  BY <1>2, <1>3, <1>4, <1>5, <1>6, <1>7, <1>8, <1>9 DEF DesktopCommands
<1> QED
  BY <1>10 DEF ok

(* The client's commands: what does not always save sends nothing, but call*)
(* signal.                                                                 *)
LEMMA ClientDiscipline ==
  ASSUME NEW s \in ClientCommands
  PROVE  /\ s.steps \in Seq(Steps)
         /\ s.save = "always" \/ s = CallSignal \/ s.steps \in Quiet
<1> DEFINE ok(c) == c.steps \in Seq(Steps) /\ (c.save = "always" \/ c = CallSignal \/ c.steps \in Quiet)
<1>1. /\ \A q \in Seq(Steps) : ok(Dispatched(q)) /\ ok(Persisted(q))
      /\ \A q \in Quiet : q \in Seq(Steps) => ok(Keyed(q)) /\ ok(Direct(q))
      /\ ok(CallSignal)
  BY StepsAre DEF Dispatched, Persisted, Direct, Keyed, Script, CallSignal
<1> HIDE DEF ok
<1>2. \A c \in {OneSync, OneBackup, OneBalance, OneMailSend, OneMailList, OneMailRead,
                 OneMailEdit, OneMailAttachment, OneMailSettings, OneDriveList, OneDrivePut,
                 OneDriveGet, OneDriveUpdate} : ok(c)
  BY <1>1, StepsAre DEF OneSync, OneBackup, OneBalance, OneMailSend, OneMailList, OneMailRead, OneMailEdit,
     OneMailAttachment, OneMailSettings, OneDriveList, OneDrivePut, OneDriveGet, OneDriveUpdate
<1>3. \A c \in {OneDriveEdit, OneDriveVersions, OneDriveRekey, OneDriveStar, OneDriveShare,
                 OneDriveRevoke, OneDriveShares, OneDriveGetShared, OneDriveCommit,
                 OneDriveUsage, OnePeopleResolve, OnePeopleSend, OnePeopleEdit} : ok(c)
  BY <1>1, StepsAre DEF OneDriveEdit, OneDriveVersions, OneDriveRekey, OneDriveStar, OneDriveShare, OneDriveRevoke,
     OneDriveShares, OneDriveGetShared, OneDriveCommit, OneDriveUsage, OnePeopleResolve,
     OnePeopleSend, OnePeopleEdit
<1>4. \A c \in {OnePeopleFollow, OnePeopleList, OnePeopleCard, OneFeed, OneCircleEvent,
                 OneCircleRead, OneSpaceEvent, OneSpaceRead, OneSpaceMail, OneDevices,
                 OneProvider, OneNetwork, MessageSend} : ok(c)
  BY <1>1, StepsAre DEF OnePeopleFollow, OnePeopleList, OnePeopleCard, OneFeed, OneCircleEvent, OneCircleRead,
     OneSpaceEvent, OneSpaceRead, OneSpaceMail, OneDevices, OneProvider, OneNetwork, MessageSend
<1>5. \A c \in {MessageReceive, GroupChange, CallSignal, CallNodes, PublishEvent, ReelPublish,
                 PublishKeys, IdentityShow, DeviceTx, Register, WalletCommand, BlobTransfer} : ok(c)
  BY <1>1, StepsAre DEF MessageReceive, GroupChange, CallNodes, PublishEvent, ReelPublish, PublishKeys,
     IdentityShow, DeviceTx, Register, WalletCommand, BlobTransfer
<1>6. ok(s)
  BY <1>2, <1>3, <1>4, <1>5 DEF ClientCommands
<1> QED
  BY <1>6 DEF ok

----------------------------------------------------------------------------
(* The pieces of the steps.                                                *)
LEMMA StepFits ==
  ASSUME NEW S, NEW r \in RunsOf(S), r.left /= << >>, NEW o \in [wire : BOOLEAN, on : BOOLEAN]
  PROVE  /\ Stepped(r, o) \in RunsOf(S) /\ Stepped(r, o).script = r.script
         /\ r.left \in Quiet => Stepped(r, o).left \in Quiet /\ Head(r.left) = "net"
<1> DEFINE l == r.left
           b == o.on \/ Head(l) = "try"
           t == IF b THEN Tail(l) ELSE << >>
           g == r.got \/ (Head(l) /= "net" /\ o.on)
<1>1. l \in Seq(Steps) /\ l /= << >> /\ o.on \in BOOLEAN /\ r.got \in BOOLEAN
  BY DEF RunsOf
<1>2. t \in Seq(Steps) /\ b \in BOOLEAN /\ g \in BOOLEAN
  BY <1>1, StepsAre
<1>3. l \in Quiet => t \in Quiet /\ Head(l) = "net"
  BY <1>1, StepsAre DEF Quiet
<1>4. Stepped(r, o) = [r EXCEPT !.left = t, !.ok = b, !.got = g]
  BY DEF Stepped
<1> HIDE DEF l, b, t, g
<1>5. Stepped(r, o) \in RunsOf(S) /\ Stepped(r, o).script = r.script /\ Stepped(r, o).left = t
  BY <1>2, <1>4 DEF RunsOf
<1> QED
  BY <1>3, <1>5 DEF l

(* A command that begins has all its steps to go.                          *)
LEMMA BegunFits ==
  ASSUME NEW S, NEW s \in S, s.steps \in Seq(Steps)
  PROVE  Begun(s) \in RunsOf(S) /\ Begun(s).script = s /\ Begun(s).left = s.steps
BY DEF Begun, RunsOf

(* The ratchet moves with every step but one that only asks the network.   *)
LEMMA RatchetFits ==
  ASSUME NEW r, NEW c \in ContentsType
  PROVE  /\ Ratchet(r, c) \in ContentsType /\ Ratchet(r, c).dev = c.dev
         /\ Head(r.left) = "net" => Ratchet(r, c) = c
         /\ Head(r.left) /= "net" => Ratchet(r, c).gen = c.gen + 1
BY DEF Ratchet, Used, ContentsType

(* What a step adds to the messages on the wire.                           *)
LEMMA SendingFits ==
  ASSUME world \in WorldRecs, NEW c \in ContentsType, NEW w \in BOOLEAN, Sending(c, w)
  PROVE  /\ world' \in WorldRecs /\ world'.devs = world.devs /\ world'.causes = world.causes
         /\ world'.acked = world.acked /\ world'.backup = world.backup
         /\ world'.sent = IF w THEN world.sent \cup {Sent(c)} ELSE world.sent
         /\ Sent(c).dev = c.dev /\ Sent(c).gen = c.gen + 1
<1>1. Sent(c) \in [dev : Nat, gen : Nat, n : Nat] /\ Sent(c).dev = c.dev /\ Sent(c).gen = c.gen + 1
  BY DEF Sent, ContentsType, WorldRecs
<1>2. CASE w
  <2> DEFINE r == world.sent \cup {Sent(c)}
             n == world.n + 1
  <2>1. r \in SUBSET [dev : Nat, gen : Nat, n : Nat] /\ n \in Nat
    BY <1>1 DEF WorldRecs
  <2>2. world' = [world EXCEPT !.sent = r, !.n = n]
    BY <1>2 DEF Sending
  <2>3. world' \in WorldRecs /\ world'.devs = world.devs /\ world'.causes = world.causes
        /\ world'.acked = world.acked /\ world'.backup = world.backup /\ world'.sent = r
    <3> HIDE DEF r, n
    <3> QED
      BY <2>1, <2>2 DEF WorldRecs
  <2> QED
    BY <1>1, <1>2, <2>3
<1>3. CASE ~w
  BY <1>1, <1>3 DEF Sending, WorldRecs
<1> QED
  BY <1>2, <1>3

(* What is in a copy of the account.                                       *)
LEMMA CopyHas ==
  ASSUME NEW a \in Copies
  PROVE  /\ a /= NoH /\ a.c \in ContentsType /\ a.key \in [pass : Passes, salt : Nat]
         /\ a.c.dev \in Nat /\ a.c.gen \in Nat /\ a = [key |-> a.key, c |-> a.c]
         /\ \A c \in ContentsType : [a EXCEPT !.c = c] \in Copies /\ [a EXCEPT !.c = c].c = c
BY HomeAssumption DEF Copies, ContentsType

(* A key and contents are a copy.                                          *)
LEMMA CopyIs ==
  ASSUME NEW k \in [pass : Passes, salt : Nat], NEW c \in ContentsType
  PROVE  [key |-> k, c |-> c] \in Copies /\ [key |-> k, c |-> c] /= NoH
BY HomeAssumption DEF Copies, ContentsType

(* What is on disk after a save.                                           *)
LEMMA WrittenFits ==
  ASSUME disk \in [HomeDirs -> DiskRecs], NEW h \in HomeDirs, NEW k \in [pass : Passes, salt : Nat],
         NEW c \in ContentsType
  PROVE  /\ Written(h, k, c) \in [HomeDirs -> DiskRecs]
         /\ Written(h, k, c)[h].vault = [key |-> k, c |-> c] /\ Written(h, k, c)[h].vault \in Copies
         /\ Written(h, k, c)[h].vault /= NoH
         /\ \A g \in HomeDirs : g /= h => Written(h, k, c)[g] = disk[g]
<1> DEFINE v == [key |-> k, c |-> c]
<1>1. v \in Copies /\ v /= NoH
  BY CopyIs
<1>2. Written(h, k, c) = [disk EXCEPT ![h].vault = v]
  BY DEF Written
<1> HIDE DEF v
<1>3. disk[h] \in DiskRecs
  OBVIOUS
<1>4. Written(h, k, c) \in [HomeDirs -> DiskRecs] /\ Written(h, k, c)[h].vault = v
  BY <1>1, <1>2, <1>3 DEF DiskRecs
<1>5. \A g \in HomeDirs : g /= h => Written(h, k, c)[g] = disk[g]
  BY <1>2
<1> QED
  BY <1>1, <1>4, <1>5 DEF v

(* What the books say after each kind of step.                             *)
LEMMA AfterCreation ==
  ASSUME Books, NEW h \in HomeDirs, NEW k, NEW c, c.dev = world.devs + 1, c.gen = 0,
         \A g \in HomeDirs : g /= h => disk'[g].vault = disk[g].vault,
         disk'[h].vault = [key |-> k, c |-> c], world'.devs = world.devs + 1,
         world'.causes = world.causes, world'.sent = world.sent, world'.acked = world.acked,
         NEW w, \/ Held' \subseteq {x \in Held : x.who /= w} \cup Hold(w, h, [key |-> k, c |-> c])
                \/ Held' \subseteq Held,
         Trails \subseteq Trails'
  PROVE  Books'
<1> DEFINE v == [key |-> k, c |-> c]
           y == VaultOf(h, v)
           z == Mark(w, h, v)
<1>1. /\ y.dev = world.devs + 1 /\ y.gen = 0 /\ y.home = h
      /\ z.who = w /\ z.home = y.home /\ z.dev = world.devs + 1 /\ z.gen = 0
  BY DEF VaultOf, Mark
<1>2. Kept(disk') \subseteq {x \in Kept(disk) : x.home /= y.home} \cup {y}
  <2>1. Kept(disk') \subseteq {x \in Kept(disk) : x.home /= h}
                                \cup (IF disk'[h].vault = NoH THEN {} ELSE {VaultOf(h, disk'[h].vault)})
    BY KeptChanges
  <2>2. VaultOf(h, disk'[h].vault) = y
    OBVIOUS
  <2> HIDE DEF y
  <2> QED
    BY <1>1, <2>1, <2>2
<1>3. Held' \subseteq {x \in Held : x.who /= w} \cup {z} \/ Held' \subseteq Held
  BY HoldIs
<1>4. Sound(Held, Kept(disk), Trails, world.devs, world.causes, world.sent, Told) /\ Told' = Told
  BY DEF Books, Told
<1> HIDE DEF y, z
<1>5. Sound(Held', Kept(disk'), Trails', world.devs + 1, world.causes, world.sent, Told)
  BY <1>1, <1>2, <1>3, <1>4, Creates
<1>6. Kept(disk)' = Kept(disk')
  BY DEF Kept
<1> QED
  BY <1>4, <1>5, <1>6 DEF Books

(* The books after a vault was opened.                                     *)
LEMMA AfterOpening ==
  ASSUME Books, HomeShape, NEW h \in HomeDirs, disk[h].vault /= NoH, disk' = disk,
         NEW w, NEW a, a.c = disk[h].vault.c, Held' \subseteq {x \in Held : x.who /= w} \cup Hold(w, h, a),
         Trails \subseteq Trails', world'.devs = world.devs, world'.causes = Causes(h),
         world'.sent = world.sent, world'.acked = world.acked
  PROVE  Books'
<1> DEFINE y == VaultOf(h, disk[h].vault)
           z == Mark(w, h, a)
<1>1. y \in Kept(disk) /\ z.who = w /\ z.home = y.home /\ z.dev = y.dev /\ z.gen = y.gen /\ y.home = h
  BY KeptHas DEF VaultOf, Mark
<1>2. Held' \subseteq {x \in Held : x.who /= w} \cup {z}
  BY HoldIs
<1>3. /\ world.causes \subseteq Causes(h)
      /\ (\E x \in Held : x.home = h) => "overlap" \in Causes(h)
  BY Alone DEF Causes
<1>4. (\A x \in Held : x.home /= h) => \A t \in Trails : t[1] /= h
  BY Alone
<1>5. Sound(Held, Kept(disk), Trails, world.devs, world.causes, world.sent, Told) /\ Told' = Told
  BY DEF Books, Told
<1> HIDE DEF y, z
<1>6. Sound(Held', Kept(disk), Trails', world.devs, Causes(h), world.sent, Told)
  BY <1>1, <1>2, <1>3, <1>4, <1>5, Reads
<1>7. Kept(disk)' = Kept(disk)
  BY DEF Kept
<1> QED
  BY <1>5, <1>6, <1>7 DEF Books

(* The books after a copy was saved.                                       *)
LEMMA AfterSaving ==
  ASSUME Books, NEW x \in Held, \A g \in HomeDirs : g /= x.home => disk'[g].vault = disk[g].vault,
         disk'[x.home].vault.c.dev = x.dev, disk'[x.home].vault.c.gen = x.gen,
         Held' \subseteq Held, world'.devs = world.devs, world.causes \subseteq world'.causes,
         world'.sent = world.sent,
         \A m \in Told' : m \in Told \/ (m.dev = x.dev /\ m.gen = x.gen),
         world'.causes /= {} \/ \A t \in Trails : t \in Trails' \/ t[1] = x.home
  PROVE  Books'
<1> DEFINE z == VaultOf(x.home, disk'[x.home].vault)
<1>1. z.home = x.home /\ z.dev = x.dev /\ z.gen = x.gen
  BY DEF VaultOf
<1>2. Kept(disk') \subseteq {y \in Kept(disk) : y.home /= x.home} \cup {z}
  BY KeptChanges
<1>3. Sound(Held, Kept(disk), Trails, world.devs, world.causes, world.sent, Told)
  BY DEF Books
<1> HIDE DEF z
<1>4. Sound(Held', Kept(disk'), Trails', world.devs, world'.causes, world.sent, Told')
  BY <1>1, <1>2, <1>3, SavesCopy
<1>5. Kept(disk)' = Kept(disk')
  BY DEF Kept
<1> QED
  BY <1>4, <1>5 DEF Books

(* The books after a step of a command.                                    *)
LEMMA AfterUse ==
  ASSUME Books, NEW x \in Held, NEW z, z.who = x.who, z.home = x.home, z.dev = x.dev,
         Held' \subseteq {y \in Held : y.who /= x.who} \cup {z}, Kept(disk') \subseteq Kept(disk),
         \/ z.gen = x.gen /\ world'.sent = world.sent
         \/ z.gen = x.gen + 1 /\ world'.sent = world.sent
         \/ /\ z.gen = x.gen + 1 /\ <<x.home, x.dev>> \in Trails
            /\ \E m : m.dev = x.dev /\ m.gen = x.gen + 1 /\ world'.sent = world.sent \cup {m},
         Trails \subseteq Trails', world'.devs = world.devs, world'.causes = world.causes,
         world'.acked = world.acked
  PROVE  Books'
<1>1. Sound(Held, Kept(disk), Trails, world.devs, world.causes, world.sent, Told) /\ Told' = Told
  BY DEF Books, Told
<1>2. Kept(disk') \in SUBSET Kept(disk) /\ Kept(disk)' = Kept(disk')
  BY DEF Kept
<1>3. Sound(Held, Kept(disk'), Trails, world.devs, world.causes, world.sent, Told)
  BY <1>1, <1>2, Loses
<1>4. z.gen = x.gen \/ z.gen = x.gen + 1
  OBVIOUS
<1>5. CASE world'.sent = world.sent
  <2> DEFINE m == [dev |-> x.dev, gen |-> x.gen + 1]
  <2>1. m.dev = x.dev /\ m.gen = x.gen + 1
    OBVIOUS
  <2> HIDE DEF m
  <2>2. Sound(Held', Kept(disk'), Trails', world.devs, world.causes, world.sent, Told)
    BY <1>3, <1>4, <2>1, Uses
  <2> QED
    BY <1>1, <1>2, <1>5, <2>2 DEF Books
<1>6. ASSUME z.gen = x.gen + 1, <<x.home, x.dev>> \in Trails, NEW m, m.dev = x.dev, m.gen = x.gen + 1,
             world'.sent = world.sent \cup {m}
      PROVE  Books'
  <2>1. Sound(Held', Kept(disk'), Trails', world.devs, world.causes, world.sent \cup {m}, Told)
    BY <1>3, <1>6, Uses
  <2> QED
    BY <1>1, <1>2, <1>6, <2>1 DEF Books
<1> QED
  BY <1>5, <1>6

----------------------------------------------------------------------------
(* The client.                                                             *)
LEMMA NewAccountFits ==
  ASSUME world \in WorldRecs, NEW full \in BOOLEAN
  PROVE  /\ NewAccount(full) \in ContentsType /\ NewAccount(full).dev = world.devs + 1
         /\ NewAccount(full).gen = 0
BY DEF NewAccount, Contents, ContentsType, WorldRecs

(* Counting a run leaves what the books read.                              *)
LEMMA RunFits ==
  ASSUME world \in WorldRecs
  PROVE  /\ \A s, d \in Nat : LET w == Run([world EXCEPT !.devs = d, !.salts = s])
                              IN  /\ w \in WorldRecs /\ w.devs = d /\ w.causes = world.causes
                                  /\ w.sent = world.sent /\ w.acked = world.acked
         /\ \A c \in SUBSET {"overlap", "crash", "signal"} :
              LET w == Run([world EXCEPT !.causes = c])
              IN  /\ w \in WorldRecs /\ w.devs = world.devs /\ w.causes = c
                  /\ w.sent = world.sent /\ w.acked = world.acked
         /\ Run(world) \in WorldRecs /\ Run(world).devs = world.devs /\ Run(world).causes = world.causes
         /\ Run(world).sent = world.sent /\ Run(world).acked = world.acked
<1>1. \A v \in WorldRecs : /\ Run(v) \in WorldRecs /\ Run(v).devs = v.devs /\ Run(v).causes = v.causes
                            /\ Run(v).sent = v.sent /\ Run(v).acked = v.acked
  BY DEF Run, WorldRecs
<1>2. ASSUME NEW s \in Nat, NEW d \in Nat
      PROVE  LET w == Run([world EXCEPT !.devs = d, !.salts = s])
             IN  /\ w \in WorldRecs /\ w.devs = d /\ w.causes = world.causes
                 /\ w.sent = world.sent /\ w.acked = world.acked
  <2> DEFINE v == [world EXCEPT !.devs = d, !.salts = s]
  <2>1. /\ v \in WorldRecs /\ v.devs = d /\ v.causes = world.causes
        /\ v.sent = world.sent /\ v.acked = world.acked
    BY DEF WorldRecs
  <2> HIDE DEF v
  <2>2. /\ Run(v) \in WorldRecs /\ Run(v).devs = d /\ Run(v).causes = world.causes
        /\ Run(v).sent = world.sent /\ Run(v).acked = world.acked
    BY <1>1, <2>1
  <2> QED
    BY <2>2 DEF v
<1>3. ASSUME NEW c \in SUBSET {"overlap", "crash", "signal"}
      PROVE  LET w == Run([world EXCEPT !.causes = c])
             IN  /\ w \in WorldRecs /\ w.devs = world.devs /\ w.causes = c
                 /\ w.sent = world.sent /\ w.acked = world.acked
  <2> DEFINE v == [world EXCEPT !.causes = c]
  <2>1. /\ v \in WorldRecs /\ v.devs = world.devs /\ v.causes = c
        /\ v.sent = world.sent /\ v.acked = world.acked
    BY DEF WorldRecs
  <2> HIDE DEF v
  <2>2. /\ Run(v) \in WorldRecs /\ Run(v).devs = world.devs /\ Run(v).causes = c
        /\ Run(v).sent = world.sent /\ Run(v).acked = world.acked
    BY <1>1, <2>1
  <2> QED
    BY <2>2 DEF v
<1>4. /\ Run(world) \in WorldRecs /\ Run(world).devs = world.devs /\ Run(world).causes = world.causes
      /\ Run(world).sent = world.sent /\ Run(world).acked = world.acked
  BY <1>1
<1> QED
  BY <1>2, <1>3, <1>4

(* identity: a new vault, in no program's memory.                          *)
LEMMA identityKeeps ==
  ASSUME HomeInv, NEW p \in Clis, NEW h \in HomeDirs, NEW pass \in Passes, NEW full \in BOOLEAN,
         identity(p, h, pass, full)
  PROVE  HomeInv'
<1> DEFINE k == Key(pass, world.salts + 1)
           c == NewAccount(full)
<1>1. HomeTypes /\ HomeShape /\ Books /\ world \in WorldRecs /\ disk \in [HomeDirs -> DiskRecs]
  BY DEF HomeInv, HomeTypes
<1>2. /\ disk' = Written(h, k, c) /\ UNCHANGED <<hsc, cli, app, calls>>
      /\ world' = Run([world EXCEPT !.devs = @ + 1, !.salts = @ + 1])
  BY DEF identity
<1>3. world.devs + 1 \in Nat /\ world.salts + 1 \in Nat
  BY <1>1 DEF WorldRecs
<1>4. /\ world' \in WorldRecs /\ world'.devs = world.devs + 1 /\ world'.causes = world.causes
      /\ world'.sent = world.sent /\ world'.acked = world.acked
  BY <1>1, <1>2, <1>3, RunFits
<1>5. k \in [pass : Passes, salt : Nat] /\ c \in ContentsType /\ c.dev = world.devs + 1 /\ c.gen = 0
  BY <1>1, <1>3, NewAccountFits DEF Key
<1> HIDE DEF k, c
<1>6. /\ disk' \in [HomeDirs -> DiskRecs] /\ disk'[h].vault = [key |-> k, c |-> c]
      /\ \A g \in HomeDirs : g /= h => disk'[g] = disk[g]
  BY <1>1, <1>2, <1>5, WrittenFits
<1>7. HomeTypes'
  BY <1>1, <1>2, <1>4, <1>6 DEF HomeTypes
<1>8. HomeShape'
  BY <1>1, <1>2 DEF HomeShape
<1>9. Held' = Held /\ Trails' = Trails
  BY <1>2 DEF Held, CliHeld, CallHeld, OneHeld, Trails
<1>10. Books'
  BY <1>1, <1>4, <1>5, <1>6, <1>9, AfterCreation
<1> QED
  BY <1>7, <1>8, <1>10 DEF HomeInv

(* An opened vault adds at most one cause.                                 *)
LEMMA CausesFit ==
  ASSUME world \in WorldRecs, NEW h
  PROVE  Causes(h) \in SUBSET {"overlap", "crash", "signal"} /\ world.causes \subseteq Causes(h)
BY DEF Causes, WorldRecs

(* CliOpen: a copy in the place of none.                                   *)
LEMMA CliOpenKeeps ==
  ASSUME HomeInv, NEW p \in Clis, NEW h \in HomeDirs, NEW s \in hsc.client, NEW pass \in Passes,
         CliOpen(p, h, s, pass)
  PROVE  HomeInv'
<1> DEFINE r == [pc |-> IF s.facade THEN "store" ELSE "run", home |-> h, run |-> Begun(s), acct |-> Copy(h)]
<1>1. HomeTypes /\ HomeShape /\ Books /\ world \in WorldRecs /\ disk \in [HomeDirs -> DiskRecs]
  BY DEF HomeInv, HomeTypes
<1>2. /\ cli[p].pc = "off" /\ disk[h].vault /= NoH
      /\ cli' = [cli EXCEPT ![p] = r]
      /\ world' = Run([world EXCEPT !.causes = Causes(h)])
      /\ UNCHANGED <<hsc, disk, app, calls>>
  BY DEF CliOpen, Opens
<1>3. /\ world' \in WorldRecs /\ world'.devs = world.devs /\ world'.causes = Causes(h)
      /\ world'.sent = world.sent /\ world'.acked = world.acked
  BY <1>1, <1>2, RunFits, CausesFit
<1>4. s \in ClientCommands
  BY <1>1 DEF HomeTypes
<1>5. Begun(s) \in RunsOf(ClientCommands) /\ Begun(s).script = s /\ Begun(s).left = s.steps
  BY <1>4, ClientDiscipline, BegunFits
<1>6. disk[h].vault \in Copies
  BY <1>1, <1>2 DEF DiskRecs
<1>7. Copy(h) \in Copies /\ Copy(h).c = disk[h].vault.c /\ Copy(h) /= NoH
  BY <1>6, CopyHas DEF Copy
<1>8. /\ r \in CliRecs /\ r.home = h /\ r.acct = Copy(h) /\ r.pc /= "off"
      /\ r.run.script.steps = r.run.left
  BY <1>5, <1>7 DEF CliRecs
<1> HIDE DEF r
<1>9. cli' \in [Clis -> CliRecs] /\ cli'[p] = r /\ \A q \in Clis : q /= p => cli'[q] = cli[q]
  BY <1>1, <1>2, <1>8 DEF HomeTypes
<1>10. HomeTypes'
  BY <1>1, <1>2, <1>3, <1>9 DEF HomeTypes
<1>11. HomeShape'
  BY <1>1, <1>2, <1>7, <1>8, <1>9 DEF HomeShape
<1>12. Held' \subseteq {x \in Held : x.who /= <<"cli", p>>} \cup Hold(<<"cli", p>>, h, Copy(h))
  BY <1>2, <1>8, <1>9, ClientMoves
<1>13. Trails \subseteq Trails'
  BY <1>2, <1>9, TrailsGrow
<1>14. Books'
  BY <1>1, <1>2, <1>3, <1>7, <1>12, <1>13, AfterOpening
<1> QED
  BY <1>10, <1>11, <1>14 DEF HomeInv

(* The books after copies were dropped.                                    *)
LEMMA AfterLoss ==
  ASSUME Books, Held' \subseteq Held, \A h \in HomeDirs : disk'[h].vault \in {NoH, disk[h].vault},
         world.causes \subseteq world'.causes, Trails \subseteq Trails' \/ world'.causes /= {},
         world'.devs = world.devs, world'.sent = world.sent, world'.acked = world.acked
  PROVE  Books'
<1>1. Sound(Held, Kept(disk), Trails, world.devs, world.causes, world.sent, Told) /\ Told' = Told
  BY DEF Books, Told
<1>2. Kept(disk') \subseteq Kept(disk) /\ Kept(disk)' = Kept(disk')
  BY KeptSame DEF Kept
<1>3. Sound(Held', Kept(disk'), Trails', world.devs, world'.causes, world.sent, Told)
  BY <1>1, <1>2, Loses
<1> QED
  BY <1>1, <1>2, <1>3 DEF Books

(* A run of the client that keeps its copy or drops it.                    *)
LEMMA ClientKeepsCopy ==
  ASSUME NEW p \in Clis, \A q \in Clis : q /= p => cli'[q] = cli[q], calls' = calls, app' = app,
         cli'[p].acct = NoH \/ (cli'[p].acct = cli[p].acct /\ cli'[p].home = cli[p].home)
  PROVE  Held' \subseteq Held
<1>1. Held' \subseteq {x \in Held : x.who /= <<"cli", p>>} \cup Hold(<<"cli", p>>, cli'[p].home, cli'[p].acct)
  BY ClientMoves
<1>2. Hold(<<"cli", p>>, cli'[p].home, cli'[p].acct) \subseteq Held
  BY HoldIs, HeldIs
<1> QED
  BY <1>1, <1>2

(* A client that does not run.                                             *)
LEMMA OffCliFits ==
  OffCli \in CliRecs /\ OffCli.pc = "off" /\ OffCli.acct = NoH /\ OffCli.run.left \in Quiet
<1>1. IdentityShow \in ClientCommands /\ IdentityShow.steps = << >> /\ IdentityShow.steps \in Seq(Steps)
  BY StepsAre DEF ClientCommands, IdentityShow, Keyed, Script
<1>2. Begun(IdentityShow) \in RunsOf(ClientCommands) /\ Begun(IdentityShow).left = << >>
  BY <1>1, BegunFits
<1> QED
  BY <1>2, StepsAre, HomeAssumption DEF OffCli, CliRecs

(* CliStore: the store is taken, or the copy is dropped before any use of  *)
(* it.                                                                     *)
LEMMA CliStoreKeeps ==
  ASSUME HomeInv, NEW p \in Clis, NEW peer \in BOOLEAN, CliStore(p, peer)
  PROVE  HomeInv'
<1>1. HomeTypes /\ HomeShape /\ Books /\ world \in WorldRecs /\ disk \in [HomeDirs -> DiskRecs]
  BY DEF HomeInv, HomeTypes
<1>2. cli[p] \in CliRecs /\ cli[p].home \in HomeDirs /\ cli[p].pc = "store" /\ cli[p].acct /= NoH
  BY <1>1 DEF HomeTypes, HomeShape, CliRecs, CliStore
<1>3. OffCli \in CliRecs /\ OffCli.pc = "off" /\ OffCli.acct = NoH /\ OffCli.run.left \in Quiet
  BY OffCliFits
<1>4. CASE /\ disk' = [disk EXCEPT ![cli[p].home].store = p]
           /\ cli' = [cli EXCEPT ![p].pc = "run"]
           /\ UNCHANGED <<hsc, app, calls, world>>
  <2>1. /\ disk' \in [HomeDirs -> DiskRecs]
        /\ \A h \in HomeDirs : disk'[h].vault = disk[h].vault
    BY <1>1, <1>2, <1>4 DEF DiskRecs
  <2>2. /\ cli' \in [Clis -> CliRecs] /\ \A q \in Clis : q /= p => cli'[q] = cli[q]
        /\ cli'[p] = [cli[p] EXCEPT !.pc = "run"]
    BY <1>1, <1>2, <1>4 DEF HomeTypes, CliRecs
  <2>3. /\ cli'[p].acct = cli[p].acct /\ cli'[p].home = cli[p].home /\ cli'[p].run = cli[p].run
        /\ cli'[p].pc = "run"
    BY <1>2, <2>2 DEF CliRecs
  <2>4. HomeTypes' /\ HomeShape'
    BY <1>1, <1>2, <1>4, <2>1, <2>2, <2>3 DEF HomeTypes, HomeShape
  <2>5. Held' \subseteq Held
    BY <1>4, <2>2, <2>3, ClientKeepsCopy
  <2>6. Trails \subseteq Trails'
    BY <1>2, <1>4, <2>2, TrailsGrow
  <2> QED
    BY <1>1, <1>4, <2>1, <2>4, <2>5, <2>6, AfterLoss DEF HomeInv
<1>5. CASE cli' = [cli EXCEPT ![p] = OffCli] /\ UNCHANGED <<hsc, disk, app, calls, world>>
  <2>1. /\ cli' \in [Clis -> CliRecs] /\ \A q \in Clis : q /= p => cli'[q] = cli[q]
        /\ cli'[p] = OffCli
    BY <1>1, <1>3, <1>5 DEF HomeTypes
  <2>2. HomeTypes' /\ HomeShape'
    BY <1>1, <1>3, <1>5, <2>1 DEF HomeTypes, HomeShape
  <2>3. Held' \subseteq Held
    BY <1>3, <1>5, <2>1, ClientKeepsCopy
  <2>4. Trails \subseteq Trails'
    BY <1>2, <1>5, <2>1, TrailsGrow
  <2> QED
    BY <1>1, <1>5, <2>2, <2>3, <2>4, AfterLoss DEF HomeInv
<1> QED
  BY <1>4, <1>5 DEF CliStore

(* CliStep: a run that moves the ratchet is one that will save.            *)
LEMMA CliStepKeeps ==
  ASSUME HomeInv, NEW p \in Clis, NEW o \in [wire : BOOLEAN, on : BOOLEAN], CliStep(p, o)
  PROVE  HomeInv'
<1> DEFINE r == cli[p].run
           a == cli[p].acct
           c == Ratchet(r, a.c)
           b == [a EXCEPT !.c = c]
           t == Stepped(r, o)
           h == cli[p].home
           w == <<"cli", p>>
           x == Mark(w, h, a)
           z == Mark(w, h, b)
<1>1. HomeTypes /\ HomeShape /\ Books /\ world \in WorldRecs /\ disk \in [HomeDirs -> DiskRecs]
  BY DEF HomeInv, HomeTypes
<1>2. /\ cli[p].pc = "run" /\ r.left /= << >> /\ o \in Outcomes(Head(r.left)) /\ Sending(a.c, o.wire)
      /\ UNCHANGED <<hsc, disk, app, calls>>
  BY DEF CliStep
<1>3. cli[p] \in CliRecs /\ h \in HomeDirs /\ a \in Copies /\ r \in RunsOf(ClientCommands)
  BY <1>1, <1>2 DEF HomeTypes, HomeShape, CliRecs
<1>4. cli' = [cli EXCEPT ![p] = [cli[p] EXCEPT !.run = t, !.acct = b]]
  BY DEF CliStep
<1>5. a.c \in ContentsType /\ a /= NoH /\ c \in ContentsType /\ b \in Copies /\ b.c = c /\ b /= NoH
  BY <1>3, CopyHas, RatchetFits
<1>6. /\ t \in RunsOf(ClientCommands) /\ t.script = r.script
      /\ r.left \in Quiet => t.left \in Quiet /\ Head(r.left) = "net"
  BY <1>2, <1>3, StepFits
<1>7. /\ c.dev = a.c.dev
      /\ Head(r.left) = "net" => c = a.c /\ ~o.wire
      /\ Head(r.left) /= "net" => c.gen = a.c.gen + 1 /\ Saver(r.script)
  <2>1. Head(r.left) = "net" => ~o.wire
    BY <1>2 DEF Outcomes
  <2>2. r.script \in ClientCommands
    BY <1>3 DEF RunsOf
  <2>3. Head(r.left) /= "net" => Saver(r.script)
    BY <1>1, <1>6, <2>2, ClientDiscipline DEF Saver, HomeShape
  <2> QED
    BY <1>5, <2>1, <2>3, RatchetFits
<1>8. /\ world' \in WorldRecs /\ world'.devs = world.devs /\ world'.causes = world.causes
      /\ world'.acked = world.acked
      /\ world'.sent = IF o.wire THEN world.sent \cup {Sent(a.c)} ELSE world.sent
      /\ Sent(a.c).dev = a.c.dev /\ Sent(a.c).gen = a.c.gen + 1
  BY <1>1, <1>2, <1>5, SendingFits
<1>9. x.who = w /\ x.home = h /\ x.dev = a.c.dev /\ x.gen = a.c.gen
  BY Whose
<1>10. z.who = w /\ z.home = h /\ z.dev = c.dev /\ z.gen = c.gen
  <2>1. b.c = c
    BY <1>5
  <2> HIDE DEF b, c
  <2> QED
    BY <2>1, Whose
<1>11. x \in Held
  BY <1>5, HeldIs
<1>12. [cli[p] EXCEPT !.run = t, !.acct = b] \in CliRecs
  BY <1>3, <1>5, <1>6 DEF CliRecs
<1>13. /\ cli' \in [Clis -> CliRecs] /\ \A q \in Clis : q /= p => cli'[q] = cli[q]
       /\ cli'[p].acct = b /\ cli'[p].run = t /\ cli'[p].home = h /\ cli'[p].pc = "run"
  <2> HIDE DEF t, b
  <2> QED
    BY <1>1, <1>2, <1>3, <1>4, <1>12 DEF HomeTypes, CliRecs
<1>14. HomeTypes'
  BY <1>1, <1>2, <1>8, <1>13 DEF HomeTypes
<1>15. HomeShape'
  BY <1>1, <1>2, <1>5, <1>6, <1>13 DEF HomeShape
<1>16. Held' \subseteq {y \in Held : y.who /= w} \cup {z}
  BY <1>2, <1>5, <1>13, ClientMoves, HoldIs
<1>17. Trails \subseteq Trails'
  BY <1>2, <1>5, <1>6, <1>7, <1>13, TrailsGrow
<1>18. Head(r.left) /= "net" => <<x.home, x.dev>> \in Trails
  BY <1>2, <1>5, <1>7, <1>9 DEF Trails
<1>19. Books'
  <2>1. Kept(disk') \subseteq Kept(disk)
    BY <1>2
  <2> DEFINE m == Sent(a.c)
  <2>2. m.dev = x.dev /\ m.gen = x.gen + 1
    BY <1>8, <1>9
  <2>3. z.who = x.who /\ z.home = x.home /\ z.dev = x.dev
    BY <1>7, <1>9, <1>10
  <2>4. CASE Head(r.left) = "net"
    <3>1. z.gen = x.gen /\ world'.sent = world.sent
      BY <1>7, <1>8, <1>9, <1>10, <2>4
    <3> HIDE DEF x, z, w
    <3> QED
      BY <1>1, <1>8, <1>9, <1>11, <1>16, <1>17, <2>1, <2>3, <3>1, AfterUse
  <2>5. CASE Head(r.left) /= "net"
    <3>1. z.gen = x.gen + 1 /\ <<x.home, x.dev>> \in Trails
      BY <1>7, <1>9, <1>10, <1>18, <2>5
    <3>2. world'.sent = world.sent \/ world'.sent = world.sent \cup {m}
      BY <1>8
    <3> HIDE DEF x, z, w, m
    <3> QED
      BY <1>1, <1>8, <1>9, <1>11, <1>16, <1>17, <2>1, <2>2, <2>3, <3>1, <3>2, AfterUse
  <2> QED
    BY <2>4, <2>5
<1> QED
  BY <1>14, <1>15, <1>19 DEF HomeInv

(* What a command tells the user, and when it tells nothing.               *)
LEMMA AckedIs ==
  ASSUME world \in WorldRecs, NEW c \in ContentsType, NEW r, r.script \in DesktopCommands \cup ClientCommands
  PROVE  /\ Acked(r, c) \in SUBSET [script : DesktopCommands \cup ClientCommands, dev : Nat, gen : Nat]
         /\ \A m \in Acked(r, c) : \/ m \in world.acked
                                   \/ m.dev = c.dev /\ m.gen = c.gen /\ m.script = r.script /\ Succeeds(r)
         /\ r.script.steps \in Quiet => Acked(r, c) = world.acked
         /\ world.acked \subseteq Acked(r, c)
<1> DEFINE N == {[script |-> s, dev |-> c.dev, gen |-> c.gen] :
                   s \in {t \in {r.script} : Succeeds(r) /\ \E i \in DOMAIN t.steps : t.steps[i] /= "net"}}
<1>1. Acked(r, c) = world.acked \cup N
  BY DEF Acked
<1>2. \A m \in N : /\ m.dev = c.dev /\ m.gen = c.gen /\ m.script = r.script /\ Succeeds(r)
                   /\ m \in [script : DesktopCommands \cup ClientCommands, dev : Nat, gen : Nat]
                   /\ \E i \in DOMAIN r.script.steps : r.script.steps[i] /= "net"
  BY DEF ContentsType
<1>3. r.script.steps \in Quiet => \A i \in DOMAIN r.script.steps : r.script.steps[i] = "net"
  BY DEF Quiet
<1>4. r.script.steps \in Quiet => N = {}
  BY <1>2, <1>3
<1>5. world.acked \in SUBSET [script : DesktopCommands \cup ClientCommands, dev : Nat, gen : Nat]
  BY DEF WorldRecs
<1> HIDE DEF N
<1> QED
  BY <1>1, <1>2, <1>4, <1>5

(* CliEnd: the copy is saved and dropped, or the loss has its cause.       *)
LEMMA CliEndKeeps ==
  ASSUME HomeInv, NEW p \in Clis, CliEnd(p)
  PROVE  HomeInv'
<1> DEFINE r == cli[p].run
           a == cli[p].acct
           h == cli[p].home
           w == <<"cli", p>>
           x == Mark(w, h, a)
           d == IF Saves(r) THEN Written(h, a.key, a.c) ELSE disk
           k == Acked(r, a.c)
           e == IF r.script = CallSignal /\ ~r.ok THEN world.causes \cup {"signal"} ELSE world.causes
<1>1. HomeTypes /\ HomeShape /\ Books /\ world \in WorldRecs /\ disk \in [HomeDirs -> DiskRecs]
  BY DEF HomeInv, HomeTypes
<1>2. /\ cli[p].pc = "run" /\ cli' = [cli EXCEPT ![p] = OffCli] /\ UNCHANGED <<hsc, app, calls>>
      /\ disk' = [d EXCEPT ![h].store = IF @ = p THEN NoH ELSE @]
      /\ world' = [world EXCEPT !.acked = k, !.causes = e]
  BY DEF CliEnd
<1>3. cli[p] \in CliRecs /\ h \in HomeDirs /\ a \in Copies /\ r \in RunsOf(ClientCommands)
  BY <1>1, <1>2 DEF HomeTypes, HomeShape, CliRecs
<1>4. a.c \in ContentsType /\ a /= NoH /\ a.key \in [pass : Passes, salt : Nat] /\ r.script \in ClientCommands
  BY <1>3, CopyHas DEF RunsOf
<1>5. /\ d \in [HomeDirs -> DiskRecs] /\ \A g \in HomeDirs : g /= h => d[g] = disk[g]
      /\ Saves(r) => d[h].vault = [key |-> a.key, c |-> a.c]
      /\ ~Saves(r) => d = disk
  BY <1>1, <1>3, <1>4, WrittenFits
<1>6. /\ k \in SUBSET [script : DesktopCommands \cup ClientCommands, dev : Nat, gen : Nat]
      /\ \A m \in k : m \in world.acked \/ (m.dev = a.c.dev /\ m.gen = a.c.gen /\ m.script = r.script /\ Succeeds(r))
      /\ r.script.steps \in Quiet => k = world.acked
      /\ world.acked \subseteq k
  BY <1>1, <1>4, AckedIs
<1>7. e \in SUBSET {"overlap", "crash", "signal"} /\ world.causes \subseteq e
  BY <1>1 DEF WorldRecs
<1>8. x \in Held /\ x.home = h /\ x.dev = a.c.dev /\ x.gen = a.c.gen
  BY <1>4, HeldIs, Whose
<1>9. \/ Saves(r)
      \/ k = world.acked /\ ~Saver(r.script)
      \/ k = world.acked /\ e /= {}
  <2>1. CASE r.script.save = "always"
    BY <2>1 DEF Saves
  <2>2. CASE r.script = CallSignal /\ r.ok
    BY <2>2 DEF Saves, Succeeds, CallSignal, Direct, Script
  <2>3. CASE r.script = CallSignal /\ ~r.ok
    <3>1. e /= {} /\ ~Succeeds(r)
      BY <2>3 DEF Succeeds
    <3> QED
      BY <1>6, <3>1
  <2>4. CASE ~Saver(r.script)
    BY <1>4, <1>6, <2>4, ClientDiscipline DEF Saver
  <2> QED
    BY <2>1, <2>2, <2>3, <2>4 DEF Saver
<1> HIDE DEF d, k, e, x
<1>10. /\ disk' \in [HomeDirs -> DiskRecs] /\ \A g \in HomeDirs : disk'[g].vault = d[g].vault
  BY <1>2, <1>3, <1>5 DEF DiskRecs
<1>11. /\ world' \in WorldRecs /\ world'.devs = world.devs /\ world'.causes = e
       /\ world'.sent = world.sent /\ world'.acked = k
  BY <1>1, <1>2, <1>6, <1>7 DEF WorldRecs
<1>12. /\ cli' \in [Clis -> CliRecs] /\ \A q \in Clis : q /= p => cli'[q] = cli[q]
       /\ cli'[p] = OffCli
  BY <1>1, <1>2, OffCliFits DEF HomeTypes
<1>13. HomeTypes' /\ HomeShape'
  BY <1>1, <1>2, <1>10, <1>11, <1>12, OffCliFits DEF HomeTypes, HomeShape
<1>14. Held' \subseteq Held
  BY <1>2, <1>12, OffCliFits, ClientKeepsCopy
<1>15. \A t \in Trails : t \in Trails' \/ (t[1] = h /\ Saver(r.script))
  <2> SUFFICES ASSUME NEW t \in Trails PROVE t \in Trails' \/ (t[1] = h /\ Saver(r.script))
    OBVIOUS
  <2>1. CASE app.one /= NoH /\ t \in {AppHome} \X Nat
    BY <1>2, <2>1 DEF Trails
  <2>2. ASSUME NEW q \in Clis, cli[q].acct /= NoH, cli[q].pc = "run", Saver(cli[q].run.script),
               t = <<cli[q].home, cli[q].acct.c.dev>>
        PROVE  t \in Trails' \/ (t[1] = h /\ Saver(r.script))
    <3>1. CASE q = p
      BY <2>2, <3>1
    <3>2. CASE q /= p
      BY <1>12, <2>2, <3>2 DEF Trails
    <3> QED
      BY <3>1, <3>2
  <2> QED
    BY <2>1, <2>2 DEF Trails
<1>16. Books'
  <2>1. CASE Saves(r)
    <3>1. /\ disk'[h].vault.c = a.c
          /\ \A g \in HomeDirs : g /= h => disk'[g].vault = disk[g].vault
      BY <1>3, <1>5, <1>10, <2>1
    <3>2. \A m \in Told' : m \in Told \/ (m.dev = x.dev /\ m.gen = x.gen)
      BY <1>6, <1>8, <1>11 DEF Told
    <3> QED
      BY <1>1, <1>7, <1>8, <1>11, <1>14, <1>15, <3>1, <3>2, AfterSaving
  <2>2. CASE ~Saves(r)
    <3>1. \A g \in HomeDirs : disk'[g].vault = disk[g].vault
      BY <1>5, <1>10, <2>2
    <3>2. k = world.acked /\ (Trails \subseteq Trails' \/ e /= {})
      BY <1>9, <1>15, <2>2
    <3> QED
      BY <1>1, <1>7, <1>11, <1>14, <3>1, <3>2, AfterLoss
  <2> QED
    BY <2>1, <2>2
<1> QED
  BY <1>13, <1>16 DEF HomeInv

(* CliCrash: the copy is gone, and the crash is remembered.                *)
LEMMA CliCrashKeeps ==
  ASSUME HomeInv, NEW p \in Clis, CliCrash(p)
  PROVE  HomeInv'
<1> DEFINE e == world.causes \cup {"crash"}
<1>1. HomeTypes /\ HomeShape /\ Books /\ world \in WorldRecs /\ disk \in [HomeDirs -> DiskRecs]
  BY DEF HomeInv, HomeTypes
<1>2. /\ cli' = [cli EXCEPT ![p] = OffCli] /\ UNCHANGED <<hsc, app, calls>>
      /\ disk' = [disk EXCEPT ![cli[p].home].store = IF @ = p THEN NoH ELSE @]
      /\ world' = [world EXCEPT !.causes = e]
  BY DEF CliCrash
<1>3. e \in SUBSET {"overlap", "crash", "signal"} /\ world.causes \subseteq e /\ e /= {}
  BY <1>1 DEF WorldRecs
<1>4. cli[p].home \in HomeDirs
  BY <1>1 DEF HomeTypes, CliRecs
<1> HIDE DEF e
<1>5. disk' \in [HomeDirs -> DiskRecs] /\ \A g \in HomeDirs : disk'[g].vault = disk[g].vault
  BY <1>1, <1>2, <1>4 DEF DiskRecs
<1>6. /\ world' \in WorldRecs /\ world'.devs = world.devs /\ world'.causes = e
      /\ world'.sent = world.sent /\ world'.acked = world.acked
  BY <1>1, <1>2, <1>3 DEF WorldRecs
<1>7. /\ cli' \in [Clis -> CliRecs] /\ \A q \in Clis : q /= p => cli'[q] = cli[q]
      /\ cli'[p] = OffCli
  BY <1>1, <1>2, OffCliFits DEF HomeTypes
<1>8. HomeTypes' /\ HomeShape'
  BY <1>1, <1>2, <1>5, <1>6, <1>7, OffCliFits DEF HomeTypes, HomeShape
<1>9. Held' \subseteq Held
  BY <1>2, <1>7, OffCliFits, ClientKeepsCopy
<1>10. Books'
  BY <1>1, <1>3, <1>5, <1>6, <1>9, AfterLoss
<1> QED
  BY <1>8, <1>10 DEF HomeInv

----------------------------------------------------------------------------
(* The desktop app.                                                        *)
LEMMA IdleFits ==
  /\ IdleCall \in CallRecs /\ IdleCall.pc = "idle" /\ IdleCall.acct = NoH
  /\ LockedApp \in AppRecs /\ LockedApp.one = NoH /\ LockedApp.mutex = NoH
<1>1. mail_read_mark \in DesktopCommands /\ mail_read_mark.steps \in Seq(Steps)
  BY StepsAre DEF DesktopCommands, mail_read_mark, Unsaved, Script
<1>2. /\ Begun(mail_read_mark) \in RunsOf(DesktopCommands)
      /\ Begun(mail_read_mark) \in RunsOf(DesktopCommands \cup {SyncRound})
  BY <1>1, BegunFits
<1> QED
  BY <1>2 DEF IdleCall, LockedApp, CallRecs, AppRecs

(* The types and the shape after a call's step.                            *)
LEMMA CallStep ==
  ASSUME HomeTypes, HomeShape, NEW k \in CallIds, NEW r \in CallRecs, calls' = [calls EXCEPT ![k] = r],
         r.acct /= NoH <=> r.pc \in Holding, r.pc \in {"reread", "rewrite"} => r.new \in Passes \X Passes,
         r.pc = "command" => app'.mutex = k, app' \in AppRecs, app'.mutex /= NoH => app'.one /= NoH,
         \A j \in CallIds : j /= k /\ calls[j].pc = "command" => app'.mutex = j,
         cli' = cli, hsc' = hsc, disk' \in [HomeDirs -> DiskRecs], world' \in WorldRecs
  PROVE  /\ HomeTypes' /\ HomeShape' /\ calls'[k] = r
         /\ \A j \in CallIds : j /= k => calls'[j] = calls[j]
<1>1. /\ calls' \in [CallIds -> CallRecs] /\ calls'[k] = r
      /\ \A j \in CallIds : j /= k => calls'[j] = calls[j]
  BY DEF HomeTypes
<1>2. HomeTypes'
  BY <1>1 DEF HomeTypes
<1>3. HomeShape'
  BY <1>1 DEF HomeShape
<1> QED
  BY <1>1, <1>2, <1>3

(* The types and the shape after a step of the app that no call takes.     *)
LEMMA AppStep ==
  ASSUME HomeTypes, HomeShape, app' \in AppRecs, app'.mutex /= NoH => app'.one /= NoH,
         \A j \in CallIds : calls[j].pc = "command" => app'.mutex = j,
         calls' = calls, cli' = cli, hsc' = hsc, disk' \in [HomeDirs -> DiskRecs], world' \in WorldRecs
  PROVE  HomeTypes' /\ HomeShape'
<1>1. HomeTypes'
  BY DEF HomeTypes
<1>2. HomeShape'
  BY DEF HomeShape
<1> QED
  BY <1>1, <1>2

(* The lock is free, or a call has it: no other call is in a command.      *)
LEMMA LockHeld ==
  ASSUME HomeTypes, HomeShape, NEW k \in CallIds, calls[k].pc = "command"
  PROVE  /\ app.mutex = k /\ k /= NoH /\ k /= "sync" /\ app.one \in Copies
         /\ \A j \in CallIds : calls[j].pc = "command" => j = k
BY HomeAssumption DEF HomeTypes, HomeShape, AppRecs

(* While no call has the lock, none is in a command.                       *)
LEMMA LockFree ==
  ASSUME HomeTypes, HomeShape, app.mutex = NoH \/ app.mutex = "sync"
  PROVE  \A j \in CallIds : calls[j].pc /= "command"
BY HomeAssumption DEF HomeTypes, HomeShape, AppRecs

(* Steps that touch no copy and no call.                                   *)
LEMMA FlagsKeep ==
  ASSUME HomeInv,
         \/ onboarding_generate \/ touch \/ GoIdle \/ SyncStop \/ hello_disable \/ wipe_local_data
         \/ \E s \in {SyncRound, flush_queue} : SyncTake(s)
         \/ \E k \in CallIds, pass \in Passes : hello_enable(k, pass)
  PROVE  HomeInv'
<1>1. /\ HomeTypes /\ HomeShape /\ Books /\ world \in WorldRecs /\ disk \in [HomeDirs -> DiskRecs]
      /\ app \in AppRecs /\ AppHome \in HomeDirs
  BY HomeAssumption DEF HomeInv, HomeTypes
<1>2. /\ Run(world) \in WorldRecs /\ Run(world).devs = world.devs /\ Run(world).causes = world.causes
      /\ Run(world).sent = world.sent /\ Run(world).acked = world.acked
  BY <1>1, RunFits
<1>3. /\ hsc' = hsc /\ cli' = cli /\ calls' = calls
      /\ world' \in {world, Run(world)}
  BY DEF onboarding_generate, touch, GoIdle, SyncStop, hello_disable, wipe_local_data, SyncTake, hello_enable
<1>4. /\ world' \in WorldRecs /\ world'.devs = world.devs /\ world'.causes = world.causes
      /\ world'.sent = world.sent /\ world'.acked = world.acked
  BY <1>1, <1>2, <1>3
<1>5. /\ disk' \in [HomeDirs -> DiskRecs]
      /\ \A h \in HomeDirs : disk'[h].vault \in {NoH, disk[h].vault}
  <2>1. CASE disk' = disk
    BY <1>1, <2>1
  <2>2. CASE hello_disable
    BY <1>1, <2>2 DEF hello_disable, DiskRecs
  <2>3. CASE wipe_local_data
    BY <1>1, <2>3 DEF wipe_local_data, DiskRecs
  <2>4. ASSUME NEW k \in CallIds, NEW pass \in Passes, hello_enable(k, pass)
        PROVE  /\ disk' \in [HomeDirs -> DiskRecs]
               /\ \A h \in HomeDirs : disk'[h].vault \in {NoH, disk[h].vault}
    BY <1>1, <2>4 DEF hello_enable, DiskRecs
  <2> QED
    BY <2>1, <2>2, <2>3, <2>4 DEF onboarding_generate, touch, GoIdle, SyncStop, SyncTake
<1>6. /\ app' \in AppRecs /\ app'.one = app.one
      /\ \/ app'.mutex = app.mutex
         \/ app.mutex = NoH /\ app.one /= NoH
  <2>1. CASE app' = app
    BY <1>1, <2>1
  <2>2. CASE onboarding_generate \/ touch \/ GoIdle \/ SyncStop
    BY <1>1, <2>2 DEF onboarding_generate, touch, GoIdle, SyncStop, AppRecs
  <2>3. ASSUME NEW s \in {SyncRound, flush_queue}, SyncTake(s)
        PROVE  app' \in AppRecs /\ app'.one = app.one /\ app.mutex = NoH /\ app.one /= NoH
    <3>1. flush_queue \in DesktopCommands
      BY DEF DesktopCommands
    <3>2. s \in DesktopCommands \cup {SyncRound} /\ s.steps \in Seq(Steps)
      <4>1. SyncRound.steps \in Seq(Steps)
        BY StepsAre DEF SyncRound, Script
      <4>2. flush_queue.steps \in Seq(Steps)
        BY <3>1, DesktopDiscipline
      <4> QED
        BY <3>1, <4>1, <4>2
    <3>3. Begun(s) \in RunsOf(DesktopCommands \cup {SyncRound})
      BY <3>2, BegunFits
    <3> QED
      BY <1>1, <2>3, <3>3 DEF SyncTake, AppRecs
  <2> QED
    BY <2>1, <2>2, <2>3 DEF hello_disable, wipe_local_data, hello_enable
<1>7. HomeTypes' /\ HomeShape'
  <2>1. app'.mutex /= NoH => app'.one /= NoH
    BY <1>1, <1>6 DEF HomeShape
  <2>2. \A j \in CallIds : calls[j].pc = "command" => app'.mutex = j
    BY <1>1, <1>6, LockFree DEF HomeShape
  <2> QED
    BY <1>1, <1>3, <1>4, <1>5, <1>6, <2>1, <2>2, AppStep
<1>8. Books'
  BY <1>1, <1>3, <1>4, <1>5, <1>6, Stands
<1> QED
  BY <1>7, <1>8 DEF HomeInv

(* Calls that hold no copy, and a copy that a call drops.                  *)
LEMMA CallsKeep ==
  ASSUME HomeInv, NEW k \in CallIds,
         \/ \E pass \in Passes : unlock(k, pass)
         \/ lock(k) \/ auto_lock(k) \/ AbortSync(k) \/ ClearSession(k) \/ SetSession(k) \/ with_link(k)
         \/ \E s \in hsc.desktop : Command(k, s)
  PROVE  HomeInv'
<1> DEFINE c == calls[k]
<1>1. /\ HomeTypes /\ HomeShape /\ Books /\ world \in WorldRecs /\ disk \in [HomeDirs -> DiskRecs]
      /\ app \in AppRecs /\ AppHome \in HomeDirs /\ c \in CallRecs /\ calls \in [CallIds -> CallRecs]
  BY HomeAssumption DEF HomeInv, HomeTypes
<1>2. /\ Run(world) \in WorldRecs /\ Run(world).devs = world.devs /\ Run(world).causes = world.causes
      /\ Run(world).sent = world.sent /\ Run(world).acked = world.acked
  BY <1>1, RunFits
<1>3. c.pc \notin Holding => c.acct = NoH
  BY <1>1 DEF HomeShape
<1>4. /\ hsc' = hsc /\ cli' = cli /\ world' \in {world, Run(world)}
      /\ disk' = disk \/ disk' = [disk EXCEPT ![AppHome].store = "app"]
  BY DEF unlock, lock, auto_lock, AbortSync, ClearSession, SetSession, with_link, Command
<1>5. /\ world' \in WorldRecs /\ world'.devs = world.devs /\ world'.causes = world.causes
      /\ world'.sent = world.sent /\ world'.acked = world.acked
  BY <1>1, <1>2, <1>4
<1>6. /\ disk' \in [HomeDirs -> DiskRecs]
      /\ \A h \in HomeDirs : disk'[h].vault = disk[h].vault
  BY <1>1, <1>4 DEF DiskRecs
<1>7. ASSUME NEW r \in CallRecs, calls' = [calls EXCEPT ![k] = r], r.acct = NoH \/ r.acct = c.acct,
             r.acct /= NoH <=> r.pc \in Holding, r.pc \notin {"reread", "rewrite"},
             r.pc = "command" => app'.mutex = k, app' \in AppRecs, app'.one = app.one,
             \/ app'.mutex = app.mutex
             \/ app.mutex = NoH /\ app.one /= NoH
             \/ app.mutex = "sync" /\ app'.mutex = NoH
      PROVE  HomeInv'
  <2>1. app'.mutex /= NoH => app'.one /= NoH
    BY <1>1, <1>7 DEF HomeShape
  <2>2. \A j \in CallIds : j /= k /\ calls[j].pc = "command" => app'.mutex = j
    BY <1>1, <1>7, LockFree DEF HomeShape
  <2>3. /\ HomeTypes' /\ HomeShape' /\ calls'[k] = r
        /\ \A j \in CallIds : j /= k => calls'[j] = calls[j]
    BY <1>1, <1>4, <1>5, <1>6, <1>7, <2>1, <2>2, CallStep
  <2>4. \A j \in CallIds : calls'[j].acct \in {NoH, calls[j].acct}
    BY <1>7, <2>3
  <2>5. Books'
    BY <1>1, <1>4, <1>5, <1>6, <1>7, <2>4, Stands
  <2> QED
    BY <2>3, <2>5 DEF HomeInv
<1>8. ASSUME NEW pass \in Passes, unlock(k, pass) PROVE HomeInv'
  <2> DEFINE r == [c EXCEPT !.pc = "open", !.pass = pass]
  <2>1. c.pc = "idle" /\ app' = app /\ calls' = [calls EXCEPT ![k] = r]
    BY <1>8 DEF unlock, Calls
  <2>2. r \in CallRecs /\ r.acct = c.acct /\ r.pc = "open"
    BY <1>1 DEF CallRecs
  <2>3. c.acct = NoH
    BY <1>3, <2>1 DEF Holding
  <2> HIDE DEF r
  <2> QED
    BY <1>1, <1>7, <2>1, <2>2, <2>3 DEF Holding
<1>9. CASE lock(k) \/ auto_lock(k)
  <2> DEFINE r == [c EXCEPT !.pc = "abort"]
  <2>1. c.pc = "idle" /\ app' = app /\ calls' = [calls EXCEPT ![k] = r]
    BY <1>9 DEF lock, auto_lock, Calls
  <2>2. r \in CallRecs /\ r.acct = c.acct /\ r.pc = "abort"
    BY <1>1 DEF CallRecs
  <2>3. c.acct = NoH
    BY <1>3, <2>1 DEF Holding
  <2> HIDE DEF r
  <2> QED
    BY <1>1, <1>7, <2>1, <2>2, <2>3 DEF Holding
<1>10. CASE AbortSync(k)
  <2> DEFINE r == [c EXCEPT !.pc = "drop"]
  <2>1. /\ c.pc = "abort" /\ calls' = [calls EXCEPT ![k] = r]
        /\ app' = [app EXCEPT !.loop = FALSE, !.mutex = IF @ = "sync" THEN NoH ELSE @]
    BY <1>10 DEF AbortSync
  <2>2. r \in CallRecs /\ r.acct = c.acct /\ r.pc = "drop"
    BY <1>1 DEF CallRecs
  <2>3. c.acct = NoH
    BY <1>3, <2>1 DEF Holding
  <2>4. /\ app' \in AppRecs /\ app'.one = app.one
        /\ app'.mutex = app.mutex \/ (app.mutex = "sync" /\ app'.mutex = NoH)
    BY <1>1, <2>1 DEF AppRecs
  <2> HIDE DEF r
  <2> QED
    BY <1>7, <2>1, <2>2, <2>3, <2>4 DEF Holding
<1>11. CASE ClearSession(k) \/ SetSession(k)
  <2>1. calls' = [calls EXCEPT ![k] = IdleCall]
    BY <1>11 DEF ClearSession, SetSession, Return
  <2>2. app' \in AppRecs /\ app'.one = app.one /\ app'.mutex = app.mutex
    <3>1. (app.one /= NoH) \in BOOLEAN
      OBVIOUS
    <3> QED
      BY <1>1, <1>11, <3>1 DEF ClearSession, SetSession, AppRecs
  <2> QED
    BY <1>7, <2>1, <2>2, IdleFits DEF Holding
<1>12. CASE with_link(k)
  <2>1. c.pc = "build" /\ app' = app
    BY <1>12 DEF with_link
  <2>2. CASE calls' = [calls EXCEPT ![k].pc = "one"]
    <3> DEFINE r == [c EXCEPT !.pc = "one"]
    <3>1. r \in CallRecs /\ r.acct = c.acct /\ r.pc = "one" /\ calls' = [calls EXCEPT ![k] = r]
      BY <1>1, <2>2 DEF CallRecs, Holding
    <3>2. c.acct /= NoH
      BY <1>1, <2>1 DEF HomeShape, Holding
    <3> HIDE DEF r
    <3> QED
      BY <1>1, <1>7, <2>1, <3>1, <3>2 DEF Holding
  <2>3. CASE calls' = [calls EXCEPT ![k] = IdleCall]
    BY <1>1, <1>7, <2>1, <2>3, IdleFits DEF Holding
  <2> QED
    BY <1>12, <2>2, <2>3 DEF with_link, Return
<1>13. ASSUME NEW s \in hsc.desktop, Command(k, s) PROVE HomeInv'
  <2> DEFINE r == [c EXCEPT !.pc = "command", !.run = Begun(s)]
  <2>1. /\ c.pc = "idle" /\ calls' = [calls EXCEPT ![k] = r] /\ app' = [app EXCEPT !.mutex = k]
        /\ app.mutex = NoH /\ app.one /= NoH
    BY <1>13 DEF Command, Calls
  <2>2. s \in DesktopCommands
    BY <1>1 DEF HomeTypes
  <2>3. Begun(s) \in RunsOf(DesktopCommands)
    BY <2>2, DesktopDiscipline, BegunFits
  <2>4. r \in CallRecs /\ r.acct = c.acct /\ r.pc = "command"
    BY <1>1, <2>3 DEF CallRecs
  <2>5. c.acct = NoH
    BY <1>3, <2>1 DEF Holding
  <2>6. app' \in AppRecs /\ app'.one = app.one /\ app'.mutex = k
    BY <1>1, <2>1 DEF AppRecs
  <2> HIDE DEF r
  <2> QED
    BY <1>7, <2>1, <2>4, <2>5, <2>6 DEF Holding
<1> QED
  BY <1>8, <1>9, <1>10, <1>11, <1>12, <1>13

(* A new vault, opened by the call that made it.                           *)
LEMMA OnboardKeeps ==
  ASSUME HomeInv, NEW k \in CallIds, calls[k].pc = "idle", NEW pass \in Passes, NEW full \in BOOLEAN,
         Onboard(k, pass, NewAccount(full)), hsc' = hsc, cli' = cli,
         app' = app \/ app' = [app EXCEPT !.words = FALSE]
  PROVE  HomeInv'
<1> DEFINE key == Key(pass, world.salts + 1)
           c == NewAccount(full)
           a == [key |-> key, c |-> c]
           r == [calls[k] EXCEPT !.pc = "key", !.acct = a]
<1>1. /\ HomeTypes /\ HomeShape /\ Books /\ world \in WorldRecs /\ disk \in [HomeDirs -> DiskRecs]
      /\ app \in AppRecs /\ AppHome \in HomeDirs /\ calls[k] \in CallRecs /\ calls \in [CallIds -> CallRecs]
  BY HomeAssumption DEF HomeInv, HomeTypes
<1>2. /\ disk' = Written(AppHome, key, c) /\ calls' = [calls EXCEPT ![k] = r]
      /\ world' = Run([world EXCEPT !.devs = @ + 1, !.salts = @ + 1])
  BY DEF Onboard, Call
<1>3. world.devs + 1 \in Nat /\ world.salts + 1 \in Nat
  BY <1>1 DEF WorldRecs
<1>4. /\ world' \in WorldRecs /\ world'.devs = world.devs + 1 /\ world'.causes = world.causes
      /\ world'.sent = world.sent /\ world'.acked = world.acked
  BY <1>1, <1>2, <1>3, RunFits
<1>5. key \in [pass : Passes, salt : Nat] /\ c \in ContentsType /\ c.dev = world.devs + 1 /\ c.gen = 0
  BY <1>1, <1>3, NewAccountFits DEF Key
<1> HIDE DEF key, c
<1>6. /\ disk' \in [HomeDirs -> DiskRecs] /\ disk'[AppHome].vault = a
      /\ \A g \in HomeDirs : g /= AppHome => disk'[g] = disk[g]
  BY <1>1, <1>2, <1>5, WrittenFits
<1>7. a \in Copies /\ a /= NoH /\ a.c = c
  BY <1>5, CopyIs
<1> HIDE DEF a
<1>8. r \in CallRecs /\ r.acct = a /\ r.pc = "key"
  BY <1>1, <1>7 DEF CallRecs, Holding
<1> HIDE DEF r
<1>9. app' \in AppRecs /\ app'.one = app.one /\ app'.mutex = app.mutex
  BY <1>1 DEF AppRecs
<1>10. /\ HomeTypes' /\ HomeShape' /\ calls'[k] = r
       /\ \A j \in CallIds : j /= k => calls'[j] = calls[j]
  <2>1. app'.mutex /= NoH => app'.one /= NoH
    BY <1>1, <1>9 DEF HomeShape
  <2>2. \A j \in CallIds : j /= k /\ calls[j].pc = "command" => app'.mutex = j
    BY <1>1, <1>9 DEF HomeShape
  <2> QED
    BY <1>1, <1>2, <1>4, <1>6, <1>7, <1>8, <1>9, <2>1, <2>2, CallStep DEF Holding
<1>11. Held' \subseteq {x \in Held : x.who /= <<"call", k>>} \cup Hold(<<"call", k>>, AppHome, a)
  BY <1>8, <1>9, <1>10, CallMoves
<1>12. Trails \subseteq Trails'
  BY <1>9, TrailsGrow
<1>13. Books'
  <2>1. a = [key |-> key, c |-> c]
    BY DEF a
  <2> QED
    BY <1>1, <1>4, <1>5, <1>6, <1>11, <1>12, <2>1, AfterCreation
<1> QED
  BY <1>10, <1>13 DEF HomeInv

(* A call's passphrase opens the vault or does not.                        *)
LEMMA CallOpens ==
  ASSUME HomeInv, NEW k \in CallIds, open_account(k) \/ Reread(k)
  PROVE  HomeInv'
<1> DEFINE c == calls[k]
<1>1. /\ HomeTypes /\ HomeShape /\ Books /\ world \in WorldRecs /\ disk \in [HomeDirs -> DiskRecs]
      /\ app \in AppRecs /\ AppHome \in HomeDirs /\ c \in CallRecs /\ calls \in [CallIds -> CallRecs]
  BY HomeAssumption DEF HomeInv, HomeTypes
<1>2. /\ hsc' = hsc /\ disk' = disk /\ cli' = cli /\ app' = app /\ c.pc \in {"open", "reread"}
      /\ \/ calls' = [calls EXCEPT ![k] = IdleCall] /\ world' = world
         \/ /\ disk[AppHome].vault /= NoH /\ world' = [world EXCEPT !.causes = Causes(AppHome)]
            /\ \E pc \in {"key", "rewrite"} : /\ pc = "rewrite" => c.pc = "reread"
                                              /\ calls' = Call(k, pc, Copy(AppHome))
  BY DEF open_account, Reread, Return, Opens
<1>3. /\ app.mutex /= NoH => app.one /= NoH
      /\ \A j \in CallIds : j /= k /\ calls[j].pc = "command" => app.mutex = j
  BY <1>1 DEF HomeShape
<1>4. CASE calls' = [calls EXCEPT ![k] = IdleCall] /\ world' = world
  <2>1. /\ HomeTypes' /\ HomeShape' /\ calls'[k] = IdleCall
        /\ \A j \in CallIds : j /= k => calls'[j] = calls[j]
    BY <1>1, <1>2, <1>3, <1>4, IdleFits, CallStep DEF Holding
  <2>2. \A j \in CallIds : calls'[j].acct \in {NoH, calls[j].acct}
    BY <2>1, IdleFits
  <2>3. Books'
    BY <1>1, <1>2, <1>4, <2>2, Stands
  <2> QED
    BY <2>1, <2>3 DEF HomeInv
<1>5. ASSUME disk[AppHome].vault /= NoH, world' = [world EXCEPT !.causes = Causes(AppHome)],
             NEW pc \in {"key", "rewrite"}, pc = "rewrite" => c.pc = "reread", calls' = Call(k, pc, Copy(AppHome))
      PROVE  HomeInv'
  <2> DEFINE r == [c EXCEPT !.pc = pc, !.acct = Copy(AppHome)]
  <2>1. disk[AppHome].vault \in Copies
    BY <1>1, <1>5 DEF DiskRecs
  <2>2. Copy(AppHome) \in Copies /\ Copy(AppHome).c = disk[AppHome].vault.c /\ Copy(AppHome) /= NoH
    BY <2>1, CopyHas DEF Copy
  <2>3. r \in CallRecs /\ r.acct = Copy(AppHome) /\ r.pc = pc /\ r.new = c.new
    BY <1>1, <2>2 DEF CallRecs, Holding
  <2>4. calls' = [calls EXCEPT ![k] = r]
    BY <1>5 DEF Call
  <2>5. c.pc = "reread" => c.new \in Passes \X Passes
    BY <1>1 DEF HomeShape
  <2>6. /\ world' \in WorldRecs /\ world'.devs = world.devs /\ world'.causes = Causes(AppHome)
        /\ world'.sent = world.sent /\ world'.acked = world.acked
    <3>1. Causes(AppHome) \in SUBSET {"overlap", "crash", "signal"}
      BY <1>1, CausesFit
    <3> QED
      BY <1>1, <1>5, <3>1 DEF WorldRecs
  <2> HIDE DEF r
  <2>7. /\ HomeTypes' /\ HomeShape' /\ calls'[k] = r
        /\ \A j \in CallIds : j /= k => calls'[j] = calls[j]
    BY <1>1, <1>2, <1>3, <1>5, <2>2, <2>3, <2>4, <2>5, <2>6, CallStep DEF Holding
  <2>8. Held' \subseteq {x \in Held : x.who /= <<"call", k>>} \cup Hold(<<"call", k>>, AppHome, Copy(AppHome))
    BY <1>2, <2>3, <2>7, CallMoves
  <2>9. Trails \subseteq Trails'
    BY <1>2, TrailsGrow
  <2>10. Books'
    BY <1>1, <1>2, <1>5, <2>2, <2>6, <2>8, <2>9, AfterOpening
  <2> QED
    BY <2>7, <2>10 DEF HomeInv
<1> QED
  BY <1>2, <1>4, <1>5

(* The cache key of a vault is made and saved when it is first asked for.  *)
LEMMA CallKeysCache ==
  ASSUME HomeInv, NEW k \in CallIds, NEW link \in BOOLEAN, db_key_of(k, link)
  PROVE  HomeInv'
<1> DEFINE a == calls[k].acct
           c == IF a.c.db = 0 THEN [a.c EXCEPT !.db = world.salts + 1] ELSE a.c
           b == [key |-> a.key, c |-> c]
           r == IF link THEN [calls[k] EXCEPT !.pc = "build", !.acct = b] ELSE IdleCall
           w == <<"call", k>>
           x == Mark(w, AppHome, a)
<1>1. /\ HomeTypes /\ HomeShape /\ Books /\ world \in WorldRecs /\ disk \in [HomeDirs -> DiskRecs]
      /\ app \in AppRecs /\ AppHome \in HomeDirs /\ calls[k] \in CallRecs /\ calls \in [CallIds -> CallRecs]
  BY HomeAssumption DEF HomeInv, HomeTypes
<1>2. /\ calls[k].pc = "key" /\ disk' = IF a.c.db = 0 THEN Written(AppHome, a.key, c) ELSE disk
      /\ world' = [world EXCEPT !.salts = IF a.c.db = 0 THEN @ + 1 ELSE @]
      /\ hsc' = hsc /\ cli' = cli /\ app' = app
  BY DEF db_key_of
<1>3. calls' = [calls EXCEPT ![k] = r]
  BY DEF db_key_of, Call, Return
<1>4. /\ world' \in WorldRecs /\ world'.devs = world.devs /\ world'.causes = world.causes
      /\ world'.sent = world.sent /\ world'.acked = world.acked /\ world.salts \in Nat
  BY <1>1, <1>2 DEF WorldRecs
<1>5. a \in Copies
  BY <1>1, <1>2 DEF HomeShape, CallRecs, Holding
<1>6. a.c \in ContentsType /\ a.key \in [pass : Passes, salt : Nat] /\ a /= NoH
  BY <1>5, CopyHas
<1>7. c \in ContentsType /\ c.dev = a.c.dev /\ c.gen = a.c.gen
  BY <1>4, <1>6 DEF ContentsType
<1> HIDE DEF c
<1>8. b \in Copies /\ b /= NoH /\ b.c = c
  BY <1>6, <1>7, CopyIs
<1>9. /\ disk' \in [HomeDirs -> DiskRecs]
      /\ \A g \in HomeDirs : g /= AppHome => disk'[g] = disk[g]
      /\ IF a.c.db = 0 THEN disk'[AppHome].vault.c = c ELSE disk' = disk
  <2>1. CASE a.c.db = 0
    <3>1. /\ disk' \in [HomeDirs -> DiskRecs] /\ disk'[AppHome].vault = [key |-> a.key, c |-> c]
          /\ \A g \in HomeDirs : g /= AppHome => disk'[g] = disk[g]
      BY <1>1, <1>2, <1>6, <1>7, <2>1, WrittenFits
    <3> QED
      BY <2>1, <3>1
  <2>2. CASE a.c.db /= 0
    BY <1>1, <1>2, <2>2
  <2> QED
    BY <2>1, <2>2
<1>10. Mark(w, AppHome, b) = x
  BY <1>7, <1>8 DEF Mark
<1> HIDE DEF b
<1>11. /\ r \in CallRecs /\ (r.acct /= NoH <=> r.pc \in Holding) /\ r.pc \in {"build", "idle"}
       /\ r.acct \in {b, NoH}
  <2>1. CASE link
    BY <1>1, <1>8, <2>1 DEF CallRecs, Holding
  <2>2. CASE ~link
    BY <2>2, IdleFits DEF Holding
  <2> QED
    BY <2>1, <2>2
<1> HIDE DEF r
<1>12. /\ HomeTypes' /\ HomeShape' /\ calls'[k] = r
       /\ \A j \in CallIds : j /= k => calls'[j] = calls[j]
  <2>1. app'.mutex /= NoH => app'.one /= NoH
    BY <1>1, <1>2 DEF HomeShape
  <2>2. \A j \in CallIds : j /= k /\ calls[j].pc = "command" => app'.mutex = j
    BY <1>1, <1>2 DEF HomeShape
  <2> QED
    BY <1>1, <1>2, <1>3, <1>4, <1>9, <1>11, <2>1, <2>2, CallStep
<1>13. x \in Held /\ x.home = AppHome /\ x.dev = a.c.dev /\ x.gen = a.c.gen
  BY <1>6, HeldIs, Whose
<1>14. Held' \subseteq Held
  <2>1. Held' \subseteq {y \in Held : y.who /= w} \cup Hold(w, AppHome, r.acct)
    BY <1>2, <1>12, CallMoves
  <2>2. Hold(w, AppHome, r.acct) \subseteq {x}
    BY <1>8, <1>10, <1>11, HoldIs
  <2> QED
    BY <1>13, <2>1, <2>2
<1>15. Trails \subseteq Trails'
  BY <1>2, TrailsGrow
<1>16. Told' = Told
  BY <1>4 DEF Told
<1>17. Books'
  <2>1. CASE a.c.db = 0
    <3>1. disk'[x.home].vault.c.dev = x.dev /\ disk'[x.home].vault.c.gen = x.gen
      BY <1>7, <1>9, <1>13, <2>1
    <3>2. \A g \in HomeDirs : g /= x.home => disk'[g].vault = disk[g].vault
      BY <1>9, <1>13
    <3> HIDE DEF x
    <3> QED
      BY <1>1, <1>4, <1>13, <1>14, <1>15, <1>16, <3>1, <3>2, AfterSaving
  <2>2. CASE a.c.db /= 0
    BY <1>1, <1>4, <1>9, <1>14, <1>15, <2>2, AfterLoss
  <2> QED
    BY <2>1, <2>2
<1> QED
  BY <1>12, <1>17 DEF HomeInv

(* The vault is written again under the new passphrase.                    *)
LEMMA RewriteKeeps ==
  ASSUME HomeInv, NEW k \in CallIds, Rewrite(k)
  PROVE  HomeInv'
<1> DEFINE a == calls[k].acct
           key == Key(calls[k].new[2], world.salts + 1)
           r == [calls[k] EXCEPT !.pc = "abort", !.acct = NoH]
           w == <<"call", k>>
           x == Mark(w, AppHome, a)
<1>1. /\ HomeTypes /\ HomeShape /\ Books /\ world \in WorldRecs /\ disk \in [HomeDirs -> DiskRecs]
      /\ app \in AppRecs /\ AppHome \in HomeDirs /\ calls[k] \in CallRecs /\ calls \in [CallIds -> CallRecs]
  BY HomeAssumption DEF HomeInv, HomeTypes
<1>2. /\ calls[k].pc = "rewrite"
      /\ disk' = [Written(AppHome, key, a.c) EXCEPT ![AppHome].hello = NoH]
      /\ world' = [world EXCEPT !.salts = @ + 1] /\ calls' = [calls EXCEPT ![k] = r]
      /\ hsc' = hsc /\ cli' = cli /\ app' = app
  BY DEF Rewrite, Call
<1>3. /\ world' \in WorldRecs /\ world'.devs = world.devs /\ world'.causes = world.causes
      /\ world'.sent = world.sent /\ world'.acked = world.acked /\ world.salts + 1 \in Nat
  BY <1>1, <1>2 DEF WorldRecs
<1>4. a \in Copies /\ calls[k].new \in Passes \X Passes
  BY <1>1, <1>2 DEF HomeShape, CallRecs, Holding
<1>5. a.c \in ContentsType /\ a /= NoH /\ key \in [pass : Passes, salt : Nat]
  BY <1>3, <1>4, CopyHas DEF Key
<1> HIDE DEF key
<1>6. /\ disk' \in [HomeDirs -> DiskRecs]
      /\ \A g \in HomeDirs : g /= AppHome => disk'[g] = disk[g]
      /\ disk'[AppHome].vault.c = a.c
  <2> DEFINE d == Written(AppHome, key, a.c)
  <2>1. /\ d \in [HomeDirs -> DiskRecs] /\ d[AppHome].vault = [key |-> key, c |-> a.c]
        /\ \A g \in HomeDirs : g /= AppHome => d[g] = disk[g]
    BY <1>1, <1>5, WrittenFits
  <2>2. disk' = [d EXCEPT ![AppHome].hello = NoH]
    BY <1>2
  <2> HIDE DEF d
  <2>3. disk'[AppHome] = [d[AppHome] EXCEPT !.hello = NoH] /\ d[AppHome] \in DiskRecs
    BY <1>1, <2>1, <2>2
  <2>4. disk'[AppHome].vault.c = a.c /\ disk'[AppHome] \in DiskRecs
    BY <2>1, <2>3 DEF DiskRecs
  <2> QED
    BY <1>1, <2>1, <2>2, <2>4
<1>7. r \in CallRecs /\ r.acct = NoH /\ r.pc = "abort"
  BY <1>1 DEF CallRecs
<1> HIDE DEF r
<1>8. /\ HomeTypes' /\ HomeShape' /\ calls'[k] = r
      /\ \A j \in CallIds : j /= k => calls'[j] = calls[j]
  <2>1. app'.mutex /= NoH => app'.one /= NoH
    BY <1>1, <1>2 DEF HomeShape
  <2>2. \A j \in CallIds : j /= k /\ calls[j].pc = "command" => app'.mutex = j
    BY <1>1, <1>2 DEF HomeShape
  <2> QED
    BY <1>1, <1>2, <1>3, <1>6, <1>7, <2>1, <2>2, CallStep DEF Holding
<1>9. x \in Held /\ x.home = AppHome /\ x.dev = a.c.dev /\ x.gen = a.c.gen
  BY <1>5, HeldIs, Whose
<1>10. Held' \subseteq Held
  BY <1>2, <1>7, <1>8, CallMoves, HoldIs
<1>11. Trails \subseteq Trails' /\ Told' = Told
  BY <1>2, <1>3, TrailsGrow DEF Told
<1>12. Books'
  <2>1. disk'[x.home].vault.c.dev = x.dev /\ disk'[x.home].vault.c.gen = x.gen
    BY <1>6, <1>9
  <2>2. \A g \in HomeDirs : g /= x.home => disk'[g].vault = disk[g].vault
    BY <1>6, <1>9
  <2> HIDE DEF x
  <2> QED
    BY <1>1, <1>3, <1>9, <1>10, <1>11, <2>1, <2>2, AfterSaving
<1> QED
  BY <1>8, <1>12 DEF HomeInv

(* The facade takes over the copy of the call that built it.               *)
LEMMA SetOneKeeps ==
  ASSUME HomeInv, NEW k \in CallIds, SetOne(k)
  PROVE  HomeInv'
<1> DEFINE a == calls[k].acct
           r == [calls[k] EXCEPT !.pc = "session", !.acct = NoH]
           w == <<"one">>
           x == Mark(<<"call", k>>, AppHome, a)
           z == Mark(w, AppHome, a)
<1>1. /\ HomeTypes /\ HomeShape /\ Books /\ world \in WorldRecs /\ disk \in [HomeDirs -> DiskRecs]
      /\ app \in AppRecs /\ AppHome \in HomeDirs /\ calls[k] \in CallRecs /\ calls \in [CallIds -> CallRecs]
  BY HomeAssumption DEF HomeInv, HomeTypes
<1>2. /\ calls[k].pc = "one" /\ app.mutex = NoH /\ calls' = [calls EXCEPT ![k] = r]
      /\ app' = [app EXCEPT !.one = a] /\ UNCHANGED <<hsc, disk, cli, world>>
  BY DEF SetOne, Call
<1>3. a \in Copies /\ a /= NoH
  BY <1>1, <1>2, CopyHas DEF HomeShape, CallRecs, Holding
<1>4. app' \in AppRecs /\ app'.one = a /\ app'.mutex = NoH
  BY <1>1, <1>2, <1>3 DEF AppRecs
<1>5. r \in CallRecs /\ r.acct = NoH /\ r.pc = "session"
  BY <1>1 DEF CallRecs
<1> HIDE DEF r
<1>6. /\ HomeTypes' /\ HomeShape' /\ calls'[k] = r
      /\ \A j \in CallIds : j /= k => calls'[j] = calls[j]
  <2>1. \A j \in CallIds : j /= k /\ calls[j].pc = "command" => app'.mutex = j
    BY <1>1, <1>2, LockFree
  <2> QED
    BY <1>1, <1>2, <1>4, <1>5, <2>1, CallStep DEF Holding
<1>7. /\ x \in Held /\ x.who = <<"call", k>> /\ x.home = AppHome /\ x.dev = a.c.dev /\ x.gen = a.c.gen
      /\ z.who = w /\ z.home = AppHome /\ z.dev = a.c.dev /\ z.gen = a.c.gen
  BY <1>3, HeldIs, Whose
<1>8. Held' \subseteq {y \in Held : y.who /= x.who /\ y.who /= w} \cup {z}
  <2>1. \A j \in CallIds : calls'[j].acct \in {NoH, calls[j].acct}
    BY <1>5, <1>6
  <2>2. calls'[k].acct /= calls[k].acct
    BY <1>3, <1>5, <1>6
  <2>3. Hold(<<"one">>, AppHome, app'.one) = {z}
    BY <1>3, <1>4, HoldIs
  <2> QED
    BY <1>2, <1>7, <2>1, <2>2, <2>3, FacadeMoves
<1>9. Trails \subseteq Trails'
  BY <1>2, <1>3, <1>4, TrailsGrow
<1>10. Books'
  <2>1. Sound(Held, Kept(disk), Trails, world.devs, world.causes, world.sent, Told)
    BY <1>1 DEF Books
  <2>2. Kept(disk)' = Kept(disk) /\ Told' = Told
    BY <1>2 DEF Kept, Told
  <2> HIDE DEF x, z, w
  <2>3. Sound(Held', Kept(disk), Trails', world.devs, world.causes, world.sent, Told)
    BY <1>7, <1>8, <1>9, <2>1, Moves
  <2> QED
    BY <1>2, <2>2, <2>3 DEF Books
<1> QED
  BY <1>6, <1>10 DEF HomeInv

(* A step of a command or a round with the facade's copy.                  *)
LEMMA FacadeUses ==
  ASSUME HomeInv, NEW S, NEW r \in RunsOf(S), r.left /= << >>, NEW o \in [wire : BOOLEAN, on : BOOLEAN],
         o \in Outcomes(Head(r.left)), app.one /= NoH, Sending(app.one.c, o.wire),
         app'.one = [app.one EXCEPT !.c = Ratchet(r, @)], cli' = cli, disk' = disk,
         \A k \in CallIds : calls'[k].acct = calls[k].acct
  PROVE  Books' /\ world' \in WorldRecs /\ app'.one \in Copies
<1> DEFINE a == app.one
           c == Ratchet(r, a.c)
           b == [a EXCEPT !.c = c]
           w == <<"one">>
           x == Mark(w, AppHome, a)
           z == Mark(w, AppHome, b)
<1>1. HomeTypes /\ HomeShape /\ Books /\ world \in WorldRecs
  BY DEF HomeInv, HomeTypes
<1>2. a \in Copies
  BY <1>1 DEF HomeTypes, AppRecs
<1>3. a.c \in ContentsType /\ c \in ContentsType /\ b \in Copies /\ b.c = c /\ b /= NoH /\ app'.one = b
  BY <1>2, CopyHas, RatchetFits
<1>4. /\ c.dev = a.c.dev
      /\ Head(r.left) = "net" => c = a.c /\ ~o.wire
      /\ Head(r.left) /= "net" => c.gen = a.c.gen + 1
  <2>1. Head(r.left) = "net" => ~o.wire
    BY DEF Outcomes
  <2> QED
    BY <1>3, <2>1, RatchetFits
<1>5. /\ world' \in WorldRecs /\ world'.devs = world.devs /\ world'.causes = world.causes
      /\ world'.acked = world.acked
      /\ world'.sent = IF o.wire THEN world.sent \cup {Sent(a.c)} ELSE world.sent
      /\ Sent(a.c).dev = a.c.dev /\ Sent(a.c).gen = a.c.gen + 1
  BY <1>1, <1>3, SendingFits
<1>6. x.who = w /\ x.home = AppHome /\ x.dev = a.c.dev /\ x.gen = a.c.gen
  BY Whose
<1>7. z.who = w /\ z.home = AppHome /\ z.dev = c.dev /\ z.gen = c.gen
  <2>1. b.c = c
    BY <1>3
  <2> HIDE DEF b, c
  <2> QED
    BY <2>1, Whose
<1>8. x \in Held
  BY HeldIs
<1>9. Held' \subseteq {y \in Held : y.who /= w} \cup {z}
  <2>1. Hold(w, AppHome, app'.one) = {z}
    BY <1>3, HoldIs
  <2>2. \A k \in CallIds : calls'[k].acct \in {NoH, calls[k].acct}
    OBVIOUS
  <2> QED
    BY <2>1, <2>2, FacadeMoves
<1>10. Trails \subseteq Trails'
  BY <1>3, TrailsGrow
<1>11. <<x.home, x.dev>> \in Trails
  BY <1>3, <1>6 DEF Trails, ContentsType
<1>12. Books'
  <2>1. Kept(disk') \subseteq Kept(disk)
    OBVIOUS
  <2> DEFINE m == Sent(a.c)
  <2>2. m.dev = x.dev /\ m.gen = x.gen + 1
    BY <1>5, <1>6
  <2>3. z.who = x.who /\ z.home = x.home /\ z.dev = x.dev
    BY <1>4, <1>6, <1>7
  <2>4. CASE Head(r.left) = "net"
    <3>1. z.gen = x.gen /\ world'.sent = world.sent
      BY <1>4, <1>5, <1>6, <1>7, <2>4
    <3> HIDE DEF x, z, w
    <3> QED
      BY <1>1, <1>5, <1>6, <1>8, <1>9, <1>10, <2>1, <2>3, <3>1, AfterUse
  <2>5. CASE Head(r.left) /= "net"
    <3>1. z.gen = x.gen + 1
      BY <1>4, <1>6, <1>7, <2>5
    <3>2. world'.sent = world.sent \/ world'.sent = world.sent \cup {m}
      BY <1>5
    <3> HIDE DEF x, z, w, m
    <3> QED
      BY <1>1, <1>5, <1>6, <1>8, <1>9, <1>10, <1>11, <2>1, <2>2, <2>3, <3>1, <3>2, AfterUse
  <2> QED
    BY <2>4, <2>5
<1> QED
  BY <1>3, <1>5, <1>12

(* CommandStep: the call has the lock, the ratchet is the facade's.        *)
LEMMA CommandStepKeeps ==
  ASSUME HomeInv, NEW k \in CallIds, NEW o \in [wire : BOOLEAN, on : BOOLEAN], CommandStep(k, o)
  PROVE  HomeInv'
<1> DEFINE r == calls[k].run
           a == app.one
           b == [a EXCEPT !.c = Ratchet(r, @)]
           q == [calls[k] EXCEPT !.run = Stepped(r, o)]
<1>1. /\ HomeTypes /\ HomeShape /\ Books /\ world \in WorldRecs /\ disk \in [HomeDirs -> DiskRecs]
      /\ app \in AppRecs /\ calls[k] \in CallRecs /\ calls \in [CallIds -> CallRecs]
  BY DEF HomeInv, HomeTypes
<1>2. /\ calls[k].pc = "command" /\ r.left /= << >> /\ o \in Outcomes(Head(r.left))
      /\ Sending(a.c, o.wire) /\ UNCHANGED <<hsc, disk, cli>>
  BY DEF CommandStep
<1>3. app' = [app EXCEPT !.one = b] /\ calls' = [calls EXCEPT ![k] = q]
  BY DEF CommandStep
<1>4. /\ app.mutex = k /\ k /= NoH /\ a \in Copies /\ a /= NoH
      /\ \A j \in CallIds : calls[j].pc = "command" => j = k
  BY <1>1, <1>2, LockHeld, CopyHas
<1>5. r \in RunsOf(DesktopCommands)
  BY <1>1 DEF CallRecs
<1>6. q \in CallRecs /\ q.acct = calls[k].acct /\ q.pc = "command" /\ q.new = calls[k].new
  BY <1>1, <1>2, <1>5, StepFits DEF CallRecs
<1> HIDE DEF q
<1>7. calls'[k] = q /\ \A j \in CallIds : j /= k => calls'[j] = calls[j]
  BY <1>1, <1>3
<1>8. app'.one = b
  BY <1>1, <1>3 DEF AppRecs
<1>9. \A j \in CallIds : calls'[j].acct = calls[j].acct
  BY <1>6, <1>7
<1>10. Books' /\ world' \in WorldRecs /\ app'.one \in Copies
  BY <1>2, <1>4, <1>5, <1>8, <1>9, FacadeUses
<1>11. app' \in AppRecs /\ app'.mutex = app.mutex /\ app'.one /= NoH
  <2> HIDE DEF b
  <2>1. b \in Copies /\ b /= NoH
    BY <1>8, <1>10, CopyHas
  <2> QED
    BY <1>1, <1>3, <2>1 DEF AppRecs
<1>12. HomeTypes' /\ HomeShape'
  <2>1. q.acct /= NoH <=> q.pc \in Holding
    BY <1>1, <1>2, <1>6 DEF HomeShape, Holding
  <2>2. q.pc \notin {"reread", "rewrite"}
    BY <1>6
  <2> QED
    BY <1>1, <1>2, <1>3, <1>4, <1>6, <1>10, <1>11, <2>1, <2>2, CallStep
<1> QED
  BY <1>10, <1>12 DEF HomeInv

(* SyncStep: the round has the lock.                                       *)
LEMMA SyncStepKeeps ==
  ASSUME HomeInv, NEW o \in [wire : BOOLEAN, on : BOOLEAN], SyncStep(o)
  PROVE  HomeInv'
<1> DEFINE r == app.run
           a == app.one
           b == [a EXCEPT !.c = Ratchet(r, @)]
<1>1. /\ HomeTypes /\ HomeShape /\ Books /\ world \in WorldRecs /\ disk \in [HomeDirs -> DiskRecs]
      /\ app \in AppRecs /\ calls \in [CallIds -> CallRecs]
  BY DEF HomeInv, HomeTypes
<1>2. /\ app.mutex = "sync" /\ r.left /= << >> /\ o \in Outcomes(Head(r.left))
      /\ Sending(a.c, o.wire) /\ UNCHANGED <<hsc, disk, cli, calls>>
  BY DEF SyncStep
<1>3. app' = [app EXCEPT !.one = b, !.run = Stepped(r, o)]
  BY DEF SyncStep
<1>4. a /= NoH
  BY <1>1, <1>2, HomeAssumption DEF HomeShape
<1>5. r \in RunsOf(DesktopCommands \cup {SyncRound})
  BY <1>1 DEF AppRecs
<1>6. app'.one = b
  BY <1>1, <1>3 DEF AppRecs
<1>7. \A j \in CallIds : calls'[j].acct = calls[j].acct
  BY <1>2
<1>8. Books' /\ world' \in WorldRecs /\ app'.one \in Copies
  BY <1>2, <1>4, <1>5, <1>6, <1>7, FacadeUses
<1>9. app' \in AppRecs /\ app'.mutex = "sync" /\ app'.one /= NoH
  <2>1. b \in Copies /\ b /= NoH /\ Stepped(r, o) \in RunsOf(DesktopCommands \cup {SyncRound})
    BY <1>2, <1>5, <1>6, <1>8, CopyHas, StepFits
  <2> HIDE DEF b
  <2> QED
    BY <1>1, <1>2, <1>3, <2>1 DEF AppRecs
<1>10. HomeTypes' /\ HomeShape'
  BY <1>1, <1>2, <1>8, <1>9, LockFree, AppStep
<1> QED
  BY <1>8, <1>10 DEF HomeInv

(* The facade's copy is saved, and may be dropped.                         *)
LEMMA SaveOneFits ==
  ASSUME HomeTypes, app.one /= NoH
  PROVE  /\ SaveOne \in [HomeDirs -> DiskRecs] /\ SaveOne[AppHome].vault.c = app.one.c
         /\ \A g \in HomeDirs : g /= AppHome => SaveOne[g] = disk[g]
<1>1. disk \in [HomeDirs -> DiskRecs] /\ AppHome \in HomeDirs /\ app.one \in Copies
  BY HomeAssumption DEF HomeTypes, AppRecs
<1>2. app.one.c \in ContentsType /\ app.one.key \in [pass : Passes, salt : Nat]
  BY <1>1, CopyHas
<1>3. /\ SaveOne \in [HomeDirs -> DiskRecs] /\ SaveOne[AppHome].vault = [key |-> app.one.key, c |-> app.one.c]
      /\ \A g \in HomeDirs : g /= AppHome => SaveOne[g] = disk[g]
  BY <1>1, <1>2, WrittenFits DEF SaveOne
<1> QED
  BY <1>3

(* The books after the facade's copy was saved.                            *)
LEMMA FacadeSaves ==
  ASSUME Books, app.one /= NoH, \A g \in HomeDirs : g /= AppHome => disk'[g].vault = disk[g].vault,
         disk'[AppHome].vault.c = app.one.c, app'.one \in {NoH, app.one}, cli' = cli,
         \A k \in CallIds : calls'[k].acct \in {NoH, calls[k].acct},
         world'.devs = world.devs, world'.causes = world.causes, world'.sent = world.sent,
         \A m \in Told' : m \in Told \/ (m.dev = app.one.c.dev /\ m.gen = app.one.c.gen)
  PROVE  Books'
<1> DEFINE x == Mark(<<"one">>, AppHome, app.one)
<1>1. x \in Held /\ x.home = AppHome /\ x.dev = app.one.c.dev /\ x.gen = app.one.c.gen
  BY HeldIs, Whose
<1>2. Held' \subseteq Held
  <2>1. Hold(<<"one">>, AppHome, app'.one) \subseteq {x}
    BY HoldIs
  <2> QED
    BY <1>1, <2>1, FacadeMoves
<1>3. \A t \in Trails : t \in Trails' \/ t[1] = x.home
  <2> SUFFICES ASSUME NEW t \in Trails PROVE t \in Trails' \/ t[1] = AppHome
    BY <1>1
  <2>1. CASE t \in {AppHome} \X Nat
    BY <2>1
  <2>2. CASE t \notin {AppHome} \X Nat
    BY <2>2 DEF Trails
  <2> QED
    BY <2>1, <2>2
<1>4. /\ \A g \in HomeDirs : g /= x.home => disk'[g].vault = disk[g].vault
      /\ disk'[x.home].vault.c.dev = x.dev /\ disk'[x.home].vault.c.gen = x.gen
      /\ \A m \in Told' : m \in Told \/ (m.dev = x.dev /\ m.gen = x.gen)
  BY <1>1
<1> HIDE DEF x
<1> QED
  BY <1>1, <1>2, <1>3, <1>4, AfterSaving

(* DropOne: saved, then dropped.                                           *)
LEMMA DropOneKeeps ==
  ASSUME HomeInv, NEW k \in CallIds, DropOne(k)
  PROVE  HomeInv'
<1> DEFINE r == [calls[k] EXCEPT !.pc = "clear"]
<1>1. /\ HomeTypes /\ HomeShape /\ Books /\ world \in WorldRecs /\ disk \in [HomeDirs -> DiskRecs]
      /\ app \in AppRecs /\ AppHome \in HomeDirs /\ calls[k] \in CallRecs /\ calls \in [CallIds -> CallRecs]
  BY HomeAssumption DEF HomeInv, HomeTypes
<1>2. /\ calls[k].pc = "drop" /\ app.mutex = NoH /\ app' = [app EXCEPT !.one = NoH]
      /\ disk' = IF app.one = NoH THEN disk ELSE [SaveOne EXCEPT ![AppHome].store = NoH]
      /\ calls' = [calls EXCEPT ![k] = r] /\ UNCHANGED <<hsc, cli, world>>
  BY DEF DropOne
<1>3. app' \in AppRecs /\ app'.one = NoH /\ app'.mutex = NoH
  BY <1>1, <1>2 DEF AppRecs
<1>4. r \in CallRecs /\ r.acct = calls[k].acct /\ r.pc = "clear" /\ calls[k].acct = NoH
  BY <1>1, <1>2 DEF CallRecs, HomeShape, Holding
<1> HIDE DEF r
<1>5. CASE app.one = NoH
  <2>1. /\ HomeTypes' /\ HomeShape' /\ calls'[k] = r
        /\ \A j \in CallIds : j /= k => calls'[j] = calls[j]
    BY <1>1, <1>2, <1>3, <1>4, <1>5, LockFree, CallStep DEF Holding
  <2>2. Books'
    BY <1>1, <1>2, <1>3, <1>4, <1>5, <2>1, Stands
  <2> QED
    BY <2>1, <2>2 DEF HomeInv
<1>6. CASE app.one /= NoH
  <2>1. /\ SaveOne \in [HomeDirs -> DiskRecs] /\ SaveOne[AppHome].vault.c = app.one.c
        /\ \A g \in HomeDirs : g /= AppHome => SaveOne[g] = disk[g]
    BY <1>1, <1>6, SaveOneFits
  <2>2. /\ disk' \in [HomeDirs -> DiskRecs] /\ disk'[AppHome].vault.c = app.one.c
        /\ \A g \in HomeDirs : g /= AppHome => disk'[g].vault = disk[g].vault
    <3>1. disk' = [SaveOne EXCEPT ![AppHome] = [SaveOne[AppHome] EXCEPT !.store = NoH]]
      BY <1>2, <1>6
    <3>2. [SaveOne[AppHome] EXCEPT !.store = NoH] \in DiskRecs
      BY <1>1, <2>1 DEF DiskRecs
    <3>3. [SaveOne[AppHome] EXCEPT !.store = NoH].vault = SaveOne[AppHome].vault
      BY <1>1, <2>1 DEF DiskRecs
    <3> QED
      BY <1>1, <2>1, <3>1, <3>2, <3>3
  <2>3. /\ HomeTypes' /\ HomeShape' /\ calls'[k] = r
        /\ \A j \in CallIds : j /= k => calls'[j] = calls[j]
    BY <1>1, <1>2, <1>3, <1>4, <2>2, LockFree, CallStep DEF Holding
  <2>4. Told' = Told
    BY <1>2 DEF Told
  <2>5. Books'
    BY <1>1, <1>2, <1>3, <1>4, <1>6, <2>2, <2>3, <2>4, FacadeSaves
  <2> QED
    BY <2>3, <2>5 DEF HomeInv
<1> QED
  BY <1>5, <1>6

(* SyncEnd: a round that sent is saved.                                    *)
LEMMA SyncEndKeeps ==
  ASSUME HomeInv, SyncEnd
  PROVE  HomeInv'
<1>1. /\ HomeTypes /\ HomeShape /\ Books /\ world \in WorldRecs /\ disk \in [HomeDirs -> DiskRecs]
      /\ app \in AppRecs
  BY DEF HomeInv, HomeTypes
<1>2. /\ app.mutex = "sync" /\ app' = [app EXCEPT !.mutex = NoH] /\ UNCHANGED <<hsc, cli, calls, world>>
      /\ disk' = disk \/ disk' = SaveOne
  BY DEF SyncEnd
<1>3. app' \in AppRecs /\ app'.one = app.one /\ app'.mutex = NoH
  BY <1>1, <1>2 DEF AppRecs
<1>4. app.one /= NoH
  BY <1>1, <1>2, HomeAssumption DEF HomeShape
<1>5. /\ SaveOne \in [HomeDirs -> DiskRecs] /\ SaveOne[AppHome].vault.c = app.one.c
      /\ \A g \in HomeDirs : g /= AppHome => SaveOne[g] = disk[g]
  BY <1>1, <1>4, SaveOneFits
<1>6. HomeTypes' /\ HomeShape'
  BY <1>1, <1>2, <1>3, <1>5, LockFree, AppStep
<1>7. Books'
  <2>1. CASE disk' = disk
    BY <1>1, <1>2, <1>3, <2>1, Stands
  <2>2. CASE disk' = SaveOne
    <3>1. Told' = Told
      BY <1>2 DEF Told
    <3> QED
      BY <1>1, <1>2, <1>3, <1>4, <1>5, <2>2, <3>1, FacadeSaves
  <2> QED
    BY <1>2, <2>1, <2>2
<1> QED
  BY <1>6, <1>7 DEF HomeInv

(* backup_export: saved, and the backup has no ratchet.                    *)
LEMMA BackupKeeps ==
  ASSUME HomeInv, NEW k \in CallIds, backup_export(k)
  PROVE  HomeInv'
<1>1. /\ HomeTypes /\ HomeShape /\ Books /\ world \in WorldRecs /\ app \in AppRecs
  BY DEF HomeInv, HomeTypes
<1>2. /\ app.one /= NoH /\ disk' = SaveOne /\ world' = [world EXCEPT !.backup = Carried(app.one.c)]
      /\ UNCHANGED <<hsc, cli, app, calls>>
  BY DEF backup_export
<1>3. app.one \in Copies
  BY <1>1, <1>2 DEF AppRecs
<1>4. Carried(app.one.c) \in [full : BOOLEAN]
  BY <1>3, CopyHas DEF Carried, ContentsType
<1>5. /\ world' \in WorldRecs /\ world'.devs = world.devs /\ world'.causes = world.causes
      /\ world'.sent = world.sent /\ world'.acked = world.acked
  BY <1>1, <1>2, <1>4 DEF WorldRecs
<1>6. /\ SaveOne \in [HomeDirs -> DiskRecs] /\ SaveOne[AppHome].vault.c = app.one.c
      /\ \A g \in HomeDirs : g /= AppHome => SaveOne[g] = disk[g]
  BY <1>1, <1>2, SaveOneFits
<1>7. HomeTypes' /\ HomeShape'
  BY <1>1, <1>2, <1>5, <1>6 DEF HomeTypes, HomeShape
<1>8. Told' = Told
  BY <1>5 DEF Told
<1>9. Books'
  BY <1>1, <1>2, <1>5, <1>6, <1>8, FacadeSaves
<1> QED
  BY <1>7, <1>9 DEF HomeInv

(* change_passphrase: saved before the vault is read back.                 *)
LEMMA PassphraseKeeps ==
  ASSUME HomeInv, NEW k \in CallIds, NEW pass \in Passes, NEW new \in Passes, change_passphrase(k, pass, new)
  PROVE  HomeInv'
<1> DEFINE r == [calls[k] EXCEPT !.pc = "reread", !.new = <<pass, new>>]
<1>1. /\ HomeTypes /\ HomeShape /\ Books /\ world \in WorldRecs /\ disk \in [HomeDirs -> DiskRecs]
      /\ app \in AppRecs /\ AppHome \in HomeDirs /\ calls[k] \in CallRecs /\ calls \in [CallIds -> CallRecs]
  BY HomeAssumption DEF HomeInv, HomeTypes
<1>2. /\ calls[k].pc = "idle" /\ app.mutex = NoH /\ disk' = IF app.one = NoH THEN disk ELSE SaveOne
      /\ calls' = [calls EXCEPT ![k] = r] /\ world' = Run(world) /\ UNCHANGED <<hsc, cli, app>>
  BY DEF change_passphrase, Calls
<1>3. /\ world' \in WorldRecs /\ world'.devs = world.devs /\ world'.causes = world.causes
      /\ world'.sent = world.sent /\ world'.acked = world.acked
  BY <1>1, <1>2, RunFits
<1>4. /\ r \in CallRecs /\ r.acct = calls[k].acct /\ r.pc = "reread" /\ r.new = <<pass, new>>
      /\ calls[k].acct = NoH
  BY <1>1, <1>2 DEF CallRecs, HomeShape, Holding
<1> HIDE DEF r
<1>5. app.one /= NoH => /\ SaveOne \in [HomeDirs -> DiskRecs] /\ SaveOne[AppHome].vault.c = app.one.c
                        /\ \A g \in HomeDirs : g /= AppHome => SaveOne[g] = disk[g]
  BY <1>1, SaveOneFits
<1>6. disk' \in [HomeDirs -> DiskRecs]
  BY <1>1, <1>2, <1>5
<1>7. /\ HomeTypes' /\ HomeShape' /\ calls'[k] = r
      /\ \A j \in CallIds : j /= k => calls'[j] = calls[j]
  <2>1. \A j \in CallIds : calls[j].pc /= "command"
    BY <1>1, <1>2, LockFree
  <2>2. app' = app /\ app'.mutex = NoH /\ cli' = cli /\ hsc' = hsc
    BY <1>2
  <2>3. (r.acct /= NoH <=> r.pc \in Holding) /\ r.pc /= "command" /\ r.new \in Passes \X Passes
    BY <1>4 DEF Holding
  <2> QED
    BY <1>1, <1>2, <1>3, <1>4, <1>6, <2>1, <2>2, <2>3, CallStep
<1>8. \A j \in CallIds : calls'[j].acct \in {NoH, calls[j].acct}
  BY <1>4, <1>7
<1>9. Books'
  <2>1. CASE app.one = NoH
    BY <1>1, <1>2, <1>3, <1>8, <2>1, Stands
  <2>2. CASE app.one /= NoH
    <3>1. Told' = Told
      BY <1>3 DEF Told
    <3> QED
      BY <1>1, <1>2, <1>3, <1>5, <1>8, <2>2, <3>1, FacadeSaves
  <2> QED
    BY <2>1, <2>2
<1> QED
  BY <1>7, <1>9 DEF HomeInv

(* The end of a command: it is saved, or what it told the user asks for no *)
(* save.                                                                   *)
LEMMA CommandEndKeeps ==
  ASSUME HomeInv, NEW k \in CallIds, CommandEnd(k)
  PROVE  HomeInv'
<1> DEFINE r == calls[k].run
           a == app.one
           t == Acked(r, a.c)
<1>1. /\ HomeTypes /\ HomeShape /\ Books /\ world \in WorldRecs /\ disk \in [HomeDirs -> DiskRecs]
      /\ app \in AppRecs /\ calls[k] \in CallRecs /\ calls \in [CallIds -> CallRecs]
  BY DEF HomeInv, HomeTypes
<1>2. /\ calls[k].pc = "command" /\ disk' = IF Saves(r) THEN SaveOne ELSE disk
      /\ world' = [world EXCEPT !.acked = t] /\ app' = [app EXCEPT !.mutex = NoH]
      /\ calls' = [calls EXCEPT ![k] = IdleCall] /\ hsc' = hsc /\ cli' = cli
  BY DEF CommandEnd, Return
<1>3. /\ a \in Copies /\ a /= NoH
      /\ \A j \in CallIds : calls[j].pc = "command" => j = k
  BY <1>1, <1>2, LockHeld, CopyHas
<1>4. r \in RunsOf(DesktopCommands) /\ r.script \in DesktopCommands /\ a.c \in ContentsType
  BY <1>1, <1>3, CopyHas DEF CallRecs, RunsOf
<1>5. /\ t \in SUBSET [script : DesktopCommands \cup ClientCommands, dev : Nat, gen : Nat]
      /\ \A m \in t : \/ m \in world.acked
                      \/ m.dev = a.c.dev /\ m.gen = a.c.gen /\ m.script = r.script /\ Succeeds(r)
      /\ r.script.steps \in Quiet => t = world.acked
      /\ world.acked \subseteq t
  BY <1>1, <1>4, AckedIs
<1> HIDE DEF t
<1>6. /\ world' \in WorldRecs /\ world'.devs = world.devs /\ world'.causes = world.causes
      /\ world'.sent = world.sent /\ world'.acked = t
  BY <1>1, <1>2, <1>5 DEF WorldRecs
<1>7. app' \in AppRecs /\ app'.one = a /\ app'.mutex = NoH
  BY <1>1, <1>2 DEF AppRecs
<1>8. /\ SaveOne \in [HomeDirs -> DiskRecs] /\ SaveOne[AppHome].vault.c = a.c
      /\ \A g \in HomeDirs : g /= AppHome => SaveOne[g] = disk[g]
  BY <1>1, <1>3, SaveOneFits
<1>9. disk' \in [HomeDirs -> DiskRecs]
  BY <1>1, <1>2, <1>8
<1>10. /\ HomeTypes' /\ HomeShape' /\ calls'[k] = IdleCall
       /\ \A j \in CallIds : j /= k => calls'[j] = calls[j]
  <2>1. \A j \in CallIds : j /= k => calls[j].pc /= "command"
    BY <1>3
  <2> QED
    BY <1>1, <1>2, <1>6, <1>7, <1>9, <2>1, IdleFits, CallStep DEF Holding
<1>11. \A j \in CallIds : calls'[j].acct \in {NoH, calls[j].acct}
  BY <1>10, IdleFits
<1>12. CASE Saves(r)
  <2>1. \A m \in Told' : m \in Told \/ (m.dev = a.c.dev /\ m.gen = a.c.gen)
    BY <1>5, <1>6 DEF Told
  <2>2. Books'
    BY <1>1, <1>2, <1>3, <1>6, <1>7, <1>8, <1>11, <1>12, <2>1, FacadeSaves
  <2> QED
    BY <1>10, <2>2 DEF HomeInv
<1>13. CASE ~Saves(r)
  <2>1. Told' = Told
    <3>1. r.script.save \in {"ok", "sent", "never"} /\ (r.script.save = "never" => r.script = mail_read_mark \/ r.script.steps \in Quiet)
      BY <1>4, DesktopDiscipline
    <3>2. CASE r.script.steps \in Quiet
      BY <1>5, <1>6, <3>2 DEF Told
    <3>3. CASE r.script = mail_read_mark
      BY <1>5, <1>6, <3>3 DEF Told
    <3>4. CASE ~Succeeds(r)
      BY <1>5, <1>6, <3>4 DEF Told
    <3> QED
      BY <1>13, <3>1, <3>2, <3>3, <3>4 DEF Saves
  <2>2. Held' \subseteq Held
    <3>1. Hold(<<"one">>, AppHome, app'.one) \subseteq Held
      BY <1>3, <1>7, HoldIs, HeldIs
    <3> QED
      BY <1>2, <1>11, <3>1, FacadeMoves
  <2>3. Trails \subseteq Trails'
    BY <1>2, <1>7, TrailsGrow
  <2>4. Kept(disk)' = Kept(disk)
    BY <1>2, <1>13 DEF Kept
  <2>5. Books'
    <3>1. Sound(Held, Kept(disk), Trails, world.devs, world.causes, world.sent, Told)
      BY <1>1 DEF Books
    <3>2. Sound(Held', Kept(disk), Trails', world.devs, world.causes, world.sent, Told)
      BY <2>2, <2>3, <3>1, Loses
    <3> QED
      BY <1>6, <2>1, <2>4, <3>2 DEF Books
  <2> QED
    BY <1>10, <2>5 DEF HomeInv
<1> QED
  BY <1>12, <1>13

(* A backup becomes a new device in another home.                          *)
LEMMA ImportKeeps ==
  ASSUME HomeInv, NEW h \in HomeDirs, NEW pass \in Passes, import_backup(h, pass)
  PROVE  HomeInv'
<1> DEFINE k == Key(pass, world.salts + 1)
           c == Imported(world.backup)
<1>1. HomeTypes /\ HomeShape /\ Books /\ world \in WorldRecs /\ disk \in [HomeDirs -> DiskRecs]
  BY DEF HomeInv, HomeTypes
<1>2. /\ disk' = Written(h, k, c) /\ UNCHANGED <<hsc, cli, app, calls>> /\ world.backup /= NoH
      /\ world' = Run([world EXCEPT !.devs = @ + 1, !.salts = @ + 1])
  BY DEF import_backup
<1>3. world.devs + 1 \in Nat /\ world.salts + 1 \in Nat /\ world.backup.full \in BOOLEAN
  BY <1>1, <1>2 DEF WorldRecs
<1>4. /\ world' \in WorldRecs /\ world'.devs = world.devs + 1 /\ world'.causes = world.causes
      /\ world'.sent = world.sent /\ world'.acked = world.acked
  BY <1>1, <1>2, <1>3, RunFits
<1>5. k \in [pass : Passes, salt : Nat] /\ c \in ContentsType /\ c.dev = world.devs + 1 /\ c.gen = 0
  BY <1>1, <1>3, NewAccountFits DEF Key, Imported
<1> HIDE DEF k, c
<1>6. /\ disk' \in [HomeDirs -> DiskRecs] /\ disk'[h].vault = [key |-> k, c |-> c]
      /\ \A g \in HomeDirs : g /= h => disk'[g] = disk[g]
  BY <1>1, <1>2, <1>5, WrittenFits
<1>7. HomeTypes' /\ HomeShape'
  BY <1>1, <1>2, <1>4, <1>6 DEF HomeTypes, HomeShape
<1>8. Held' = Held /\ Trails' = Trails
  BY <1>2 DEF Held, CliHeld, CallHeld, OneHeld, Trails
<1>9. Books'
  BY <1>1, <1>4, <1>5, <1>6, <1>8, AfterCreation
<1> QED
  BY <1>7, <1>9 DEF HomeInv

(* AppCrash: every copy of the app is gone, and the crash is remembered.   *)
LEMMA AppCrashKeeps ==
  ASSUME HomeInv, AppCrash
  PROVE  HomeInv'
<1> DEFINE e == world.causes \cup {"crash"}
<1>1. /\ HomeTypes /\ HomeShape /\ Books /\ world \in WorldRecs /\ disk \in [HomeDirs -> DiskRecs]
      /\ AppHome \in HomeDirs
  BY HomeAssumption DEF HomeInv, HomeTypes
<1>2. /\ app' = LockedApp /\ calls' = [k \in CallIds |-> IdleCall] /\ hsc' = hsc /\ cli' = cli
      /\ disk' = [disk EXCEPT ![AppHome].store = IF @ = "app" THEN NoH ELSE @]
      /\ world' = [world EXCEPT !.causes = e]
  BY DEF AppCrash
<1>3. e \in SUBSET {"overlap", "crash", "signal"} /\ world.causes \subseteq e /\ e /= {}
  BY <1>1 DEF WorldRecs
<1> HIDE DEF e
<1>4. disk' \in [HomeDirs -> DiskRecs] /\ \A h \in HomeDirs : disk'[h].vault = disk[h].vault
  BY <1>1, <1>2 DEF DiskRecs
<1>5. /\ world' \in WorldRecs /\ world'.devs = world.devs /\ world'.causes = e
      /\ world'.sent = world.sent /\ world'.acked = world.acked
  BY <1>1, <1>2, <1>3 DEF WorldRecs
<1>6. /\ calls' \in [CallIds -> CallRecs]
      /\ \A k \in CallIds : calls'[k].acct = NoH /\ calls'[k].pc = "idle"
  BY <1>2, IdleFits
<1>7. HomeTypes' /\ HomeShape'
  BY <1>1, <1>2, <1>4, <1>5, <1>6, IdleFits DEF HomeTypes, HomeShape, Holding
<1>8. Held' \subseteq Held
  BY <1>2, <1>6, IdleFits, FacadeMoves, HoldIs
<1>9. Books'
  BY <1>1, <1>3, <1>4, <1>5, <1>8, AfterLoss
<1> QED
  BY <1>7, <1>9 DEF HomeInv

----------------------------------------------------------------------------
(* Every step, and where a scenario starts.                                *)
HomeScenes(scenes) ==
  \A s \in scenes : /\ s.client \subseteq ClientCommands /\ s.desktop \subseteq DesktopCommands
                    /\ s.vault \in Passes \cup {NoH}

(* No copy is in memory, and one home may have a vault.                    *)
LEMMA HomeStarts ==
  ASSUME NEW scenes, HomeScenes(scenes), HomeInit(scenes)
  PROVE  HomeInv
<1> DEFINE v == [key |-> Key(hsc.vault, 1), c |-> Contents(1, 0, TRUE, 1)]
           d == [NoHome EXCEPT !.vault = v]
<1>1. /\ hsc.client \subseteq ClientCommands /\ hsc.desktop \subseteq DesktopCommands
      /\ hsc.vault \in Passes \cup {NoH} /\ AppHome \in HomeDirs
  BY HomeAssumption DEF HomeInit, HomeScenes
<1>2. /\ disk = [h \in HomeDirs |-> IF h = AppHome /\ hsc.vault /= NoH THEN d ELSE NoHome]
      /\ cli = [p \in Clis |-> OffCli] /\ app = LockedApp /\ calls = [k \in CallIds |-> IdleCall]
      /\ world = [sent |-> {}, n |-> 0, devs |-> 1, salts |-> 1, causes |-> {}, acked |-> {},
                  runs |-> 0, backup |-> NoH]
  BY DEF HomeInit
<1>3. world \in WorldRecs /\ world.devs = 1 /\ world.sent = {} /\ world.acked = {} /\ world.causes = {}
  BY <1>2 DEF WorldRecs
<1>4. NoHome \in DiskRecs /\ NoHome.vault = NoH
  BY DEF NoHome, DiskRecs
<1>5. hsc.vault /= NoH => d \in DiskRecs /\ d.vault = v /\ v.c.dev = 1 /\ v.c.gen = 0
  BY <1>1 DEF NoHome, DiskRecs, Copies, ContentsType, Key, Contents
<1> HIDE DEF d, v
<1>6. disk \in [HomeDirs -> DiskRecs]
  BY <1>2, <1>4, <1>5
<1>7. HomeTypes /\ HomeShape
  BY <1>1, <1>2, <1>3, <1>6, IdleFits, OffCliFits DEF HomeTypes, HomeShape, Holding
<1>8. Held = {}
  <2>1. \A p \in Clis : cli[p].acct = NoH
    BY <1>2, OffCliFits
  <2>2. \A k \in CallIds : calls[k].acct = NoH
    BY <1>2, IdleFits
  <2>3. app.one = NoH
    BY <1>2, IdleFits
  <2> QED
    BY <2>1, <2>2, <2>3, HeldIs
<1>9. \A x \in Kept(disk) : x.home = AppHome /\ x.dev = 1 /\ x.gen = 0 /\ x = [home |-> AppHome, dev |-> 1, gen |-> 0]
  <2> SUFFICES ASSUME NEW h \in HomeDirs, disk[h].vault /= NoH
               PROVE  h = AppHome /\ disk[h].vault.c.dev = 1 /\ disk[h].vault.c.gen = 0
    BY DEF Kept
  <2> QED
    BY <1>2, <1>4, <1>5
<1>10. Told = {}
  BY <1>3 DEF Told
<1>11. Books
  BY <1>3, <1>8, <1>9, <1>10 DEF Books, Sound
<1> QED
  BY <1>7, <1>11 DEF HomeInv

(* Every program's every step.                                             *)
LEMMA HomeKeeps ==
  ASSUME HomeInv, HomeNext
  PROVE  HomeInv'
<1>1. CASE CliNext
  BY <1>1, identityKeeps, CliOpenKeeps, CliStoreKeeps, CliStepKeeps, CliEndKeeps, CliCrashKeeps DEF CliNext
<1>2. ASSUME NEW k \in CallIds, hello_unlock(k) PROVE HomeInv'
  <2>1. disk[AppHome].hello \in Passes
    BY <1>2, HomeAssumption DEF HomeInv, HomeTypes, DiskRecs, hello_unlock
  <2> QED
    BY <1>2, <2>1, CallsKeep DEF hello_unlock
<1>3. ASSUME NEW k \in CallIds, NEW pass \in Passes,
             onboarding_create(k, pass) \/ onboarding_restore(k, pass) \/ restore_from_backup(k, pass)
      PROVE  HomeInv'
  <2>1. calls[k].pc = "idle" /\ hsc' = hsc /\ cli' = cli
    BY <1>3 DEF onboarding_create, onboarding_restore, restore_from_backup, Calls
  <2>2. CASE onboarding_create(k, pass)
    BY <2>1, <2>2, OnboardKeeps DEF onboarding_create
  <2>3. CASE onboarding_restore(k, pass)
    BY <2>1, <2>3, OnboardKeeps DEF onboarding_restore
  <2>4. CASE restore_from_backup(k, pass)
    <3>1. world.backup.full \in BOOLEAN
      BY <2>4 DEF restore_from_backup, HomeInv, HomeTypes, WorldRecs
    <3> QED
      BY <2>1, <2>4, <3>1, OnboardKeeps DEF restore_from_backup, Imported
  <2> QED
    BY <1>3, <2>2, <2>3, <2>4
<1>4. ASSUME NEW k \in CallIds,
             \/ open_account(k)
             \/ \E link \in BOOLEAN : db_key_of(k, link)
             \/ SetOne(k) \/ DropOne(k) \/ CommandEnd(k) \/ Reread(k) \/ Rewrite(k) \/ backup_export(k)
             \/ \E o \in [wire : BOOLEAN, on : BOOLEAN] : CommandStep(k, o)
             \/ \E pass \in Passes, new \in Passes : change_passphrase(k, pass, new)
      PROVE  HomeInv'
  BY <1>4, CallOpens, CallKeysCache, SetOneKeeps, DropOneKeeps, CommandEndKeeps, RewriteKeeps,
     BackupKeeps, CommandStepKeeps, PassphraseKeeps
<1>5. CASE AppNext
  <2>1. \/ \/ onboarding_generate \/ touch \/ GoIdle \/ SyncStop \/ hello_disable \/ wipe_local_data
           \/ \E s \in {SyncRound, flush_queue} : SyncTake(s)
        \/ \E o \in [wire : BOOLEAN, on : BOOLEAN] : SyncStep(o)
        \/ SyncEnd \/ AppCrash
        \/ \E h \in HomeDirs, pass \in Passes : import_backup(h, pass)
        \/ \E k \in CallIds :
             \/ \/ open_account(k)
                \/ \E link \in BOOLEAN : db_key_of(k, link)
                \/ SetOne(k) \/ DropOne(k) \/ CommandEnd(k) \/ Reread(k) \/ Rewrite(k) \/ backup_export(k)
                \/ \E o \in [wire : BOOLEAN, on : BOOLEAN] : CommandStep(k, o)
                \/ \E pass \in Passes, new \in Passes : change_passphrase(k, pass, new)
             \/ \/ \E pass \in Passes : unlock(k, pass)
                \/ lock(k) \/ auto_lock(k) \/ AbortSync(k) \/ ClearSession(k) \/ SetSession(k) \/ with_link(k)
                \/ \E s \in hsc.desktop : Command(k, s)
             \/ hello_unlock(k)
             \/ \E pass \in Passes : hello_enable(k, pass)
             \/ \E pass \in Passes : onboarding_create(k, pass) \/ onboarding_restore(k, pass)
                                     \/ restore_from_backup(k, pass)
    BY <1>5, Zenon DEF AppNext
  <2> QED
    BY <1>2, <1>3, <1>4, <2>1, FlagsKeep, SyncStepKeeps, SyncEndKeeps, AppCrashKeeps, ImportKeeps, CallsKeep
<1> QED
  BY <1>1, <1>5 DEF HomeNext

(* The books read nothing but these variables.                             *)
LEMMA HomeStutters ==
  ASSUME HomeInv, UNCHANGED homeVars
  PROVE  HomeInv'
<1>1. HomeTypes' /\ HomeShape'
  BY DEF HomeInv, HomeTypes, HomeShape, homeVars
<1>2. Books'
  BY DEF HomeInv, Books, Held, CliHeld, CallHeld, OneHeld, Kept, Trails, Told, homeVars
<1> QED
  BY <1>1, <1>2 DEF HomeInv

(* What the books say of the vault.                                        *)
LEMMA BooksMeanVaultKeepsUp ==
  ASSUME HomeInv
  PROVE  VaultKeepsUp
<1>1. Sound(Held, Kept(disk), Trails, world.devs, world.causes, world.sent, Told)
  BY DEF HomeInv, Books
<1>2. GenerationsAreUsedOnce
  BY <1>1 DEF Sound, GenerationsAreUsedOnce
<1>3. AckedIsSaved
  <2> SUFFICES ASSUME "overlap" \notin world.causes, NEW a \in world.acked, NEW h \in HomeDirs,
                      a.script /= mail_read_mark, disk[h].vault /= NoH, disk[h].vault.c.dev = a.dev
               PROVE  a.gen <= disk[h].vault.c.gen
    BY DEF AckedIsSaved
  <2> DEFINE y == VaultOf(h, disk[h].vault)
  <2>1. y \in Kept(disk) /\ y.dev = disk[h].vault.c.dev /\ y.gen = disk[h].vault.c.gen
    BY KeptHas DEF VaultOf
  <2>2. a \in Told
    BY DEF Told
  <2> HIDE DEF y
  <2> QED
    BY <1>1, <2>1, <2>2 DEF Sound
<1> QED
  BY <1>2, <1>3 DEF VaultKeepsUp

(* For any homes, passphrases, runs of the client and commands in flight:  *)
(* no MLS generation of a device encrypts two messages unless a program    *)
(* died unsaved, two had the account open or a call signal was lost, and   *)
(* what a command said is done is in the vault.                            *)
THEOREM VaultAlwaysKeepsUp ==
  ASSUME NEW CONSTANT scenes, HomeScenes(scenes)
  PROVE  HomeInit(scenes) /\ [][HomeNext]_homeVars => []VaultKeepsUp
<1>1. HomeInit(scenes) => HomeInv
  BY HomeStarts
<1>2. HomeInv /\ [HomeNext]_homeVars => HomeInv'
  BY HomeKeeps, HomeStutters
<1>3. HomeInv => VaultKeepsUp
  BY BooksMeanVaultKeepsUp
<1> QED
  BY <1>1, <1>2, <1>3, PTL

----------------------------------------------------------------------------
(* NodeSupervisor.                                                         *)
Stages == {"unborn", "booting", "alone", "behind", "private", "good", "hung", "gone"}
States == {"Stopped", "Starting", "Connecting", "Syncing", "Degraded", "Running", "Stopping",
           "Crashed", "Error"}

(* The types the proof needs: the stage of every process, whom the record  *)
(* holds, where the start and the stop are.                            *)
SupervisorTypes ==
  /\ nprocs \in [Pids -> Stages]
  /\ nsup.child \in Pids \cup {NoProcess}
  /\ nstart.at \in {"idle", "preflight", "spawn", "store"}
  /\ nstart.at = "store" => nstart.pid \in Pids
  /\ nstop.at \in {"idle", "kill", "settle", "logon"}
  /\ nstop.at = "kill" => nstop.pid \in Pids

(* The record stays empty from the first lock of a start to its last: the  *)
(* child stored then replaces nobody.                                      *)
StartHoldsNobody == nstart.at # "idle" => nsup.child = NoProcess

(* The fields that EXCEPT writes are there.                                *)
RecordsWhole == "child" \in DOMAIN nsup /\ "at" \in DOMAIN nstart /\ "at" \in DOMAIN nstop

SupervisorInv == SupervisorTypes /\ StartHoldsNobody /\ NoStrayNode

----------------------------------------------------------------------------
LEMMA InitSupervised ==
  ASSUME NEW scenarios, SupervisorInit(scenarios)
  PROVE  RecordsWhole /\ SupervisorInv
BY DEF SupervisorInit, RecordsWhole, SupervisorInv, SupervisorTypes, StartHoldsNobody, NoStrayNode, Stages,
   Fresh, NoStart, NoStop, Alive

(* What a stop takes the child out of.                                     *)
TakenOut == nsup' = [nsup EXCEPT !.child = NoProcess, !.state = "Stopping"]

LEMMA TakenOutHoldsNobody ==
  ASSUME "child" \in DOMAIN nsup, TakenOut
  PROVE  "child" \in DOMAIN nsup' /\ nsup'.child = NoProcess
BY DEF TakenOut

LEMMA RecordsStayWhole ==
  ASSUME RecordsWhole, [SupervisorNext]_nodeVars
  PROVE  RecordsWhole'
<1> USE DEF RecordsWhole, nodeVars
<1>1. ASSUME NEW p \in Pids, NodeRuns(p) PROVE RecordsWhole'
  BY <1>1 DEF NodeRuns
<1>2. CASE StartCheck \/ Preflight \/ Spawn \/ Store
  <2>1. ASSUME NEW s, "child" \in DOMAIN s, NEW v
        PROVE  "child" \in DOMAIN [s EXCEPT !.child = v] /\ "child" \in DOMAIN [s EXCEPT !.state = v]
    BY <2>1
  <2>2. ASSUME NEW s, "at" \in DOMAIN s, NEW v PROVE "at" \in DOMAIN [s EXCEPT !.at = v]
    BY <2>2
  <2>3. CASE StartCheck
    BY <2>1, <2>3 DEF StartCheck
  <2>4. CASE Preflight
    BY <2>1, <2>2, <2>4 DEF Preflight, Failed, NoStart
  <2>5. CASE Spawn
    BY <2>1, <2>5 DEF Spawn, Failed, NoStart
  <2>6. CASE Store
    BY <2>6 DEF Store, Stored, NoStart
  <2> QED
    BY <1>2, <2>3, <2>4, <2>5, <2>6
<1>3. CASE StopTake \/ StopKill \/ StopSettle \/ StopLogon
  <2>1. CASE StopTake
    <3>1. CASE nsup.child = NoProcess
      BY <2>1, <3>1 DEF StopTake
    <3>2. CASE nsup.child # NoProcess
      <4>1. TakenOut /\ nstop' = [at |-> "kill", pid |-> nsup.child]
        BY <2>1, <3>2 DEF StopTake, TakenOut
      <4>2. "at" \in DOMAIN nstop' /\ UNCHANGED nstart
        BY <2>1, <4>1 DEF StopTake
      <4> QED
        BY <4>1, <4>2, TakenOutHoldsNobody
    <3> QED
      BY <3>1, <3>2
  <2>2. CASE StopKill
    BY <2>2 DEF StopKill
  <2>3. CASE StopSettle
    BY <2>3 DEF StopSettle
  <2>4. CASE StopLogon
    BY <2>4 DEF StopLogon, NoStop
  <2> QED
    BY <1>3, <2>1, <2>2, <2>3, <2>4
<1>4. CASE node_install \/ node_uninstall \/ CachedTooOld \/ WatchAsk
  BY <1>4 DEF node_install, node_uninstall, CachedTooOld, WatchAsk
<1>5. CASE WatchLook \/ WatchObserve \/ node_status \/ GracePasses
  BY <1>5 DEF WatchLook, WatchObserve, node_status, GracePasses, Noticed, Observe
<1>6. CASE UNCHANGED nodeVars
  BY <1>6
<1> QED
  BY <1>1, <1>2, <1>3, <1>4, <1>5, <1>6 DEF SupervisorNext

(* Steps that neither make a process live nor touch who is responsible.    *)
LEMMA NobodyComesAlive ==
  ASSUME SupervisorInv, UNCHANGED <<nstart, nstop>>, nsup'.child = nsup.child,
         nprocs' \in [Pids -> Stages],
         \A p \in Pids : Alive(p)' => Alive(p)
  PROVE  SupervisorInv'
<1>1. SupervisorTypes' /\ StartHoldsNobody'
  BY DEF SupervisorInv, SupervisorTypes, StartHoldsNobody
<1>2. NoStrayNode'
  BY DEF SupervisorInv, NoStrayNode
<1> QED
  BY <1>1, <1>2 DEF SupervisorInv

(* A process that is alive enters another stage.                           *)
Enters(p, stage) ==
  nprocs[p] \notin {"unborn", "gone"} /\ nprocs' = [nprocs EXCEPT ![p] = stage]

LEMMA RunsSupervised ==
  ASSUME SupervisorInv, NEW p \in Pids, NodeRuns(p)
  PROVE  SupervisorInv'
<1>1. nprocs \in [Pids -> Stages]
  BY DEF SupervisorInv, SupervisorTypes
<1>2. UNCHANGED <<nsup, nstart, nstop>>
  BY DEF NodeRuns
<1>3. \A i \in DOMAIN Health : Health[i] \in Stages /\ Health[i] # "unborn" /\ Health[i] # "gone"
  BY DEF Health, Stages
<1>4. \E stage \in Stages : Enters(p, stage)
  <2>1. ASSUME NEW i \in DOMAIN Health, NEW j \in DOMAIN Health, i < j, nprocs[p] = Health[i],
               nprocs' = [nprocs EXCEPT ![p] = IF i = 1 /\ ~PortFree THEN "gone" ELSE Health[j]]
        PROVE  \E stage \in Stages : Enters(p, stage)
    BY <1>3, <2>1 DEF Stages, Enters
  <2>2. ASSUME nprocs[p] \in Answering, nprocs' = [nprocs EXCEPT ![p] = "hung"]
        PROVE  \E stage \in Stages : Enters(p, stage)
    BY <2>2 DEF Answering, Stages, Enters
  <2>3. ASSUME Alive(p), nprocs' = [nprocs EXCEPT ![p] = "gone"]
        PROVE  \E stage \in Stages : Enters(p, stage)
    BY <2>3 DEF Alive, Stages, Enters
  <2> QED
    BY <2>1, <2>2, <2>3 DEF NodeRuns
<1>5. nprocs' \in [Pids -> Stages] /\ \A q \in Pids : Alive(q)' => Alive(q)
  BY <1>1, <1>4 DEF Alive, Enters
<1> QED
  BY <1>2, <1>5, NobodyComesAlive

(* The four steps of a start.                                              *)
LEMMA StartSupervised ==
  ASSUME RecordsWhole, SupervisorInv, StartCheck \/ Preflight \/ Spawn \/ Store
  PROVE  SupervisorInv'
<1> USE DEF RecordsWhole, SupervisorInv, SupervisorTypes, StartHoldsNobody, NoStrayNode
<1>1. CASE StartCheck
  <2>1. CASE nsup.child # NoProcess /\ Alive(nsup.child)
    <3>1. UNCHANGED <<nprocs, nsup, nstart, nstop>>
      BY <1>1, <2>1 DEF StartCheck
    <3> QED
      BY <3>1, NobodyComesAlive DEF Alive
  <2>2. CASE ~(nsup.child # NoProcess /\ Alive(nsup.child))
    <3>1. /\ UNCHANGED <<nprocs, nstop>>
          /\ nsup'.child = NoProcess
          /\ nstart'.at = "preflight"
          /\ nstart.at = "idle"
      BY <1>1, <2>2 DEF StartCheck
    <3>2. \A p \in Pids : Alive(p)' = Alive(p)
      BY <3>1 DEF Alive
    <3>3. NoStrayNode'
      BY <2>2, <3>1, <3>2
    <3> QED
      BY <3>1, <3>3
  <2> QED
    BY <2>1, <2>2
<1>2. CASE Preflight
  <2>1. /\ UNCHANGED <<nprocs, nstop>> /\ nsup'.child = nsup.child
        /\ nstart.at = "preflight" /\ nstart'.at \in {"spawn", "idle"}
    BY <1>2 DEF Preflight, NoStart, Failed
  <2>2. \A p \in Pids : Alive(p)' = Alive(p)
    BY <2>1 DEF Alive
  <2> QED
    BY <2>1, <2>2
<1>3. CASE Spawn
  <2>1. nstart.at = "spawn" /\ UNCHANGED nstop /\ nsup.child = NoProcess
    BY <1>3 DEF Spawn
  <2>2. ASSUME NEW p \in Pids, nprocs' = [nprocs EXCEPT ![p] = "booting"],
               nstart' = [at |-> "store", pid |-> p], UNCHANGED nsup
        PROVE  SupervisorInv'
    <3>1. nprocs' \in [Pids -> Stages] /\ \A q \in Pids : Alive(q)' => Alive(q) \/ q = p
      BY <2>2 DEF Alive, Stages
    <3>2. nstart'.at = "store" /\ nstart'.pid = p
      BY <2>2
    <3> QED
      BY <2>1, <2>2, <3>1, <3>2
  <2>3. ASSUME nsup' = Failed(nsup), nstart' = NoStart, UNCHANGED nprocs
        PROVE  SupervisorInv'
    <3>1. nsup'.child = nsup.child /\ nstart'.at = "idle"
      BY <2>3 DEF Failed, NoStart
    <3>2. \A p \in Pids : Alive(p)' = Alive(p)
      BY <2>3 DEF Alive
    <3> QED
      BY <2>1, <2>3, <3>1, <3>2
  <2> QED
    BY <1>3, <2>2, <2>3 DEF Spawn
<1>4. CASE Store
  <2>1. /\ nstart.at = "store" /\ UNCHANGED <<nprocs, nstop>> /\ nsup.child = NoProcess
        /\ nsup'.child = nstart.pid /\ nstart'.at = "idle"
    BY <1>4 DEF Store, Stored, NoStart
  <2>2. \A p \in Pids : Alive(p)' = Alive(p)
    BY <2>1 DEF Alive
  <2> QED
    BY <2>1, <2>2, SupervisorAssumption DEF Pids
<1> QED
  BY <1>1, <1>2, <1>3, <1>4

(* The four steps of a stop: the child is out of the record before it is   *)
(* killed, in the hands of this stop alone.                                *)
LEMMA StopSupervised ==
  ASSUME RecordsWhole, SupervisorInv, StopTake \/ StopKill \/ StopSettle \/ StopLogon
  PROVE  SupervisorInv'
<1> USE DEF RecordsWhole, SupervisorInv, SupervisorTypes, StartHoldsNobody, NoStrayNode
<1>1. CASE StopTake
  <2>1. UNCHANGED <<nprocs, nstart>> /\ nstop.at = "idle"
    BY <1>1 DEF StopTake
  <2>2. \A p \in Pids : Alive(p)' = Alive(p)
    BY <2>1 DEF Alive
  <2>3. CASE nsup.child = NoProcess
    <3>1. nsup'.child = nsup.child /\ nstop'.at = "logon"
      BY <1>1, <2>3 DEF StopTake
    <3> QED
      BY <2>1, <2>2, <2>3, <3>1
  <2>4. CASE nsup.child # NoProcess
    <3>0. TakenOut /\ nstop' = [at |-> "kill", pid |-> nsup.child]
      BY <1>1, <2>4 DEF StopTake, TakenOut
    <3>1. nsup'.child = NoProcess /\ nstop'.at = "kill" /\ nstop'.pid = nsup.child
      BY <3>0, TakenOutHoldsNobody
    <3> QED
      BY <2>1, <2>2, <2>4, <3>1
  <2> QED
    BY <2>3, <2>4
<1>2. CASE StopKill
  <2>1. /\ UNCHANGED <<nsup, nstart>> /\ nstop.at = "kill" /\ nstop.pid \in Pids
        /\ nprocs' = [nprocs EXCEPT ![nstop.pid] = "gone"] /\ nstop'.at = "settle"
    BY <1>2 DEF StopKill
  <2>2. nprocs' \in [Pids -> Stages]
    BY <2>1 DEF Stages
  <2>3. \A p \in Pids : Alive(p)' => Alive(p) /\ p # nstop.pid
    BY <2>1 DEF Alive
  <2> QED
    BY <2>1, <2>2, <2>3
<1>3. CASE StopSettle
  <2>1. /\ UNCHANGED <<nprocs, nstart>> /\ nstop.at = "settle" /\ nsup'.child = nsup.child
        /\ nstop'.at = "logon"
    BY <1>3 DEF StopSettle
  <2>2. \A p \in Pids : Alive(p)' = Alive(p)
    BY <2>1 DEF Alive
  <2> QED
    BY <2>1, <2>2
<1>4. CASE StopLogon
  <2>1. /\ UNCHANGED <<nsup, nstart>> /\ nstop.at = "logon" /\ nstop'.at = "idle"
        /\ LogonStop(Registered)
    BY <1>4 DEF StopLogon, NoStop
  <2>2. nprocs' \in [Pids -> Stages] /\ \A p \in Pids : Alive(p)' => Alive(p)
    BY <2>1 DEF LogonStop, Alive, Stages
  <2> QED
    BY <2>1, <2>2
<1> QED
  BY <1>1, <1>2, <1>3, <1>4

(* The registration, the watch loop and the page: an exit that is noticed  *)
(* empties the record of a process that is not alive.                      *)
LEMMA RestSupervised ==
  ASSUME RecordsWhole, SupervisorInv,
         \/ node_install \/ node_uninstall \/ CachedTooOld \/ WatchLook \/ WatchAsk
         \/ WatchObserve \/ node_status \/ GracePasses
  PROVE  SupervisorInv'
<1>1. nprocs \in [Pids -> Stages]
  BY DEF SupervisorInv, SupervisorTypes
<1>2. UNCHANGED <<nstart, nstop>>
  BY DEF node_install, node_uninstall, CachedTooOld, WatchLook, WatchAsk, WatchObserve,
     node_status, GracePasses
<1>3. CASE node_uninstall
  <2>1. UNCHANGED nsup /\ LogonStop(nlogon.kind)
    BY <1>3 DEF node_uninstall
  <2>2. nprocs' \in [Pids -> Stages] /\ \A p \in Pids : Alive(p)' => Alive(p)
    BY <1>1, <2>1 DEF LogonStop, Alive, Stages
  <2> QED
    BY <1>2, <2>1, <2>2, NobodyComesAlive
<1>4. ASSUME UNCHANGED nprocs, nsup'.child = nsup.child PROVE SupervisorInv'
  BY <1>1, <1>2, <1>4, NobodyComesAlive DEF Alive
<1>5. CASE node_install \/ CachedTooOld \/ WatchAsk
  BY <1>4, <1>5 DEF node_install, CachedTooOld, WatchAsk
<1>6. CASE GracePasses
  <2>1. UNCHANGED nprocs /\ nsup'.child = nsup.child
    BY <1>6 DEF GracePasses
  <2> QED
    BY <1>4, <2>1
<1>7. CASE WatchObserve
  <2>1. UNCHANGED nprocs /\ nsup' = Observe(nsup, nwatch.answer)
    BY <1>7 DEF WatchObserve
  <2>2. nsup'.child = nsup.child
    BY <2>1 DEF Observe
  <2> QED
    BY <1>4, <2>1, <2>2
<1>8. CASE WatchLook \/ node_status
  <2>1. UNCHANGED nprocs /\ nsup' = Noticed(nsup)
    BY <1>8 DEF WatchLook, node_status
  <2>2. CASE Ended(nsup)
    <3>1. nsup'.child = NoProcess /\ ~Alive(nsup.child)
      BY <2>1, <2>2 DEF Noticed, Ended
    <3>2. \A p \in Pids : Alive(p)' = Alive(p)
      BY <2>1 DEF Alive
    <3> QED
      BY <1>2, <2>1, <3>1, <3>2
         DEF SupervisorInv, SupervisorTypes, StartHoldsNobody, NoStrayNode
  <2>3. CASE ~Ended(nsup)
    BY <1>4, <2>1, <2>3 DEF Noticed
  <2> QED
    BY <2>2, <2>3
<1> QED
  BY <1>3, <1>5, <1>6, <1>7, <1>8

LEMMA NextSupervised ==
  RecordsWhole /\ SupervisorInv /\ [SupervisorNext]_nodeVars => RecordsWhole' /\ SupervisorInv'
<1> SUFFICES ASSUME RecordsWhole, SupervisorInv, [SupervisorNext]_nodeVars PROVE SupervisorInv'
  BY RecordsStayWhole
<1>1. CASE UNCHANGED nodeVars
  <2>1. UNCHANGED <<nprocs, nsup, nstart, nstop>>
    BY <1>1 DEF nodeVars
  <2>2. nprocs \in [Pids -> Stages]
    BY DEF SupervisorInv, SupervisorTypes
  <2> QED
    BY <2>1, <2>2, NobodyComesAlive DEF Alive
<1> QED
  BY <1>1, RunsSupervised, StartSupervised, StopSupervised, RestSupervised DEF SupervisorNext

(* In every scenario, and however starts, stops, exits, status requests and*)
(* registrations overlap, a node process that lives is the supervised child*)
(* or in the hands of the start or the stop under way (node_supervisor.rs  *)
(* start, stop, status; node_manager.rs stop).                             *)
THEOREM NoNodeIsStray ==
  ASSUME NEW CONSTANT scenarios
  PROVE  SupervisorInit(scenarios) /\ [][SupervisorNext]_nodeVars => []NoStrayNode
<1>1. SupervisorInit(scenarios) => RecordsWhole /\ SupervisorInv
  BY InitSupervised
<1>2. SupervisorInv => NoStrayNode
  BY DEF SupervisorInv
<1> QED
  BY <1>1, <1>2, NextSupervised, PTL



----------------------------------------------------------------------------
(* The relay of chain queries and the rewards agent: what they hold.       *)

(* The peers a client asks are distinct and one of them at most lies.      *)
DistinctIn(q) == \A i, j \in DOMAIN q : q[i] = q[j] => i = j
RelayScenarios(scenes) ==
  \A s \in scenes :
    /\ s.relays \in Seq({s.relays[i] : i \in DOMAIN s.relays}) /\ DistinctIn(s.relays)
    /\ \A i, j \in DOMAIN s.relays :
         s.relays[i] \in s.liars /\ s.relays[j] \in s.liars => i = j
    /\ s.values \in Seq(Nat) /\ s.values # <<>> /\ s.lies \subseteq Nat

Answers == [status : {200, 413}, body : Nat, height : Nat]

(* A read: whom it asked and whom it still may ask are different peers,    *)
(* and what an honest one answered is remembered.                          *)
Gots == [peer : RelayNodes, answer : Answers]
ReadOf(path, used) ==
  [on : BOOLEAN, path : {path}, pool : Seq(RelayNodes), used : {used}, got : Seq(Gots),
   single : BOOLEAN, stage : {"none", "ask", "again", "third"}]
ReadRec(r) == ReadOf(r.path, r.used)
Asked(r, served) ==
  /\ DistinctIn(r.pool)
  /\ \A i, j \in DOMAIN r.got : r.got[i].peer = r.got[j].peer => i = j
  /\ \A i \in DOMAIN r.got : \A j \in DOMAIN r.pool : r.got[i].peer # r.pool[j]
  /\ \A i \in DOMAIN r.got : r.got[i].peer \notin lsc.liars => r.got[i].answer \in served
AtStage(r) ==
  \/ r.stage = "ask" /\ Len(r.got) \in {0, 1}
  \/ r.stage \in {"again", "third"} /\ Len(r.got) = 2
ReadSound(read, last, served) ==
  /\ read \in ReadRec(read)
  /\ read.on => Asked(read, served) /\ AtStage(read)
  /\ last.agreed /\ ~read.on => \E a \in served : same_answer(a, last.answer)
RelayTypes ==
  /\ RelayScenarios({lsc})
  /\ ltip \in 1..Len(lsc.values) /\ lat \in [RelayNodes -> 1..ltip]
RelayInv == RelayTypes /\ ReadSound(lread, llast, lserved)

(* The agent: the receipts in a batch under way are finitely many, and the *)
(* counters account for what was accepted.                                 *)
TaskOf(job, seq, id, polls) ==
  [pc : {"idle", "prepare", "broadcast", "poll"}, job : {job}, seq : {seq}, id : {id}, polls : {polls}]
TaskRec(x) == TaskOf(x.job, x.seq, x.id, x.polls)
JobFits(job) == job.kind = "receipts" => IsFiniteSet(job.args[1])
TasksFit(tasks) ==
  /\ tasks = [t \in Tasks |-> tasks[t]]
  /\ \A t \in Tasks : tasks[t] \in TaskRec(tasks[t]) /\ JobFits(tasks[t].job)
StatRecs == [accepted : Nat, refused : Nat, settled : Nat, rejected : Nat, dropped : Nat]
ReceiptBooks(pend, stats, base) ==
  /\ IsFiniteSet(pend) /\ base \in Nat /\ stats \in StatRecs
  /\ stats.accepted + base
       <= Cardinality(pend) + stats.settled + stats.rejected + stats.dropped
RewardsInv == TasksFit(ktask) /\ ReceiptBooks(kpend, kstats, kbase)

(* FirstOf: the first receipts of a set are finitely many.                 *)
LEMMA FirstOfIsFinite ==
  ASSUME NEW rs, NEW n \in Int, IsFiniteSet(rs)
  PROVE  IsFiniteSet(FirstOf(rs, n))
<1> DEFINE m == IF n < Cardinality(rs) THEN n ELSE Cardinality(rs)
           o == InOrder(rs)
           f == [i \in 1..m |-> o[i]]
           im == {o[i] : i \in 1..m}
<1>1. Cardinality(rs) \in Nat
  BY FS_CardinalityType
<1>2. m \in Int
  BY <1>1
<1>3. IsFiniteSet(1..m)
  BY <1>2, FS_Interval
<1> HIDE DEF m, o
<1>4. f \in Surjection(1..m, im)
  BY DEF Surjection
<1>5. IsFiniteSet(im)
  BY <1>3, <1>4, FS_Surjection
<1> QED
  BY <1>5 DEF FirstOf, m, o

(* Taking finitely many receipts out lowers the count by their number at   *)
(* most.                                                                   *)
LEMMA TakenAtMost ==
  ASSUME NEW pend, NEW rs, IsFiniteSet(pend), IsFiniteSet(rs)
  PROVE  /\ IsFiniteSet(pend \ rs) /\ Cardinality(rs) \in Nat
         /\ Cardinality(pend) \in Nat /\ Cardinality(pend \ rs) \in Nat
         /\ Cardinality(pend \ rs) >= Cardinality(pend) - Cardinality(rs)
<1>1. IsFiniteSet(pend \ rs) /\ Cardinality(pend \ rs) = Cardinality(pend) - Cardinality(pend \cap rs)
  BY FS_Difference
<1>2. IsFiniteSet(rs \cap pend) /\ Cardinality(rs \cap pend) <= Cardinality(rs)
  BY FS_Intersection
<1>3. rs \cap pend = pend \cap rs
  OBVIOUS
<1>4. Cardinality(rs) \in Nat /\ Cardinality(pend) \in Nat /\ Cardinality(pend \ rs) \in Nat
      /\ Cardinality(pend \cap rs) \in Nat
  BY <1>1, <1>2, <1>3, FS_CardinalityType
<1> QED
  BY <1>1, <1>2, <1>3, <1>4

LEMMA SettledKeepsBooks ==
  ASSUME NEW pend, NEW stats, NEW base, NEW rs, ReceiptBooks(pend, stats, base), IsFiniteSet(rs)
  PROVE  /\ ReceiptBooks(pend \ rs, [stats EXCEPT !.settled = @ + Cardinality(rs)], base)
         /\ ReceiptBooks(pend \ rs, [stats EXCEPT !.rejected = @ + Cardinality(rs)], base)
<1>1. IsFiniteSet(pend \ rs) /\ Cardinality(rs) \in Nat
      /\ Cardinality(pend) \in Nat /\ Cardinality(pend \ rs) \in Nat
      /\ Cardinality(pend \ rs) >= Cardinality(pend) - Cardinality(rs)
  BY TakenAtMost DEF ReceiptBooks
<1>2. [stats EXCEPT !.settled = @ + Cardinality(rs)] \in StatRecs
      /\ [stats EXCEPT !.rejected = @ + Cardinality(rs)] \in StatRecs
  BY <1>1 DEF ReceiptBooks, StatRecs
<1> QED
  BY <1>1, <1>2 DEF ReceiptBooks, StatRecs

(* insert_pending.                                                         *)
LEMMA InsertKeepsBooks ==
  ASSUME NEW pend, NEW stats, NEW base, NEW out, NEW r,
         ReceiptBooks(pend, stats, base), IsFiniteSet(out), r \notin pend
  PROVE  ReceiptBooks((pend \ out) \cup {r},
           [stats EXCEPT !.dropped = @ + Cardinality(out), !.accepted = @ + 1], base)
<1> DEFINE after == [stats EXCEPT !.dropped = @ + Cardinality(out), !.accepted = @ + 1]
<1>1. IsFiniteSet(pend \ out) /\ Cardinality(out) \in Nat
      /\ Cardinality(pend) \in Nat /\ Cardinality(pend \ out) \in Nat
      /\ Cardinality(pend \ out) >= Cardinality(pend) - Cardinality(out)
  BY TakenAtMost DEF ReceiptBooks
<1>2. IsFiniteSet((pend \ out) \cup {r})
      /\ Cardinality((pend \ out) \cup {r}) = Cardinality(pend \ out) + 1
  BY <1>1, FS_AddElement
<1>3. /\ after.dropped = stats.dropped + Cardinality(out)
      /\ after.accepted = stats.accepted + 1 /\ after.settled = stats.settled
      /\ after.rejected = stats.rejected
  BY <1>1 DEF ReceiptBooks, StatRecs
<1>5. stats.dropped + Cardinality(out) \in Nat /\ stats.accepted + 1 \in Nat
  BY <1>1 DEF ReceiptBooks, StatRecs
<1>6. after \in StatRecs
  BY <1>5 DEF ReceiptBooks, StatRecs
<1> HIDE DEF after
<1>4. ReceiptBooks((pend \ out) \cup {r}, after, base)
  BY <1>1, <1>2, <1>3, <1>6 DEF ReceiptBooks, StatRecs
<1> QED
  BY <1>4 DEF after

LEMMA TaskOfIsRec ==
  ASSUME NEW job, NEW seq, NEW id, NEW polls, NEW x \in TaskOf(job, seq, id, polls)
  PROVE  x \in TaskRec(x) /\ x.job = job
<1>1. x.job = job /\ x.seq = seq /\ x.id = id /\ x.polls = polls
  BY DEF TaskOf
<1> QED
  BY <1>1 DEF TaskRec

(* Starting and ending a call, and giving it up.                           *)
LEMMA StartFits ==
  ASSUME TasksFit(ktask), NEW t \in Tasks, NEW job, JobFits(job), StartJob(t, job)
  PROVE  TasksFit(ktask')
<1> DEFINE x == [IdleTask EXCEPT !.pc = "prepare", !.job = job]
<1>0. x \in TaskOf(job, 0, 0, 0)
  BY DEF IdleTask, TaskOf
<1>1. x \in TaskRec(x) /\ x.job = job
  BY <1>0, TaskOfIsRec
<1>2. ktask' = [ktask EXCEPT ![t] = x]
  BY DEF StartJob
<1> HIDE DEF x
<1> QED
  BY <1>1, <1>2 DEF TasksFit

LEMMA EndFits ==
  ASSUME NEW tasks, TasksFit(tasks), NEW t
  PROVE  TasksFit([tasks EXCEPT ![t] = IdleTask])
<1>0. IdleTask \in TaskOf(NoJob, 0, 0, 0)
  BY DEF IdleTask, TaskOf
<1>1. IdleTask \in TaskRec(IdleTask) /\ JobFits(IdleTask.job)
  BY <1>0, TaskOfIsRec DEF NoJob, JobFits
<1> QED
  BY <1>1 DEF TasksFit

(* SignStep: the call goes on with its job or is over.                     *)
LEMMA SignStepFits ==
  ASSUME TasksFit(ktask), NEW t \in Tasks, NEW why, NEW res, SignStep(t, why, res)
  PROVE  TasksFit(ktask')
<1>1. ktask[t] \in TaskRec(ktask[t]) /\ JobFits(ktask[t].job)
  BY DEF TasksFit
<1>2. CASE ktask' = [ktask EXCEPT ![t] = IdleTask]
  BY <1>2, EndFits
<1>3. ASSUME NEW x, x \in TaskRec(x), x.job = ktask[t].job, ktask' = [ktask EXCEPT ![t] = x]
      PROVE  TasksFit(ktask')
  BY <1>1, <1>3 DEF TasksFit
<1>4. CASE ktask' = [ktask EXCEPT ![t].pc = "broadcast", ![t].seq = kseq[AccountOf[t]]]
  <2> DEFINE x == [ktask[t] EXCEPT !.pc = "broadcast", !.seq = kseq[AccountOf[t]]]
  <2>0. x \in TaskOf(ktask[t].job, kseq[AccountOf[t]], ktask[t].id, ktask[t].polls)
    BY <1>1 DEF TaskRec, TaskOf
  <2>1. x \in TaskRec(x) /\ x.job = ktask[t].job
    BY <2>0, TaskOfIsRec
  <2>2. ktask' = [ktask EXCEPT ![t] = x]
    BY <1>4 DEF TasksFit
  <2> HIDE DEF x
  <2> QED
    BY <2>1, <2>2, <1>3
<1>5. CASE ktask' = [ktask EXCEPT ![t].pc = "poll", ![t].id = knext]
  <2> DEFINE x == [ktask[t] EXCEPT !.pc = "poll", !.id = knext]
  <2>0. x \in TaskOf(ktask[t].job, ktask[t].seq, knext, ktask[t].polls)
    BY <1>1 DEF TaskRec, TaskOf
  <2>1. x \in TaskRec(x) /\ x.job = ktask[t].job
    BY <2>0, TaskOfIsRec
  <2>2. ktask' = [ktask EXCEPT ![t] = x]
    BY <1>5 DEF TasksFit
  <2> HIDE DEF x
  <2> QED
    BY <2>1, <2>2, <1>3
<1>6. CASE ktask' = [ktask EXCEPT ![t].polls = @ + 1]
  <2> DEFINE x == [ktask[t] EXCEPT !.polls = @ + 1]
  <2>0. x \in TaskOf(ktask[t].job, ktask[t].seq, ktask[t].id, ktask[t].polls + 1)
    BY <1>1 DEF TaskRec, TaskOf
  <2>1. x \in TaskRec(x) /\ x.job = ktask[t].job
    BY <2>0, TaskOfIsRec
  <2>2. ktask' = [ktask EXCEPT ![t] = x]
    BY <1>6 DEF TasksFit
  <2> HIDE DEF x
  <2> QED
    BY <2>1, <2>2, <1>3
<1> QED
  BY <1>2, <1>4, <1>5, <1>6 DEF SignStep, Prepare, Broadcast, Poll

(* accept_receipt.                                                         *)
LEMMA AcceptKeepsBooks ==
  ASSUME RewardsInv, NEW r, accept_receipt(r)
  PROVE  RewardsInv'
<1>1. ktask' = ktask /\ kbase' = kbase
  BY DEF accept_receipt
<1>2. CASE Refuse /\ UNCHANGED kpend
  <2>1. kstats' \in StatRecs /\ kstats'.accepted = kstats.accepted /\ kstats'.settled = kstats.settled
        /\ kstats'.rejected = kstats.rejected /\ kstats'.dropped = kstats.dropped
    BY <1>2 DEF Refuse, RewardsInv, ReceiptBooks, StatRecs
  <2> QED
    BY <1>1, <1>2, <2>1 DEF RewardsInv, ReceiptBooks
<1>3. CASE InsertPending(r) /\ r \notin kpend
  <2>1. Cardinality(kpend) \in Nat /\ IsFiniteSet(kpend)
    BY FS_CardinalityType DEF RewardsInv, ReceiptBooks
  <2>2. IsFiniteSet(Evicted(kpend))
    BY <2>1, FS_EmptySet, FirstOfIsFinite, RewardsAssumption DEF Evicted
  <2>3. ReceiptBooks(kpend', kstats', kbase)
    BY <1>3, <2>2, InsertKeepsBooks DEF InsertPending, RewardsInv
  <2> QED
    BY <1>1, <2>3 DEF RewardsInv
<1>4. CASE UNCHANGED <<kpend, kstats>>
  BY <1>1, <1>4 DEF RewardsInv
<1> QED
  BY <1>2, <1>3, <1>4 DEF accept_receipt

LEMMA SubmitKeepsBooks ==
  ASSUME RewardsInv, submit_receipts
  PROVE  RewardsInv'
<1> DEFINE batch == FirstOf(kpend, Batch)
           live == {r \in batch : r.epoch = CurrentEpoch}
<1>1. IsFiniteSet(batch)
  BY FirstOfIsFinite, RewardsAssumption DEF RewardsInv, ReceiptBooks
<1>2. IsFiniteSet(live) /\ IsFiniteSet(batch \ live)
  BY <1>1, FS_Subset
<1>3. kbase' = kbase
  BY DEF submit_receipts
<1>4. CASE UNCHANGED <<kpend, kstats, ktask>>
  BY <1>3, <1>4 DEF RewardsInv
<1>5. CASE /\ kpend' = kpend \ (batch \ live)
           /\ kstats' = [kstats EXCEPT !.rejected = @ + Cardinality(batch \ live)]
           /\ IF live = {} THEN UNCHANGED ktask
              ELSE StartJob("loop", Job("receipts", <<live>>))
  <2> HIDE DEF batch, live
  <2>1. ReceiptBooks(kpend', kstats', kbase')
    BY <1>2, <1>3, <1>5, SettledKeepsBooks DEF RewardsInv
  <2>2. JobFits(Job("receipts", <<live>>))
    BY <1>2 DEF JobFits, Job
  <2>3. TasksFit(ktask')
    BY <1>5, <2>2, StartFits, RewardsAssumption DEF RewardsInv
  <2> QED
    BY <2>1, <2>3 DEF RewardsInv
<1> QED
  BY <1>4, <1>5 DEF submit_receipts

LEMMA LoopStepKeepsBooks ==
  ASSUME RewardsInv, LoopStep
  PROVE  RewardsInv'
<1>0. kbase' = kbase
  BY DEF LoopStep
<1> DEFINE job == ktask["loop"].job
<1>1. PICK res \in StepResults :
        /\ SignStep("loop", Refused(job), res)
        /\ IF res = "none" \/ job.kind # "receipts" THEN UNCHANGED <<kpend, kstats>>
           ELSE BatchDone(job.args[1], res)
  BY DEF LoopStep
<1>2. TasksFit(ktask')
  BY <1>1, SignStepFits, RewardsAssumption DEF RewardsInv
<1>3. CASE UNCHANGED <<kpend, kstats>>
  BY <1>0, <1>2, <1>3 DEF RewardsInv
<1>4. CASE job.kind = "receipts" /\ BatchDone(job.args[1], res)
  <2>1. IsFiniteSet(job.args[1])
    BY <1>4, RewardsAssumption DEF RewardsInv, TasksFit, JobFits
  <2> HIDE DEF job
  <2>2. ReceiptBooks(kpend', kstats', kbase')
    BY <1>0, <1>4, <2>1, SettledKeepsBooks DEF BatchDone, RewardsInv
  <2> QED
    BY <1>2, <2>2 DEF RewardsInv
<1> QED
  BY <1>1, <1>3, <1>4

LEMMA RestartKeepsBooks ==
  ASSUME RewardsInv, RestartNode
  PROVE  RewardsInv'
<1>1. TasksFit([ktask EXCEPT !["loop"] = IdleTask])
  BY EndFits DEF RewardsInv
<1>2. TasksFit([[ktask EXCEPT !["loop"] = IdleTask] EXCEPT !["register"] = IdleTask])
  BY <1>1, EndFits
<1>3. TasksFit(ktask')
  BY <1>2 DEF RestartNode
<1>4. Cardinality(kpend) \in Nat /\ IsFiniteSet(kpend)
  BY FS_CardinalityType DEF RewardsInv, ReceiptBooks
<1>5. ReceiptBooks(kpend', kstats', kbase')
  BY <1>4 DEF RestartNode, NoStats, ReceiptBooks, StatRecs
<1> QED
  BY <1>3, <1>5 DEF RewardsInv

(* What starts or moves a call and leaves the receipts alone.              *)
LEMMA CallsKeepBooks ==
  ASSUME RewardsInv, UNCHANGED <<kpend, kstats, kbase>>,
         \/ \E t \in Tasks : \E job : JobFits(job) /\ StartJob(t, job)
         \/ \E t \in Tasks : \E why, res : SignStep(t, why, res)
         \/ \E t \in Tasks : ktask' = [ktask EXCEPT ![t] = IdleTask]
         \/ UNCHANGED ktask
  PROVE  RewardsInv'
<1>1. TasksFit(ktask')
  BY StartFits, SignStepFits, EndFits DEF RewardsInv
<1> QED
  BY <1>1 DEF RewardsInv

LEMMA RewardsStep ==
  ASSUME RewardsInv, RewardsNext
  PROVE  RewardsInv'
<1> USE RewardsAssumption
<1>1. CASE LoopTick
  BY <1>1, CallsKeepBooks DEF LoopTick
<1>2. CASE answer_challenges
  <2>1. UNCHANGED <<kpend, kstats, kbase>>
    BY <1>2 DEF answer_challenges
  <2>2. JobFits(Job("answer", <<Head(kloop.list)>>))
    BY DEF JobFits, Job
  <2>3. UNCHANGED ktask \/ StartJob("loop", Job("answer", <<Head(kloop.list)>>))
    BY <1>2 DEF answer_challenges
  <2> QED
    BY <2>1, <2>2, <2>3, CallsKeepBooks
<1>3. CASE AssignmentPass
  BY <1>3, CallsKeepBooks DEF AssignmentPass, chainVars
<1>4. CASE assign
  <2>1. UNCHANGED <<kpend, kstats, kbase>>
    BY <1>4 DEF assign
  <2> DEFINE a == Head(kloop.list)
  <2>2. JobFits(Job("assign", <<a.cid, a.op>>))
    BY DEF JobFits, Job
  <2>3. UNCHANGED ktask \/ StartJob("loop", Job("assign", <<a.cid, a.op>>))
    BY <1>4 DEF assign
  <2> HIDE DEF a
  <2> QED
    BY <2>1, <2>2, <2>3, CallsKeepBooks
<1>5. CASE submit_receipts
  BY <1>5, SubmitKeepsBooks
<1>6. CASE LoopStep
  BY <1>6, LoopStepKeepsBooks
<1>7. CASE Block
  BY <1>7, CallsKeepBooks DEF Block, ExecuteHead, agentVars
<1>8. CASE NextEpoch
  BY <1>8, CallsKeepBooks DEF NextEpoch, chainVars, agentVars
<1>9. CASE CacheExpires
  BY <1>9, CallsKeepBooks DEF CacheExpires, chainVars
<1>10. CASE \E c \in Challenges : IssueChallenge(c)
  BY <1>10, CallsKeepBooks DEF IssueChallenge, chainVars, agentVars
<1>11. CASE \E r \in Receipts : accept_receipt(r)
  BY <1>11, AcceptKeepsBooks
<1>12. CASE ensure_registered
  <2>1. UNCHANGED <<kpend, kstats, kbase>>
    BY <1>12 DEF ensure_registered
  <2>2. JobFits(Job("register", << >>))
    BY DEF JobFits, Job
  <2>3. UNCHANGED ktask \/ StartJob("register", Job("register", << >>))
    BY <1>12 DEF ensure_registered
  <2> QED
    BY <2>1, <2>2, <2>3, CallsKeepBooks
<1>13. CASE RegisterStep
  <2>1. UNCHANGED <<kpend, kstats, kbase>>
    BY <1>13 DEF RegisterStep, agentVars
  <2>2. \E why, res : SignStep("register", why, res)
    BY <1>13 DEF RegisterStep
  <2> QED
    BY <2>1, <2>2, CallsKeepBooks
<1>14. CASE RestartNode
  BY <1>14, RestartKeepsBooks
<1>15. CASE WalletNext /\ UNCHANGED <<ksc, serviceVars, agentVars>>
  <2>1. UNCHANGED <<kpend, kstats, kbase>>
    BY <1>15 DEF agentVars
  <2>2. CASE \E fails \in ksc.fails : \E spec \in WalletIntents(fails) : tx_submit(spec)
    <3>1. PICK spec : tx_submit(spec)
      BY <2>2
    <3>2. JobFits(Job("submit", <<spec.kind>>)) /\ StartJob("wallet", Job("submit", <<spec.kind>>))
      BY <3>1 DEF tx_submit, JobFits, Job
    <3> QED
      BY <2>1, <3>2, CallsKeepBooks
  <2>3. CASE WalletStep
    <3>1. \E why, res : SignStep("wallet", why, res)
      BY <2>3 DEF WalletStep
    <3> QED
      BY <2>1, <3>1, CallsKeepBooks
  <2>4. CASE Relaunch
    BY <2>1, <2>4, CallsKeepBooks DEF Relaunch
  <2>5. CASE verify_purchase
    <3>1. JobFits(Job("badge", << >>)) /\ StartJob("wallet", Job("badge", << >>))
      BY <2>5 DEF verify_purchase, JobFits, Job
    <3> QED
      BY <2>1, <3>1, CallsKeepBooks
  <2>6. CASE track_tx \/ RecordClaim \/ \E id \in TxIds : poll_pending(id) \/ verify_record(id)
    BY <2>1, <2>6, CallsKeepBooks DEF track_tx, RecordClaim, poll_pending, verify_record, chainVars
  <2> QED
    BY <1>15, <2>2, <2>3, <2>4, <2>5, <2>6 DEF WalletNext
<1> QED
  BY <1>1, <1>2, <1>3, <1>4, <1>5, <1>6, <1>7, <1>8, <1>9, <1>10, <1>11, <1>12, <1>13, <1>14,
     <1>15 DEF RewardsNext, LoopNext

LEMMA RewardsStart ==
  ASSUME NEW scenes, RewardsInit(scenes)
  PROVE  RewardsInv
<1>1. TasksFit(ktask)
  <2>0. IdleTask \in TaskOf(NoJob, 0, 0, 0)
    BY DEF IdleTask, TaskOf
  <2>1. IdleTask \in TaskRec(IdleTask) /\ JobFits(IdleTask.job)
    BY <2>0, TaskOfIsRec DEF NoJob, JobFits
  <2> QED
    BY <2>1 DEF RewardsInit, ChainInit, TasksFit
<1>2. ReceiptBooks(kpend, kstats, kbase)
  BY FS_EmptySet DEF RewardsInit, NoStats, StatRecs, ReceiptBooks
<1> QED
  BY <1>1, <1>2 DEF RewardsInv

----------------------------------------------------------------------------
(* The relay.                                                              *)

(* Order: a rank is a number of peers ahead, so every rank is taken once.  *)
LEMMA OrderIsDistinct ==
  ASSUME NEW S, NEW q \in Seq(S), DistinctIn(q)
  PROVE  Order(q) \in Seq(S) /\ DistinctIn(Order(q))
<1> DEFINE D == DOMAIN q
           n == Len(q)
           rank == [i \in D |-> Cardinality(Ahead(q, i))]
<1>1. n \in Nat /\ D = 1..n
  OBVIOUS
<1>2. IsFiniteSet(D) /\ Cardinality(D) = n
  BY <1>1, FS_Interval
<1>3. IsFiniteSet(0..n - 1) /\ Cardinality(0..n - 1) = n
  BY <1>1, FS_Interval
<1>4. \A i \in D : Group(q, i) \in Int
  BY DEF Group
<1>5. \A i \in D : Ahead(q, i) \subseteq D \ {i}
  BY <1>1, <1>4 DEF Ahead
<1>6. \A i, j \in D : i \in Ahead(q, j) => Ahead(q, i) \subseteq Ahead(q, j) \ {i}
  BY <1>1, <1>4 DEF Ahead
<1>7. \A i, j \in D : i # j => i \in Ahead(q, j) \/ j \in Ahead(q, i)
  BY <1>1, <1>4 DEF Ahead
<1>8. \A i \in D : /\ IsFiniteSet(Ahead(q, i)) /\ Cardinality(Ahead(q, i)) \in Nat
                   /\ Cardinality(Ahead(q, i)) <= n - 1
  <2> SUFFICES ASSUME NEW i \in D
               PROVE  /\ IsFiniteSet(Ahead(q, i)) /\ Cardinality(Ahead(q, i)) \in Nat
                      /\ Cardinality(Ahead(q, i)) <= n - 1
    OBVIOUS
  <2>1. IsFiniteSet(D \ {i}) /\ Cardinality(D \ {i}) = n - 1
    BY <1>2, FS_RemoveElement
  <2>2. IsFiniteSet(Ahead(q, i)) /\ Cardinality(Ahead(q, i)) <= n - 1
    BY <1>5, <2>1, FS_Subset
  <2> QED
    BY <2>2, FS_CardinalityType
<1>9. ASSUME NEW i \in D, NEW j \in D, i \in Ahead(q, j)
      PROVE  rank[i] < rank[j]
  <2>1. IsFiniteSet(Ahead(q, j) \ {i}) /\ Cardinality(Ahead(q, j) \ {i}) = Cardinality(Ahead(q, j)) - 1
    BY <1>8, <1>9, FS_RemoveElement
  <2>2. Cardinality(Ahead(q, i)) <= Cardinality(Ahead(q, j) \ {i})
    BY <1>6, <1>9, <2>1, FS_Subset
  <2> QED
    BY <1>8, <2>1, <2>2
<1>10. rank \in [D -> 0..n - 1]
  BY <1>1, <1>8
<1>11. \A i, j \in D : rank[i] = rank[j] => i = j
  <2>1. \A i \in D : rank[i] \in Int
    BY <1>8
  <2> HIDE DEF rank
  <2> QED
    BY <1>7, <1>9, <2>1
<1> HIDE DEF rank
<1>12. rank \in Injection(D, 0..n - 1)
  BY <1>10, <1>11 DEF Injection, IsInjective
<1>13. rank \in Surjection(D, 0..n - 1)
  BY <1>2, <1>3, <1>12, FS_Injection
<1>14. \A k \in D : \E i \in D : rank[i] = k - 1
  <2> SUFFICES ASSUME NEW k \in D PROVE \E i \in D : rank[i] = k - 1
    OBVIOUS
  <2>1. k - 1 \in 0..n - 1
    BY <1>1
  <2> QED
    BY <1>13, <2>1 DEF Surjection
<1> DEFINE at(k) == CHOOSE i \in D : Cardinality(Ahead(q, i)) = k - 1
<1>15. \A k \in D : at(k) \in D /\ Cardinality(Ahead(q, at(k))) = k - 1
  BY <1>14 DEF rank
<1>17. Order(q) = [k \in D |-> q[at(k)]]
  BY DEF Order
<1> HIDE DEF at
<1>18. ASSUME NEW k \in D, NEW l \in D, at(k) = at(l) PROVE k = l
  <2>1. k - 1 = l - 1
    BY <1>15, <1>18
  <2> QED
    BY <1>1, <2>1
<1> HIDE DEF D, n
<1>19. \A k, l \in D : q[at(k)] = q[at(l)] => k = l
  BY <1>15, <1>18 DEF DistinctIn, D
<1>20. \A k \in D : q[at(k)] \in S
  BY <1>15 DEF D
<1> QED
  BY <1>1, <1>17, <1>19, <1>20 DEF DistinctIn

(* Without: the others, once each.                                         *)
LEMMA WithoutOne ==
  ASSUME NEW S, NEW q \in Seq(S), DistinctIn(q), NEW i \in DOMAIN q
  PROVE  /\ Without(q, i) \in Seq(S) /\ DistinctIn(Without(q, i))
         /\ \A k \in DOMAIN Without(q, i) : \E m \in DOMAIN q : m # i /\ Without(q, i)[k] = q[m]
<1> DEFINE w == Without(q, i)
           n == Len(q)
<1>1. n \in Nat /\ DOMAIN q = 1..n /\ i \in 1..n
  OBVIOUS
<1> DEFINE a == SubSeq(q, 1, i - 1)
           b == SubSeq(q, i + 1, n)
<1>2. a \in Seq(S) /\ Len(a) = i - 1 /\ \A k \in 1..i - 1 : a[k] = q[k]
  BY <1>1
<1>3. b \in Seq(S) /\ Len(b) = n - i /\ \A k \in 1..n - i : b[k] = q[i + k]
  BY <1>1
<1>8. w = a \o b
  BY DEF Without
<1> HIDE DEF a, b, w
<1>4. /\ w \in Seq(S) /\ Len(w) = n - 1
      /\ \A k \in 1..n - 1 : w[k] = q[IF k < i THEN k ELSE k + 1]
  <2>5. a \in Seq(S) /\ b \in Seq(S)
    BY <1>2, <1>3
  <2>6. a \o b \in Seq(S)
    BY <2>5
  <2>7. Len(a \o b) = Len(a) + Len(b)
    BY <2>5
  <2>4. w \in Seq(S) /\ Len(w) = Len(a) + Len(b)
    BY <1>8, <2>6, <2>7
  <2>1. w \in Seq(S) /\ Len(w) = n - 1
    BY <1>1, <1>2, <1>3, <2>4
  <2>2. ASSUME NEW k \in 1..n - 1, k < i PROVE w[k] = q[k]
    BY <1>1, <1>2, <1>3, <1>8, <2>2
  <2>3. ASSUME NEW k \in 1..n - 1, ~(k < i) PROVE w[k] = q[k + 1]
    <3>1. w[k] = b[k - (i - 1)] /\ k - (i - 1) \in 1..n - i
      BY <1>1, <1>2, <1>3, <1>8, <2>3
    <3>2. b[k - (i - 1)] = q[i + (k - (i - 1))]
      BY <1>3, <3>1
    <3>3. i + (k - (i - 1)) = k + 1
      BY <1>1
    <3> QED
      BY <3>1, <3>2, <3>3
  <2> QED
    BY <2>1, <2>2, <2>3
<1> HIDE DEF w
<1>5. DOMAIN w = 1..n - 1
  BY <1>1, <1>4
<1>6. DistinctIn(w)
  <2> DEFINE m(k) == IF k < i THEN k ELSE k + 1
  <2>1. \A k, l \in DOMAIN w : m(k) \in DOMAIN q /\ (m(k) = m(l) => k = l)
    BY <1>1, <1>5
  <2>2. \A k \in DOMAIN w : w[k] = q[m(k)]
    BY <1>4, <1>5
  <2> QED
    BY <2>1, <2>2 DEF DistinctIn
<1>7. \A k \in DOMAIN w : \E m \in DOMAIN q : m # i /\ w[k] = q[m]
  <2> SUFFICES ASSUME NEW k \in DOMAIN w PROVE \E m \in DOMAIN q : m # i /\ w[k] = q[m]
    OBVIOUS
  <2> DEFINE m == IF k < i THEN k ELSE k + 1
  <2>1. m \in DOMAIN q /\ m # i /\ w[k] = q[m]
    BY <1>1, <1>4, <1>5
  <2> QED
    BY <2>1
<1> QED
  BY <1>4, <1>6, <1>7 DEF w

LEMMA TakesOne ==
  ASSUME NEW S, NEW pool \in Seq(S), pool # << >>, NEW used
  PROVE  TakeDistinct(pool, used) \in DOMAIN pool
<1> DEFINE new == {i \in DOMAIN pool : lsc.operator[pool[i]] # "" /\ lsc.operator[pool[i]] \notin used}
<1>1. DOMAIN pool = 1..Len(pool) /\ Len(pool) \in Nat \ {0}
  OBVIOUS
<1>2. TakeDistinct(pool, used)
        = IF new = {} THEN 1 ELSE CHOOSE i \in new : \A j \in new : i <= j
  BY DEF TakeDistinct
<1>3. new \subseteq DOMAIN pool
  OBVIOUS
<1> HIDE DEF new
<1>4. CASE new = {}
  BY <1>1, <1>2, <1>4
<1>5. CASE new # {}
  <2>1. new \in SUBSET Nat
    BY <1>1, <1>3
  <2>2. \E i \in new : \A j \in new : i <= j
    BY <1>5, <2>1, LeastNatural
  <2>3. (CHOOSE i \in new : \A j \in new : i <= j) \in new
    BY <2>2
  <2> QED
    BY <1>2, <1>3, <1>5, <2>3
<1> QED
  BY <1>4, <1>5

(* Two peers that answered: one of them at least is honest.                *)
LEMMA OneIsHonest ==
  ASSUME RelayTypes, NEW r, NEW served, r.got \in Seq(Gots), Asked(r, served),
         NEW i \in DOMAIN r.got, NEW j \in DOMAIN r.got, i # j
  PROVE  r.got[i].answer \in served \/ r.got[j].answer \in served
<1>4. r.got[i] \in Gots /\ r.got[j] \in Gots
  OBVIOUS
<1>1. r.got[i].peer \in RelayNodes /\ r.got[j].peer \in RelayNodes
  BY <1>4 DEF Gots
<1>2. r.got[i].peer # r.got[j].peer
  BY DEF Asked
<1>3. \A p, q \in RelayNodes : p \in lsc.liars /\ q \in lsc.liars => p = q
  BY DEF RelayTypes, RelayScenarios, RelayNodes
<1> QED
  BY <1>1, <1>2, <1>3 DEF Asked

(* Finish with what two agreed on.                                         *)
LEMMA AgreedIsSound ==
  ASSUME NEW served, NEW v, Finish(v),
         v.agreed => \E a \in served : same_answer(a, v.answer)
  PROVE  ReadSound(lread', llast', served)
<1>1. NoRead \in ReadOf([kind |-> "none"], {})
  BY DEF NoRead, ReadOf
<1>2. NoRead \in ReadRec(NoRead) /\ ~NoRead.on
  BY <1>1 DEF ReadRec, ReadOf, NoRead
<1> QED
  BY <1>2 DEF Finish, ReadSound

LEMMA GoesOn ==
  ASSUME NEW r, NEW served, r \in ReadRec(r), r.on, Asked(r, served), AtStage(r), lread' = r
  PROVE  ReadSound(lread', llast', served)
BY DEF ReadSound

(* Another stage of a read is a read.                                      *)
LEMMA StageIsRead ==
  ASSUME NEW r, r \in ReadRec(r), NEW s \in {"ask", "again", "third"}
  PROVE  /\ [r EXCEPT !.stage = s] \in ReadRec([r EXCEPT !.stage = s])
         /\ [r EXCEPT !.stage = s].on = r.on /\ [r EXCEPT !.stage = s].got = r.got
         /\ [r EXCEPT !.stage = s].pool = r.pool /\ [r EXCEPT !.stage = s].stage = s
         /\ \A served : Asked(r, served) => Asked([r EXCEPT !.stage = s], served)
<1> DEFINE x == [r EXCEPT !.stage = s]
<1>1. x \in ReadOf(r.path, r.used)
  BY DEF ReadRec, ReadOf
<1>2. x.path = r.path /\ x.used = r.used /\ x.on = r.on /\ x.got = r.got /\ x.pool = r.pool /\ x.stage = s
  BY DEF ReadRec, ReadOf
<1> HIDE DEF x
<1>3. \A served : Asked(r, served) => Asked(x, served)
  BY <1>2 DEF Asked
<1> QED
  BY <1>1, <1>2, <1>3 DEF ReadRec, x

LEMMA JudgeTwoSound ==
  ASSUME RelayTypes, NEW r, NEW served, r \in ReadRec(r), r.on, Asked(r, served),
         Len(r.got) = 2, JudgeTwo(r)
  PROVE  ReadSound(lread', llast', served)
<1> DEFINE a == r.got[1].answer
           b == r.got[2].answer
<1>1. r.got \in Seq(Gots) /\ DOMAIN r.got = {1, 2}
  BY DEF ReadRec, ReadOf
<1>2. a \in served \/ b \in served
  BY <1>1, OneIsHonest
<1>3. CASE same_answer(a, b) /\ heights_close(a.height, b.height)
  <2> DEFINE v == Verified(TRUE, r.got, {})
  <2>1. Finish(v)
    BY <1>3 DEF JudgeTwo
  <2>2. v.answer = a
    BY DEF Verified
  <2>3. \E x \in served : same_answer(x, v.answer)
    BY <1>2, <1>3, <2>2 DEF same_answer
  <2> HIDE DEF v
  <2> QED
    BY <2>1, <2>3, AgreedIsSound
<1>4. CASE ~(same_answer(a, b) /\ heights_close(a.height, b.height))
  <2> DEFINE x == [r EXCEPT !.stage = "third"]
  <2>1. lread' = x
    BY <1>4 DEF JudgeTwo
  <2>2. x \in ReadRec(x) /\ x.on /\ x.got = r.got /\ x.stage = "third" /\ Asked(x, served)
    BY StageIsRead
  <2> HIDE DEF x
  <2>3. AtStage(x)
    BY <2>2 DEF AtStage
  <2> QED
    BY <2>1, <2>2, <2>3, GoesOn
<1> QED
  BY <1>3, <1>4

LEMMA JudgeThreeSound ==
  ASSUME RelayTypes, NEW r, NEW served, r \in ReadRec(r), Asked(r, served),
         Len(r.got) = 3, JudgeThree(r)
  PROVE  ReadSound(lread', llast', served)
<1> DEFINE a == r.got[1]
           b == r.got[2]
           c == r.got[3]
<1>1. r.got \in Seq(Gots) /\ DOMAIN r.got = {1, 2, 3}
  BY DEF ReadRec, ReadOf
<1>2. /\ a.answer \in served \/ c.answer \in served
      /\ b.answer \in served \/ c.answer \in served
  BY <1>1, OneIsHonest
<1>3. a # c /\ b # c
  BY <1>1 DEF Asked
<1>4. ASSUME NEW w, NEW out, Finish(Verified(TRUE, <<w, c>>, out)), same_answer(c.answer, w.answer),
             w.answer \in served \/ c.answer \in served
      PROVE  ReadSound(lread', llast', served)
  <2> DEFINE v == Verified(TRUE, <<w, c>>, out)
  <2>1. v.answer = w.answer
    BY DEF Verified
  <2>2. \E x \in served : same_answer(x, v.answer)
    BY <1>4, <2>1 DEF same_answer
  <2> HIDE DEF v
  <2>3. Finish(v)
    BY <1>4 DEF v
  <2> QED
    BY <2>2, <2>3, AgreedIsSound
<1>5. CASE same_answer(c.answer, a.answer)
  <2>1. \E out : Finish(Verified(TRUE, <<a, c>>, out))
    BY <1>3, <1>5 DEF JudgeThree
  <2> QED
    BY <1>2, <1>4, <1>5, <2>1
<1>6. CASE ~same_answer(c.answer, a.answer) /\ same_answer(c.answer, b.answer)
  <2>1. \E out : Finish(Verified(TRUE, <<b, c>>, out))
    BY <1>3, <1>6 DEF JudgeThree
  <2> QED
    BY <1>2, <1>4, <1>6, <2>1
<1>7. CASE ~same_answer(c.answer, a.answer) /\ ~same_answer(c.answer, b.answer)
  <2>1. Finish(Disputed({a.peer, b.peer, c.peer}))
    BY <1>7 DEF JudgeThree
  <2>2. ~Disputed({a.peer, b.peer, c.peer}).agreed
    BY DEF Disputed, NoVerification
  <2> QED
    BY <2>1, <2>2, AgreedIsSound
<1> QED
  BY <1>5, <1>6, <1>7

(* Answered: one more answer is in.                                        *)
LEMMA AnsweredSound ==
  ASSUME RelayTypes, NEW r, NEW served, r \in ReadRec(r), r.on, Asked(r, served),
         Len(r.got) = 1 => r.stage = "ask", Answered(r)
  PROVE  ReadSound(lread', llast', served)
<1>1. CASE Len(r.got) = 1
  <2>1. CASE lread' = r
    <3>1. AtStage(r)
      BY <1>1 DEF AtStage
    <3> QED
      BY <2>1, <3>1, GoesOn
  <2>2. CASE Finish(Verified(FALSE, r.got, {}))
    <3>1. ~Verified(FALSE, r.got, {}).agreed
      BY DEF Verified
    <3> QED
      BY <2>2, <3>1, AgreedIsSound
  <2>4. Len(r.got) # 2 /\ Len(r.got) # 3
    BY <1>1
  <2>3. lread' = r \/ Finish(Verified(FALSE, r.got, {}))
    BY <2>4, Zenon DEF Answered
  <2> QED
    BY <2>1, <2>2, <2>3
<1>2. CASE Len(r.got) = 2
  <2>1. CASE JudgeTwo(r)
    BY <1>2, <2>1, JudgeTwoSound
  <2>2. CASE lread' = [r EXCEPT !.stage = "again"]
    <3> DEFINE x == [r EXCEPT !.stage = "again"]
    <3>1. x \in ReadRec(x) /\ x.on /\ x.got = r.got /\ x.stage = "again" /\ Asked(x, served)
      BY StageIsRead
    <3>2. lread' = x
      BY <2>2
    <3> HIDE DEF x
    <3>3. AtStage(x)
      BY <1>2, <3>1 DEF AtStage
    <3> QED
      BY <3>1, <3>2, <3>3, GoesOn
  <2> QED
    BY <1>2, <2>1, <2>2 DEF Answered
<1>3. CASE Len(r.got) = 3
  <2>1. JudgeThree(r)
    BY <1>3 DEF Answered
  <2> QED
    BY <1>3, <2>1, JudgeThreeSound
<1> QED
  BY <1>1, <1>2, <1>3 DEF Answered

(* One more answer, of a peer not asked before.                            *)
LEMMA AnswerIsAdded ==
  ASSUME RelayTypes, NEW r, NEW served, r \in ReadRec(r), Asked(r, served),
         NEW p \in RelayNodes, NEW a \in Answers,
         \A i \in DOMAIN r.got : r.got[i].peer # p,
         \A j \in DOMAIN r.pool : r.pool[j] # p
  PROVE  LET x == [r EXCEPT !.got = Append(@, [peer |-> p, answer |-> a])]
             more == IF p \in lsc.liars THEN served ELSE served \cup {a}
         IN /\ x \in ReadRec(x) /\ x.on = r.on /\ x.stage = r.stage
            /\ Len(x.got) = Len(r.got) + 1 /\ Asked(x, more)
<1> DEFINE g == [peer |-> p, answer |-> a]
           got == Append(r.got, g)
           x == [r EXCEPT !.got = got]
           more == IF p \in lsc.liars THEN served ELSE served \cup {a}
           n == Len(r.got)
<1>1. r.got \in Seq(Gots) /\ n \in Nat /\ DOMAIN r.got = 1..n
  BY DEF ReadRec, ReadOf
<1>2. g \in Gots /\ g.peer = p /\ g.answer = a
  BY DEF Gots
<1> HIDE DEF g
<1>3. /\ got \in Seq(Gots) /\ Len(got) = n + 1
      /\ got[n + 1] = g /\ \A i \in 1..n : got[i] = r.got[i]
  BY <1>1, <1>2
<1>4. DOMAIN got = 1..n + 1
  BY <1>3
<1> HIDE DEF got
<1>5. x \in ReadOf(r.path, r.used)
  BY <1>3 DEF ReadRec, ReadOf
<1>6. /\ x.path = r.path /\ x.used = r.used /\ x.on = r.on /\ x.got = got /\ x.pool = r.pool
      /\ x.stage = r.stage
  BY DEF ReadRec, ReadOf
<1> HIDE DEF x
<1>7. \A i \in 1..n + 1 : i \in 1..n \/ i = n + 1
  BY <1>1
<1>8. Asked(x, more)
  <2>1. DistinctIn(x.pool)
    BY <1>6 DEF Asked
  <2>2. \A i, j \in DOMAIN got : got[i].peer = got[j].peer => i = j
    BY <1>1, <1>2, <1>3, <1>4, <1>7 DEF Asked
  <2>3. \A i \in DOMAIN got : \A j \in DOMAIN x.pool : got[i].peer # x.pool[j]
    BY <1>1, <1>2, <1>3, <1>4, <1>6, <1>7 DEF Asked
  <2>4. \A i \in DOMAIN got : got[i].peer \notin lsc.liars => got[i].answer \in more
    BY <1>1, <1>2, <1>3, <1>4, <1>7 DEF Asked
  <2> HIDE DEF more
  <2> QED
    BY <1>6, <2>1, <2>2, <2>3, <2>4 DEF Asked
<1> QED
  BY <1>1, <1>3, <1>5, <1>6, <1>8 DEF ReadRec, x, got, g

(* What a node answers is an answer.                                       *)
LEMMA AnswersHaveType ==
  ASSUME RelayTypes, NEW p \in RelayNodes, NEW path
  PROVE  NodeAnswers(p, path) \subseteq Answers
<1>1. lat[p] \in Nat /\ lsc.values[lat[p]] \in Nat /\ lsc.lies \subseteq Nat
  BY DEF RelayTypes, RelayScenarios
<1>2. Raw(path, lat[p]) \in Answers
  BY <1>1 DEF Raw, Answers
<1>3. Lies(p) \subseteq Answers
  BY <1>1 DEF Lies, Answers
<1> QED
  BY <1>2, <1>3 DEF NodeAnswers, HonestAnswers

LEMMA AskNextSound ==
  ASSUME RelayInv, AskNext
  PROVE  ReadSound(lread', llast', lserved')
<1> DEFINE i == TakeDistinct(lread.pool, lread.used)
           p == lread.pool[i]
           r == [lread EXCEPT !.pool = Without(@, i), !.used = @ \cup {lsc.operator[p]}]
           rest == Without(lread.pool, i)
           used == lread.used \cup {lsc.operator[p]}
<1>1. /\ lread \in ReadRec(lread) /\ lread.on /\ Asked(lread, lserved) /\ AtStage(lread)
      /\ lread.stage \in {"ask", "third"} /\ lread.pool # << >>
  BY DEF AskNext, RelayInv, ReadSound
<1>2. lread.pool \in Seq(RelayNodes) /\ DistinctIn(lread.pool)
  BY <1>1 DEF ReadRec, ReadOf, Asked
<1>3. i \in DOMAIN lread.pool
  BY <1>1, <1>2, TakesOne
<1>4. p \in RelayNodes
  BY <1>2, <1>3
<1> HIDE DEF i
<1>5. /\ rest \in Seq(RelayNodes) /\ DistinctIn(rest)
      /\ \A k \in DOMAIN rest : \E m \in DOMAIN lread.pool : m # i /\ rest[k] = lread.pool[m]
  BY <1>2, <1>3, WithoutOne
<1>6. \A k \in DOMAIN rest : rest[k] # p
  BY <1>2, <1>3, <1>5 DEF DistinctIn
<1> HIDE DEF rest
<1>7. r = [lread EXCEPT !.pool = rest, !.used = used]
  BY DEF rest
<1> HIDE DEF used
<1>8. r \in ReadOf(lread.path, used)
  BY <1>1, <1>5, <1>7 DEF ReadRec, ReadOf
<1>9. /\ r.path = lread.path /\ r.used = used /\ r.on /\ r.got = lread.got /\ r.pool = rest
      /\ r.stage = lread.stage
  BY <1>1, <1>7 DEF ReadRec, ReadOf
<1> HIDE DEF r, p
<1>10. r \in ReadRec(r) /\ AtStage(r) /\ Asked(r, lserved)
  BY <1>1, <1>5, <1>8, <1>9 DEF ReadRec, AtStage, Asked
<1>11. Ask(p, LAMBDA a : Answered([r EXCEPT !.got = Append(@, [peer |-> p, answer |-> a])]),
           lread' = r /\ UNCHANGED <<llast, ldisputed>>)
  BY DEF AskNext, i, p, r
<1>12. ASSUME NEW a \in NodeAnswers(p, lread.path),
              Answered([r EXCEPT !.got = Append(@, [peer |-> p, answer |-> a])]),
              lserved' = IF p \in lsc.liars THEN lserved ELSE lserved \cup {a}
       PROVE  ReadSound(lread', llast', lserved')
  <2> DEFINE x == [r EXCEPT !.got = Append(@, [peer |-> p, answer |-> a])]
  <2>1. a \in Answers
    BY <1>4, AnswersHaveType DEF RelayInv
  <2>2. \A k \in DOMAIN r.got : r.got[k].peer # p
    BY <1>1, <1>3, <1>9 DEF Asked, p
  <2>3. \A j \in DOMAIN r.pool : r.pool[j] # p
    BY <1>6, <1>9
  <2>4. /\ x \in ReadRec(x) /\ x.on = r.on /\ x.stage = r.stage
        /\ Len(x.got) = Len(r.got) + 1 /\ Asked(x, lserved')
    BY <1>4, <1>10, <1>12, <2>1, <2>2, <2>3, AnswerIsAdded DEF RelayInv
  <2>5. Answered(x)
    BY <1>12
  <2> HIDE DEF x
  <2>7. r.stage = "ask" \/ Len(r.got) = 2
    BY <1>10 DEF AtStage
  <2>8. Len(x.got) = Len(r.got) + 1 /\ x.stage = r.stage
    BY <2>4
  <2>6. Len(x.got) = 1 => x.stage = "ask"
    <3>1. CASE r.stage = "ask"
      BY <2>8, <3>1
    <3>2. CASE Len(r.got) = 2
      BY <2>8, <3>2
    <3> QED
      BY <2>7, <3>1, <3>2
  <2> QED
    BY <1>9, <2>4, <2>5, <2>6, AnsweredSound DEF RelayInv
<1>13. CASE lread' = r /\ UNCHANGED lserved
  BY <1>9, <1>10, <1>13, GoesOn
<1> QED
  BY <1>11, <1>12, <1>13 DEF Ask

(* The one behind is asked again; its new answer takes the old one's place.*)
LEMMA AnswerIsReplaced ==
  ASSUME RelayTypes, NEW r, NEW served, r \in ReadRec(r), Asked(r, served),
         NEW i \in DOMAIN r.got, NEW a \in Answers,
         NEW y, y = Reanswered(r, i, a),
         NEW more, more = IF r.got[i].peer \in lsc.liars THEN served ELSE served \cup {a}
  PROVE  y \in ReadRec(y) /\ y.on = r.on /\ Len(y.got) = Len(r.got) /\ Asked(y, more)
<1> DEFINE g == [r.got[i] EXCEPT !.answer = a]
           got == [r.got EXCEPT ![i] = g]
           x == [r EXCEPT !.got = got]
           n == Len(r.got)
<1>1. r.got \in Seq(Gots) /\ n \in Nat /\ DOMAIN r.got = 1..n
  BY DEF ReadRec, ReadOf
<1>2. r.got[i] \in Gots
  BY <1>1
<1>3. g \in Gots /\ g.peer = r.got[i].peer /\ g.answer = a
  BY <1>2 DEF Gots
<1> HIDE DEF g
<1>4. /\ got \in Seq(Gots) /\ Len(got) = n /\ DOMAIN got = 1..n
      /\ got[i] = g /\ \A j \in 1..n : j # i => got[j] = r.got[j]
  BY <1>1, <1>3
<1> HIDE DEF got
<1>5. x \in ReadOf(r.path, r.used)
  BY <1>4 DEF ReadRec, ReadOf
<1>6. x.path = r.path /\ x.used = r.used /\ x.on = r.on /\ x.got = got /\ x.pool = r.pool
  BY DEF ReadRec, ReadOf
<1> HIDE DEF x
<1>7. \A j \in 1..n : got[j].peer = r.got[j].peer
  BY <1>3, <1>4
<1>8. Asked(x, more)
  <2>1. \A j \in 1..n : got[j].peer \notin lsc.liars => got[j].answer \in more
    BY <1>1, <1>3, <1>4, <1>7 DEF Asked
  <2> QED
    BY <1>1, <1>4, <1>6, <1>7, <2>1 DEF Asked
<1>9. y = x
  BY DEF Reanswered, x, got, g
<1> QED
  BY <1>4, <1>5, <1>6, <1>8, <1>9 DEF ReadRec

LEMMA AskBehindSound ==
  ASSUME RelayInv, AskBehind
  PROVE  ReadSound(lread', llast', lserved')
<1> DEFINE i == IF lread.got[1].answer.height < lread.got[2].answer.height THEN 1 ELSE 2
           p == lread.got[i].peer
           r == [lread EXCEPT !.stage = "ask"]
<1>1. /\ lread \in ReadRec(lread) /\ lread.on /\ Asked(lread, lserved) /\ Len(lread.got) = 2
  BY DEF AskBehind, RelayInv, ReadSound, AtStage
<1>2. lread.got \in Seq(Gots) /\ i \in DOMAIN lread.got
  BY <1>1 DEF ReadRec, ReadOf
<1>3. lread.got[i] \in Gots
  BY <1>2
<1>4. p \in RelayNodes
  BY <1>3 DEF Gots
<1>5. /\ r \in ReadRec(r) /\ r.on /\ r.got = lread.got /\ Asked(r, lserved)
  BY <1>1, StageIsRead
<1>6. Ask(p, LAMBDA a : JudgeTwo(Reanswered(r, i, a)), JudgeTwo(r))
  BY DEF AskBehind
<1> HIDE DEF i, r
<1>7. ASSUME NEW a \in NodeAnswers(p, lread.path), JudgeTwo(Reanswered(r, i, a)),
             lserved' = IF p \in lsc.liars THEN lserved ELSE lserved \cup {a}
      PROVE  ReadSound(lread', llast', lserved')
  <2> DEFINE x == Reanswered(r, i, a)
  <2>7. x = Reanswered(r, i, a)
    OBVIOUS
  <2>8. RelayTypes
    BY DEF RelayInv
  <2>1. a \in Answers
    BY <1>4, AnswersHaveType DEF RelayInv
  <2>5. i \in DOMAIN r.got /\ r.got[i].peer = p
    BY <1>2, <1>5
  <2>6. lserved' = IF r.got[i].peer \in lsc.liars THEN lserved ELSE lserved \cup {a}
    BY <1>7, <2>5
  <2>3. JudgeTwo(x)
    BY <1>7
  <2> HIDE DEF p, x
  <2>9. r \in ReadRec(r) /\ Asked(r, lserved)
    BY <1>5
  <2> DEFINE more == lserved'
  <2>10. more = IF r.got[i].peer \in lsc.liars THEN lserved ELSE lserved \cup {a}
    BY <2>6
  <2> HIDE DEF more
  <2>11. i \in DOMAIN r.got
    BY <2>5
  <2>12. x \in ReadRec(x) /\ x.on = r.on /\ Len(x.got) = Len(r.got) /\ Asked(x, more)
    BY <2>1, <2>7, <2>8, <2>9, <2>10, <2>11, AnswerIsReplaced
  <2>2. x \in ReadRec(x) /\ x.on = r.on /\ Len(x.got) = Len(r.got) /\ Asked(x, lserved')
    BY <2>12 DEF more
  <2>4. x.on /\ Len(x.got) = 2
    BY <1>1, <1>5, <2>2
  <2> QED
    BY <2>2, <2>3, <2>4, JudgeTwoSound DEF RelayInv
<1>8. CASE JudgeTwo(r) /\ UNCHANGED lserved
  <2>1. Len(r.got) = 2
    BY <1>1, <1>5
  <2> QED
    BY <1>5, <1>8, <2>1, JudgeTwoSound DEF RelayInv
<1> HIDE DEF p
<1> QED
  BY <1>6, <1>7, <1>8 DEF Ask

LEMMA StartReadSound ==
  ASSUME RelayInv, NEW path, StartRead(path)
  PROVE  ReadSound(lread', llast', lserved')
<1> DEFINE x == [on |-> TRUE, path |-> path, pool |-> Order(lsc.relays), used |-> {}, got |-> << >>,
                 single |-> Cardinality({lsc.operator[p] : p \in RelayNodes} \ {""}) <= 1,
                 stage |-> "ask"]
<1>1. CASE Finish(NoVerification)
  BY <1>1, AgreedIsSound DEF NoVerification
<1>2. CASE lread' = x
  <2>1. lsc.relays \in Seq(RelayNodes) /\ DistinctIn(lsc.relays)
    BY DEF RelayInv, RelayTypes, RelayScenarios, RelayNodes
  <2>2. Order(lsc.relays) \in Seq(RelayNodes) /\ DistinctIn(Order(lsc.relays))
    BY <2>1, OrderIsDistinct
  <2>3. x \in ReadOf(path, {})
    BY <2>2 DEF ReadOf
  <2>4. /\ x.path = path /\ x.used = {} /\ x.on /\ x.got = << >> /\ x.pool = Order(lsc.relays)
        /\ x.stage = "ask"
    OBVIOUS
  <2> HIDE DEF x
  <2>5. x \in ReadRec(x) /\ Asked(x, lserved') /\ AtStage(x)
    BY <2>2, <2>3, <2>4 DEF ReadRec, Asked, AtStage
  <2> QED
    BY <1>2, <2>4, <2>5, GoesOn
<1> QED
  BY <1>1, <1>2 DEF StartRead

LEMMA NoneLeftSound ==
  ASSUME RelayInv, NoneLeft
  PROVE  ReadSound(lread', llast', lserved')
<1>1. \E v : Finish(v) /\ ~v.agreed
  BY DEF NoneLeft, NoVerification, Verified, Disputed
<1> QED
  BY <1>1, AgreedIsSound

LEMMA RelayStep ==
  ASSUME RelayInv, RelayNext
  PROVE  RelayInv'
<1>1. RelayTypes'
  <2>1. lsc' = lsc
    BY DEF RelayNext, StartRead, AskNext, AskBehind, NoneLeft, ClearDisputes, StartBroadcast,
           BroadcastTo, NewBlock, GatewayFollows, Refill
  <2>2. RelayNodes' = RelayNodes /\ RelayScenarios({lsc'})
    BY <2>1 DEF RelayNodes, RelayInv, RelayTypes
  <2>3. CASE UNCHANGED <<ltip, lat>>
    BY <2>1, <2>2, <2>3 DEF RelayInv, RelayTypes
  <2>4. CASE NewBlock
    BY <2>1, <2>2, <2>4 DEF NewBlock, RelayInv, RelayTypes, RelayScenarios
  <2>5. CASE \E p \in RelayNodes : GatewayFollows(p)
    BY <2>1, <2>2, <2>5 DEF GatewayFollows, RelayInv, RelayTypes, RelayScenarios
  <2> QED
    BY <2>3, <2>4, <2>5 DEF RelayNext, StartRead, AskNext, AskBehind, NoneLeft, ClearDisputes,
       StartBroadcast, BroadcastTo, Refill
<1>2. ReadSound(lread', llast', lserved')
  <2>1. CASE UNCHANGED <<lread, llast, lserved>>
    BY <2>1 DEF RelayInv
  <2> QED
    BY <2>1, StartReadSound, AskNextSound, AskBehindSound, NoneLeftSound
    DEF RelayNext, ClearDisputes, StartBroadcast, BroadcastTo, NewBlock, GatewayFollows, Refill
<1>3. lsc' = lsc
  BY DEF RelayNext, StartRead, AskNext, AskBehind, NoneLeft, ClearDisputes, StartBroadcast,
         BroadcastTo, NewBlock, GatewayFollows, Refill
<1>4. ReadSound(lread, llast, lserved)'
  BY <1>2, <1>3 DEF ReadSound, ReadRec, ReadOf, Gots, RelayNodes, Asked, AtStage, same_answer
<1> QED
  BY <1>1, <1>4 DEF RelayInv

LEMMA RelayStart ==
  ASSUME NEW scenes, RelayScenarios(scenes), RelayInit(scenes)
  PROVE  RelayInv
<1>1. RelayScenarios({lsc})
  BY DEF RelayInit, RelayScenarios
<1>2. RelayTypes
  BY <1>1 DEF RelayInit, RelayScenarios, RelayTypes
<1>3. NoRead \in ReadOf([kind |-> "none"], {})
  BY DEF NoRead, ReadOf
<1>4. NoRead \in ReadRec(NoRead) /\ ~NoRead.on
  BY <1>3 DEF ReadRec, ReadOf, NoRead
<1>5. ReadSound(lread, llast, lserved)
  BY <1>4 DEF RelayInit, ReadSound, NoVerification
<1> QED
  BY <1>2, <1>5 DEF RelayInv

(* The relay and the agent, side by side.                                  *)
WorkNext ==
  \/ RelayNext /\ UNCHANGED rewardVars
  \/ RewardsNext /\ UNCHANGED relayVars
workVars == <<relayVars, rewardVars>>

(* Whatever a node among honest ones lies, in whatever order the two, the  *)
(* one behind and the third are asked while the chain moves, an answer     *)
(* verified by two was given by an honest one (cross_checked_get); and for *)
(* any receipts, batches, caps, faults and restarts no accepted receipt is *)
(* lost without a count (insert_pending, submit_receipts).                 *)
THEOREM ChainWorkAlwaysHonest ==
  ASSUME NEW CONSTANT reads, NEW CONSTANT works, RelayScenarios(reads)
  PROVE  RelayInit(reads) /\ RewardsInit(works) /\ [][WorkNext]_workVars => []ChainWorkIsHonest
<1>1. RelayInit(reads) /\ RewardsInit(works) => RelayInv /\ RewardsInv
  BY RelayStart, RewardsStart
<1>2. RelayInv /\ RewardsInv /\ [WorkNext]_workVars => (RelayInv /\ RewardsInv)'
  <2> SUFFICES ASSUME RelayInv, RewardsInv, [WorkNext]_workVars PROVE RelayInv' /\ RewardsInv'
    OBVIOUS
  <2>1. ASSUME UNCHANGED relayVars PROVE RelayInv'
    BY <2>1 DEF relayVars, RelayInv, RelayTypes, RelayNodes, ReadSound, ReadRec, ReadOf, Gots, Asked
  <2>2. ASSUME UNCHANGED rewardVars PROVE RewardsInv'
    BY <2>2 DEF rewardVars, chainVars, agentVars, RewardsInv
  <2> QED
    BY <2>1, <2>2, RelayStep, RewardsStep DEF WorkNext, workVars
<1>3. RelayInv /\ RewardsInv => ChainWorkIsHonest
  BY DEF RelayInv, ReadSound, RewardsInv, ReceiptBooks, ChainWorkIsHonest, VerifiedIsHonest,
         ReceiptsAreCounted
<1> QED
  BY <1>1, <1>2, <1>3, PTL
=============================================================================
