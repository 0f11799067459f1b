----------------------- MODULE EpollMultiplexerProofs -----------------------
(***************************************************************************)
(* Proofs about EpollMultiplexer for any number of connections and calling *)
(* threads.  Sound(m) is what every member function of the multiplexer     *)
(* needs and keeps; one lemma per operator says so, and what the operator  *)
(* does to the fields.  IInv adds what relates the object to the batch of  *)
(* events, to the connections and to the threads.                          *)
(***************************************************************************)
EXTENDS EpollMultiplexer, TLAPS

(* Every manager is registered for its mask, which is never empty; the      *)
(* acceptor and the updater only ever read; the acceptor is gone once the   *)
(* shutdown has begun.                                                      *)
Sound(m) ==
    /\ m \in Multiplexer
    /\ m.ctl_ok
    /\ m.registered = m.managers
    /\ \A h \in m.managers : /\ m.interest[h] = ToEpollFlag(m.mask[h])
                             /\ m.mask[h] # {}
                             /\ m.mask[h] \subseteq {"read", "write"}
    /\ \A h \in Handle \ m.managers : m.mask[h] = {}
    /\ \A h \in {Pipe, Acceptor} : m.mask[h] \subseteq {"read"}
    /\ m.shutting_down => Acceptor \notin m.managers

LEMMA FlagType == \A ops : ToEpollFlag(ops) \in SUBSET Flag
  BY DEF ToEpollFlag, Flag

-----------------------------------------------------------------------------
(* The member functions keep Sound.                                         *)

LEMMA AddSound ==
  ASSUME NEW m, NEW c \in Handle, Sound(m), c \notin m.managers,
         m.shutting_down => c # Acceptor
  PROVE  LET a == Add(m, c, {"read"})
         IN  /\ Sound(a)
             /\ a.managers = m.managers \cup {c}
             /\ a.mask = [m.mask EXCEPT ![c] = {"read"}]
             /\ a.running = m.running /\ a.writer = m.writer
             /\ a.shutting_down = m.shutting_down
<1> DEFINE masked == [m EXCEPT !.mask[c] = {"read"}]
           told   == [masked EXCEPT !.registered = @ \cup {c},
                                    !.interest[c] = ToEpollFlag({"read"})]
           a      == [told EXCEPT !.managers = @ \cup {c}]
<1>1. c \in Handle
  OBVIOUS
<1>2. m \in Multiplexer /\ m.registered = m.managers
  BY DEF Sound
<1>3. masked = [m EXCEPT !.mask[c] = {"read"}]
  OBVIOUS
<1>4. told = [masked EXCEPT !.registered = @ \cup {c},
                            !.interest[c] = ToEpollFlag({"read"})]
  OBVIOUS
<1>5. a = [told EXCEPT !.managers = @ \cup {c}]
  OBVIOUS
<1> HIDE DEF masked
<1>6. /\ masked \in Multiplexer
      /\ masked.mask = [m.mask EXCEPT ![c] = {"read"}]
      /\ masked.managers = m.managers /\ masked.registered = m.registered
      /\ masked.interest = m.interest /\ masked.running = m.running
      /\ masked.shutting_down = m.shutting_down /\ masked.writer = m.writer
      /\ masked.ctl_ok = m.ctl_ok
  BY <1>1, <1>2, <1>3 DEF Multiplexer, Operation
<1>7. Mod(masked, c, "ADD", {"read"}) = told
  <2>1. c \notin masked.registered
    BY <1>2, <1>6
  <2>2. QED
    BY <2>1, Zenon DEF Mod
<1> HIDE DEF told
<1>8. Add(m, c, {"read"}) = a
  BY <1>3, <1>7 DEF Add
<1> HIDE DEF a
<1>9. /\ a \in Multiplexer
      /\ a.mask = [m.mask EXCEPT ![c] = {"read"}]
      /\ a.interest = [m.interest EXCEPT ![c] = ToEpollFlag({"read"})]
      /\ a.managers = m.managers \cup {c}
      /\ a.registered = m.registered \cup {c}
      /\ a.running = m.running /\ a.writer = m.writer
      /\ a.shutting_down = m.shutting_down /\ a.ctl_ok = m.ctl_ok
  BY <1>1, <1>4, <1>5, <1>6, FlagType DEF Multiplexer
<1>10. Sound(a)
  <2>1. /\ m.mask \in [Handle -> SUBSET Operation]
        /\ m.interest \in [Handle -> SUBSET Flag]
    BY <1>2 DEF Multiplexer
  <2>2. ASSUME NEW h \in a.managers
        PROVE  /\ a.interest[h] = ToEpollFlag(a.mask[h])
               /\ a.mask[h] # {} /\ a.mask[h] \subseteq {"read", "write"}
    BY <1>1, <1>9, <2>1, <2>2 DEF Sound
  <2>3. QED
    BY <1>1, <1>2, <1>9, <2>1, <2>2 DEF Sound
<1>11. QED
  BY <1>8, <1>9, <1>10

LEMMA EnableSound ==
  ASSUME NEW m, NEW c \in Conn, Sound(m), c \in m.managers
  PROVE  LET e == Enable(m, c, "write")
         IN  /\ Sound(e)
             /\ e.managers = m.managers
             /\ e.mask = [m.mask EXCEPT ![c] = @ \cup {"write"}]
             /\ e.running = m.running /\ e.writer = m.writer
             /\ e.shutting_down = m.shutting_down
<1>1. c \in Handle /\ c # Pipe /\ c # Acceptor
  BY EpollAssumption DEF Handle
<1>2. m \in Multiplexer /\ m.registered = m.managers
  BY DEF Sound
<1>3. /\ m.mask \in [Handle -> SUBSET Operation]
      /\ m.interest \in [Handle -> SUBSET Flag]
  BY <1>2 DEF Multiplexer
<1>4. CASE "write" \in m.mask[c]
  <2>1. Enable(m, c, "write") = m
    BY <1>4 DEF Enable
  <2>2. m.mask = [m.mask EXCEPT ![c] = @ \cup {"write"}]
    BY <1>1, <1>3, <1>4
  <2>3. QED
    BY <2>1, <2>2
<1>5. CASE "write" \notin m.mask[c]
  <2> DEFINE armed  == m.mask[c] \cup {"write"}
             masked == [m EXCEPT !.mask[c] = armed]
             e      == [masked EXCEPT !.registered = @ \cup {c},
                                      !.interest[c] = ToEpollFlag(armed)]
  <2>1. masked = [m EXCEPT !.mask[c] = m.mask[c] \cup {"write"}]
    OBVIOUS
  <2>2. e = [masked EXCEPT !.registered = @ \cup {c},
                           !.interest[c] = ToEpollFlag(m.mask[c] \cup {"write"})]
    OBVIOUS
  <2> HIDE DEF masked
  <2>3. /\ masked \in Multiplexer
        /\ masked.mask = [m.mask EXCEPT ![c] = @ \cup {"write"}]
        /\ masked.mask[c] = armed
        /\ masked.managers = m.managers /\ masked.registered = m.registered
        /\ masked.interest = m.interest /\ masked.running = m.running
        /\ masked.shutting_down = m.shutting_down /\ masked.writer = m.writer
        /\ masked.ctl_ok = m.ctl_ok
    BY <1>1, <1>2, <2>1 DEF Multiplexer, Operation
  <2>4. Mod(masked, c, "MOD", armed) = e
    <3>1. c \in masked.registered
      BY <1>2, <2>3
    <3>2. QED
      BY <3>1, Zenon DEF Mod
  <2> HIDE DEF e
  <2>5. Enable(m, c, "write") = e
    BY <1>5, <2>1, <2>3, <2>4, Zenon DEF Enable
  <2>6. /\ e \in Multiplexer
        /\ e.mask = [m.mask EXCEPT ![c] = @ \cup {"write"}]
        /\ e.interest = [m.interest EXCEPT ![c] = ToEpollFlag(armed)]
        /\ e.managers = m.managers
        /\ e.registered = m.registered \cup {c}
        /\ e.running = m.running /\ e.writer = m.writer
        /\ e.shutting_down = m.shutting_down /\ e.ctl_ok = m.ctl_ok
    BY <1>1, <2>2, <2>3, FlagType DEF Multiplexer
  <2>7. ASSUME NEW h \in e.managers
        PROVE  /\ e.interest[h] = ToEpollFlag(e.mask[h])
               /\ e.mask[h] # {} /\ e.mask[h] \subseteq {"read", "write"}
    BY <1>1, <1>3, <2>6, <2>7 DEF Sound
  <2>8. Sound(e)
    BY <1>1, <1>2, <1>3, <2>6, <2>7 DEF Sound
  <2>9. QED
    BY <2>5, <2>6, <2>8
<1>6. QED
  BY <1>4, <1>5

LEMMA DelFields ==
  ASSUME NEW m, NEW h \in Handle, m \in Multiplexer, h \in m.registered
  PROVE  LET d == Del(m, h)
         IN  /\ d \in Multiplexer
             /\ d.managers = m.managers \ {h}
             /\ d.registered = m.registered \ {h}
             /\ d.mask = [m.mask EXCEPT ![h] = {}]
             /\ d.interest = [m.interest EXCEPT ![h] = {}]
             /\ d.running => m.running
             /\ d.writer = m.writer /\ d.ctl_ok = m.ctl_ok
             /\ d.shutting_down = m.shutting_down
<1> DEFINE told == [m EXCEPT !.registered = @ \ {h}, !.interest[h] = {}]
           gone == [told EXCEPT !.managers = @ \ {h}, !.mask[h] = {}]
           d    == [gone EXCEPT !.running = @ /\ ~(m.shutting_down
                                                  /\ gone.managers = {})]
<1>1. Mod(m, h, "DEL", {}) = told
  BY Zenon DEF Mod
<1>2. told = [m EXCEPT !.registered = @ \ {h}, !.interest[h] = {}]
  OBVIOUS
<1> HIDE DEF told
<1>3. gone = [told EXCEPT !.managers = @ \ {h}, !.mask[h] = {}]
  OBVIOUS
<1> HIDE DEF gone
<1>4. Del(m, h) = d
  BY <1>1, <1>3, Zenon DEF Del
<1>5. d = [gone EXCEPT !.running = gone.running
                                   /\ ~(m.shutting_down /\ gone.managers = {})]
  OBVIOUS
<1> HIDE DEF d
<1>6. /\ told \in Multiplexer
      /\ told.registered = m.registered \ {h}
      /\ told.interest = [m.interest EXCEPT ![h] = {}]
      /\ told.mask = m.mask /\ told.managers = m.managers
      /\ told.running = m.running /\ told.writer = m.writer
      /\ told.ctl_ok = m.ctl_ok /\ told.shutting_down = m.shutting_down
  BY <1>2 DEF Multiplexer
<1>7. /\ gone \in Multiplexer
      /\ gone.managers = m.managers \ {h}
      /\ gone.mask = [m.mask EXCEPT ![h] = {}]
      /\ gone.registered = told.registered /\ gone.interest = told.interest
      /\ gone.running = m.running /\ gone.writer = m.writer
      /\ gone.ctl_ok = m.ctl_ok /\ gone.shutting_down = m.shutting_down
  BY <1>3, <1>6 DEF Multiplexer
<1>8. /\ d \in Multiplexer
      /\ d.managers = gone.managers /\ d.mask = gone.mask
      /\ d.registered = gone.registered /\ d.interest = gone.interest
      /\ d.running => gone.running
      /\ d.writer = gone.writer /\ d.ctl_ok = gone.ctl_ok
      /\ d.shutting_down = gone.shutting_down
  BY <1>5, <1>7 DEF Multiplexer
<1>9. QED
  BY <1>4, <1>6, <1>7, <1>8

LEMMA DelSound ==
  ASSUME NEW m, NEW h \in Handle, Sound(m), h \in m.managers
  PROVE  LET d == Del(m, h)
         IN  /\ Sound(d)
             /\ d.managers = m.managers \ {h}
             /\ d.mask = [m.mask EXCEPT ![h] = {}]
             /\ d.running => m.running
             /\ d.writer = m.writer /\ d.shutting_down = m.shutting_down
<1> DEFINE d == Del(m, h)
<1>1. m \in Multiplexer /\ m.registered = m.managers
  BY DEF Sound
<1>2. /\ m.mask \in [Handle -> SUBSET Operation]
      /\ m.interest \in [Handle -> SUBSET Flag]
  BY <1>1 DEF Multiplexer
<1>3. /\ d \in Multiplexer
      /\ d.managers = m.managers \ {h} /\ d.registered = m.registered \ {h}
      /\ d.mask = [m.mask EXCEPT ![h] = {}]
      /\ d.interest = [m.interest EXCEPT ![h] = {}]
      /\ d.running => m.running
      /\ d.writer = m.writer /\ d.ctl_ok = m.ctl_ok
      /\ d.shutting_down = m.shutting_down
  BY <1>1, DelFields
<1> HIDE DEF d
<1>4. ASSUME NEW g \in d.managers
      PROVE  /\ d.interest[g] = ToEpollFlag(d.mask[g])
             /\ d.mask[g] # {} /\ d.mask[g] \subseteq {"read", "write"}
  BY <1>2, <1>3, <1>4 DEF Sound
<1>5. Sound(d)
  BY <1>1, <1>2, <1>3, <1>4 DEF Sound, Handle
<1>6. QED
  BY <1>3, <1>5 DEF d

(* disable(mgr, read, true), the only form the loop uses. *)
LEMMA DisableSound ==
  ASSUME NEW m, NEW h \in Handle, Sound(m), h \in m.managers
  PROVE  LET d == Disable(m, h, {"read"}, TRUE)
         IN  /\ Sound(d)
             /\ d.managers = IF m.mask[h] = {"read"} THEN m.managers \ {h}
                             ELSE m.managers
             /\ d.mask = [m.mask EXCEPT ![h] = @ \ {"read"}]
             /\ d.running => m.running
             /\ d.writer = m.writer /\ d.shutting_down = m.shutting_down
<1>1. m \in Multiplexer /\ m.registered = m.managers
  BY DEF Sound
<1>2. /\ m.mask \in [Handle -> SUBSET Operation]
      /\ m.interest \in [Handle -> SUBSET Flag]
  BY <1>1 DEF Multiplexer
<1>3. CASE "read" \notin m.mask[h]
  <2>1. Disable(m, h, {"read"}, TRUE) = m
    BY <1>3 DEF Disable
  <2>2. m.mask = [m.mask EXCEPT ![h] = @ \ {"read"}]
    BY <1>2, <1>3
  <2>3. QED
    BY <1>3, <2>1, <2>2
<1>4. CASE "read" \in m.mask[h]
  <2> DEFINE left   == m.mask[h] \ {"read"}
             masked == [m EXCEPT !.mask[h] = left]
             told   == [masked EXCEPT !.registered = @ \cup {h},
                                      !.interest[h] = ToEpollFlag(left)]
             d      == IF left = {} THEN Del(told, h) ELSE told
  <2>1. masked = [m EXCEPT !.mask[h] = m.mask[h] \ {"read"}]
    OBVIOUS
  <2>2. told = [masked EXCEPT !.registered = @ \cup {h},
                              !.interest[h] = ToEpollFlag(left)]
    OBVIOUS
  <2> HIDE DEF masked
  <2>3. /\ masked \in Multiplexer
        /\ masked.mask = [m.mask EXCEPT ![h] = @ \ {"read"}]
        /\ masked.mask[h] = left
        /\ masked.managers = m.managers /\ masked.registered = m.registered
        /\ masked.interest = m.interest /\ masked.running = m.running
        /\ masked.shutting_down = m.shutting_down /\ masked.writer = m.writer
        /\ masked.ctl_ok = m.ctl_ok
    BY <1>1, <2>1 DEF Multiplexer, Operation
  <2>4. Mod(masked, h, "MOD", left) = told
    <3>1. h \in masked.registered
      BY <1>1, <2>3
    <3>2. QED
      BY <3>1, Zenon DEF Mod
  <2> HIDE DEF told
  <2>5. /\ told \in Multiplexer
        /\ told.mask = [m.mask EXCEPT ![h] = @ \ {"read"}]
        /\ told.interest = [m.interest EXCEPT ![h] = ToEpollFlag(left)]
        /\ told.managers = m.managers
        /\ told.registered = m.managers
        /\ told.running = m.running /\ told.writer = m.writer
        /\ told.shutting_down = m.shutting_down /\ told.ctl_ok = m.ctl_ok
    <3>1. /\ told.mask = masked.mask
          /\ told.interest = [masked.interest EXCEPT ![h] = ToEpollFlag(left)]
          /\ told.managers = masked.managers
          /\ told.registered = masked.registered \cup {h}
          /\ told.running = masked.running /\ told.writer = masked.writer
          /\ told.shutting_down = masked.shutting_down
          /\ told.ctl_ok = masked.ctl_ok
      BY <2>2, <2>3 DEF Multiplexer
    <3>2. told \in Multiplexer
      BY <2>2, <2>3, FlagType DEF Multiplexer
    <3>3. masked.registered \cup {h} = m.managers
      BY <1>1, <2>3
    <3>4. QED
      BY <2>3, <3>1, <3>2, <3>3
  <2>6. Disable(m, h, {"read"}, TRUE) = d
    <3>1. m.mask[h] \cap {"read"} # {}
      BY <1>4
    <3>2. Disable(m, h, {"read"}, TRUE)
            = IF TRUE /\ masked.mask[h] = {}
              THEN Del(Mod(masked, h, "MOD", masked.mask[h]), h)
              ELSE Mod(masked, h, "MOD", masked.mask[h])
      BY <3>1, <2>1 DEF Disable
    <3>3. QED
      BY <3>2, <2>3, <2>4, Zenon
  <2>7. CASE left = {}
    <3>1. d = Del(told, h)
      BY <2>7
    <3> HIDE DEF d
    <3>2. /\ d \in Multiplexer
          /\ d.managers = m.managers \ {h} /\ d.registered = m.managers \ {h}
          /\ d.mask = [told.mask EXCEPT ![h] = {}]
          /\ d.interest = [told.interest EXCEPT ![h] = {}]
          /\ d.running => m.running
          /\ d.writer = m.writer /\ d.ctl_ok = m.ctl_ok
          /\ d.shutting_down = m.shutting_down
      BY <2>5, <3>1, DelFields
    <3>3. m.mask[h] = {"read"}
      BY <1>2, <1>4, <2>7
    <3>4. d.mask = [m.mask EXCEPT ![h] = @ \ {"read"}]
      <4>1. told.mask \in [Handle -> SUBSET Operation]
        BY <2>5 DEF Multiplexer
      <4>2. /\ d.mask[h] = {}
            /\ \A g \in Handle \ {h} : d.mask[g] = told.mask[g]
        BY <3>2, <4>1
      <4>3. \A g \in Handle \ {h} : told.mask[g] = m.mask[g]
        BY <1>2, <2>5
      <4>4. m.mask[h] \ {"read"} = {}
        BY <3>3
      <4>5. d.mask \in [Handle -> SUBSET Operation]
        BY <3>2 DEF Multiplexer
      <4>6. QED
        BY <1>2, <4>2, <4>3, <4>4, <4>5
    <3>5. d.interest = [m.interest EXCEPT ![h] = {}]
      BY <1>2, <2>5, <3>2
    <3>6. ASSUME NEW g \in d.managers
          PROVE  /\ d.interest[g] = ToEpollFlag(d.mask[g])
                 /\ d.mask[g] # {} /\ d.mask[g] \subseteq {"read", "write"}
      <4>1. g \in m.managers /\ g # h /\ g \in Handle
        BY <1>1, <3>2, <3>6 DEF Multiplexer
      <4>2. d.mask[g] = m.mask[g] /\ d.interest[g] = m.interest[g]
        BY <1>2, <3>4, <3>5, <4>1
      <4>3. QED
        BY <4>1, <4>2 DEF Sound
    <3>7. Sound(d)
      <4>1. /\ d.ctl_ok /\ d.registered = d.managers
            /\ d.shutting_down => Acceptor \notin d.managers
        BY <2>5, <3>2 DEF Sound
      <4>2. \A g \in Handle \ d.managers : d.mask[g] = {}
        BY <1>2, <3>2, <3>3, <3>4 DEF Sound
      <4>3. \A g \in {Pipe, Acceptor} : d.mask[g] \subseteq {"read"}
        BY <1>2, <3>4 DEF Sound, Handle
      <4>4. QED
        BY <3>2, <3>6, <4>1, <4>2, <4>3 DEF Sound
    <3>8. QED
      BY <2>6, <3>2, <3>3, <3>4, <3>7
  <2>8. CASE left # {}
    <3>1. d = told /\ m.mask[h] # {"read"}
      BY <2>8
    <3> HIDE DEF d
    <3>2. ASSUME NEW g \in told.managers
          PROVE  /\ told.interest[g] = ToEpollFlag(told.mask[g])
                 /\ told.mask[g] # {} /\ told.mask[g] \subseteq {"read", "write"}
      BY <1>2, <2>5, <2>8, <3>2 DEF Sound
    <3>3. Sound(told)
      BY <1>1, <1>2, <2>5, <3>2 DEF Sound, Handle
    <3>4. QED
      BY <2>5, <2>6, <3>1, <3>3
  <2>9. QED
    BY <2>7, <2>8
<1>5. QED
  BY <1>3, <1>4

(* The result of a handler concerns its own manager only. *)
LEMMA ResultSound ==
  ASSUME NEW m, NEW h \in Handle, Sound(m), h \in m.managers,
         NEW res \in {"ok", "done", "error"}
  PROVE  LET d == HandleResult(m, h, res, "read")
         IN  /\ Sound(d)
             /\ d.managers \subseteq m.managers
             /\ m.managers \ {h} \subseteq d.managers
             /\ \A g \in Handle \ {h} : d.mask[g] = m.mask[g]
             /\ res = "error" => d.managers = m.managers \ {h}
             /\ res # "error" => d.mask[h] \cup {"read"} = m.mask[h] \cup {"read"}
             /\ d.running => m.running
             /\ d.writer = m.writer /\ d.shutting_down = m.shutting_down
<1>1. m.mask \in [Handle -> SUBSET Operation]
  BY DEF Sound, Multiplexer
<1> DEFINE d == HandleResult(m, h, res, "read")
<1>2. CASE res = "ok"
  <2>1. d = m
    BY <1>2 DEF HandleResult
  <2>2. QED
    BY <1>2, <2>1
<1>3. CASE res = "done"
  <2>1. d = Disable(m, h, {"read"}, TRUE)
    BY <1>3 DEF HandleResult
  <2> HIDE DEF d
  <2>2. /\ Sound(d)
        /\ d.managers = IF m.mask[h] = {"read"} THEN m.managers \ {h}
                        ELSE m.managers
        /\ d.mask = [m.mask EXCEPT ![h] = @ \ {"read"}]
        /\ d.running => m.running
        /\ d.writer = m.writer /\ d.shutting_down = m.shutting_down
    BY <2>1, DisableSound
  <2>3. /\ \A g \in Handle \ {h} : d.mask[g] = m.mask[g]
        /\ d.mask[h] \cup {"read"} = m.mask[h] \cup {"read"}
    BY <1>1, <2>2
  <2>4. d.managers \subseteq m.managers /\ m.managers \ {h} \subseteq d.managers
    BY <2>2
  <2>5. QED
    BY <1>3, <2>2, <2>3, <2>4 DEF d
<1>4. CASE res = "error"
  <2>1. d = Del(m, h)
    BY <1>4 DEF HandleResult
  <2> HIDE DEF d
  <2>2. /\ Sound(d)
        /\ d.managers = m.managers \ {h}
        /\ d.mask = [m.mask EXCEPT ![h] = {}]
        /\ d.running => m.running
        /\ d.writer = m.writer /\ d.shutting_down = m.shutting_down
    BY <2>1, DelSound
  <2>3. \A g \in Handle \ {h} : d.mask[g] = m.mask[g]
    BY <1>1, <2>2
  <2>4. QED
    BY <1>4, <2>2, <2>3 DEF d
<1>5. QED
  BY <1>2, <1>3, <1>4

LEMMA ShutdownSound ==
  ASSUME NEW m, Sound(m)
  PROVE  LET s == Shutdown(m)
         IN  /\ Sound(s)
             /\ s.managers \subseteq m.managers /\ Acceptor \notin s.managers
             /\ Pipe \in m.managers <=> Pipe \in s.managers
             /\ \A h \in Handle : s.mask[h] \cup {"read"} = m.mask[h] \cup {"read"}
             /\ s.running => m.running
             /\ {Pipe, Acceptor} \subseteq m.managers => ~s.running
             /\ ~s.writer /\ s.shutting_down
<1> DEFINE others == m.managers \ {Pipe}
           mask   == [h \in Handle |-> IF h \in others
                                       THEN m.mask[h] \ {"read", "accept"}
                                       ELSE m.mask[h]]
           gone   == {h \in others : mask[h] = {}}
           told   == [h \in Handle |-> IF h \in others THEN ToEpollFlag(mask[h])
                                       ELSE m.interest[h]]
           r      == Retire(m, others, {"read", "accept"})
           s      == Shutdown(m)
<1>1. /\ m \in Multiplexer /\ m.registered = m.managers
      /\ Pipe \in Handle /\ Acceptor \in Handle /\ Pipe # Acceptor
  BY EpollAssumption DEF Sound, Handle
<1>2. /\ m.mask \in [Handle -> SUBSET Operation]
      /\ m.interest \in [Handle -> SUBSET Flag]
      /\ m.managers \in SUBSET Handle
  BY <1>1 DEF Multiplexer
<1>3. r = [m EXCEPT !.shutting_down = TRUE, !.managers = @ \ gone, !.mask = mask,
                    !.registered = @ \ gone, !.interest = told,
                    !.writer = FALSE,
                    !.ctl_ok = @ /\ others \subseteq m.registered]
  BY DEF Retire
<1>4. s = [r EXCEPT !.running = @ /\ \A h \in m.managers \ r.managers :
                                         m.managers = {h}]
  BY DEF Shutdown
<1>5. mask \in [Handle -> SUBSET Operation] /\ told \in [Handle -> SUBSET Flag]
  BY <1>2, FlagType
<1>6. \A h \in Handle :
        /\ mask[h] = IF h \in others THEN m.mask[h] \ {"read", "accept"}
                     ELSE m.mask[h]
        /\ told[h] = IF h \in others THEN ToEpollFlag(mask[h]) ELSE m.interest[h]
  OBVIOUS
<1>7. gone \subseteq others /\ \A h \in others : h \in gone <=> mask[h] = {}
  OBVIOUS
<1> HIDE DEF mask, told, gone, r, s
<1>8. /\ r \in Multiplexer
      /\ r.managers = m.managers \ gone /\ r.registered = m.managers \ gone
      /\ r.mask = mask /\ r.interest = told
      /\ r.running = m.running /\ ~r.writer /\ r.shutting_down
      /\ r.ctl_ok = (m.ctl_ok /\ others \subseteq m.registered)
  BY <1>1, <1>3, <1>5 DEF Multiplexer
<1>9. /\ s \in Multiplexer
      /\ s.managers = r.managers /\ s.registered = r.registered
      /\ s.mask = mask /\ s.interest = told
      /\ ~s.writer /\ s.shutting_down /\ s.ctl_ok = r.ctl_ok
      /\ s.running <=> /\ m.running
                       /\ \A h \in m.managers \ r.managers : m.managers = {h}
  BY <1>4, <1>8 DEF Multiplexer
<1>10. \A h \in Handle : mask[h] \cup {"read"} = m.mask[h] \cup {"read"}
  BY <1>2, <1>6 DEF Sound, Operation
<1>11. Acceptor \notin s.managers
  <2>1. Acceptor \in m.managers => Acceptor \in gone
    BY <1>1, <1>6, <1>7 DEF Sound
  <2>2. QED
    BY <2>1, <1>8, <1>9
<1>12. Pipe \in m.managers <=> Pipe \in s.managers
  BY <1>7, <1>8, <1>9
<1>13. ASSUME NEW h \in s.managers
       PROVE  /\ s.interest[h] = ToEpollFlag(s.mask[h])
              /\ s.mask[h] # {} /\ s.mask[h] \subseteq {"read", "write"}
  <2>1. h \in m.managers /\ h \in Handle /\ h \notin gone
    BY <1>2, <1>8, <1>9, <1>13
  <2>2. /\ m.interest[h] = ToEpollFlag(m.mask[h])
        /\ m.mask[h] # {} /\ m.mask[h] \subseteq {"read", "write"}
    BY <2>1 DEF Sound
  <2>3. CASE h \in others
    BY <1>6, <1>7, <1>9, <2>1, <2>2, <2>3
  <2>4. CASE h \notin others
    BY <1>6, <1>9, <2>1, <2>2, <2>4
  <2>5. QED
    BY <2>3, <2>4
<1>14. Sound(s)
  <2>1. \A h \in Handle \ s.managers : s.mask[h] = {}
    <3>1. ASSUME NEW h \in Handle \ s.managers, h \in m.managers
          PROVE  mask[h] = {}
      BY <1>7, <1>8, <1>9, <3>1
    <3>2. ASSUME NEW h \in Handle \ s.managers, h \notin m.managers
          PROVE  mask[h] = {}
      BY <1>6, <3>2 DEF Sound
    <3>3. QED
      BY <1>9, <3>1, <3>2
  <2>2. \A h \in {Pipe, Acceptor} : s.mask[h] \subseteq {"read"}
    <3>1. ASSUME NEW h \in {Pipe, Acceptor}
          PROVE  mask[h] \subseteq {"read"}
      <4>1. m.mask[h] \subseteq {"read"} /\ h \in Handle
        BY <1>1 DEF Sound
      <4>2. QED
        BY <1>6, <4>1
    <3>2. QED
      BY <1>9, <3>1
  <2>3. s.ctl_ok /\ s.registered = s.managers
    <3>1. m.ctl_ok /\ m.registered = m.managers
      BY <1>1 DEF Sound
    <3>2. QED
      BY <1>8, <1>9, <3>1
  <2>4. QED
    BY <1>9, <1>11, <1>13, <2>1, <2>2, <2>3 DEF Sound
<1>15. {Pipe, Acceptor} \subseteq m.managers => ~s.running
  BY <1>1, <1>8, <1>9, <1>11
<1>16. QED
  BY <1>8, <1>9, <1>10, <1>11, <1>12, <1>14, <1>15 DEF s

-----------------------------------------------------------------------------
(* The inductive invariant.                                                 *)

(* Events for output are those of connections that are registered for it,   *)
(* and while the acceptor can add managers every event has its manager.     *)
EventsMatch ==
    /\ \A h \in Handle : "OUT" \in events[h] =>
           h \in Conn /\ (h \in mpx.managers => "write" \in mpx.mask[h])
    /\ Acceptor \in mpx.managers =>
           \A h \in Handle : events[h] # {} => h \in mpx.managers
    /\ cur # None => cur \in mpx.managers /\ "OUT" \in events[cur]

(* Only a loop thread that knows its id shuts down. *)
ShutdownKnowsThread ==
    /\ ~id_set => mpx.writer /\ ~mpx.shutting_down
    /\ owner = "idle" => ~id_set

IInv ==
    /\ TypeOK
    /\ Sound(mpx)
    /\ PendingIsRegistered
    /\ EventsMatch
    /\ ShutdownKnowsThread
    /\ NoHalfClosedPipe

LEMMA RunningSound ==
  ASSUME NEW m, Sound(m), NEW b \in BOOLEAN
  PROVE  LET r == [m EXCEPT !.running = b]
         IN  /\ Sound(r)
             /\ r.managers = m.managers /\ r.mask = m.mask
             /\ r.running = b /\ r.writer = m.writer
             /\ r.shutting_down = m.shutting_down
<1> DEFINE r == [m EXCEPT !.running = b]
<1>1. m \in Multiplexer
  BY DEF Sound
<1>2. /\ r \in Multiplexer
      /\ r.managers = m.managers /\ r.mask = m.mask
      /\ r.registered = m.registered /\ r.interest = m.interest
      /\ r.running = b /\ r.writer = m.writer
      /\ r.shutting_down = m.shutting_down /\ r.ctl_ok = m.ctl_ok
  BY <1>1 DEF Multiplexer
<1> HIDE DEF r
<1>3. Sound(r)
  BY <1>2 DEF Sound
<1>4. QED
  BY <1>2, <1>3 DEF r

(* A connection that is not managed any more has nothing queued. *)
LEMMA AliveFacts ==
  ASSUME NEW m, NEW cs \in [Conn -> Connection]
  PROVE  /\ Alive(m, cs) \in [Conn -> Connection]
         /\ \A c \in Conn : Alive(m, cs)[c].pending =>
                              c \in m.managers /\ cs[c].pending
<1>1. Fresh \in Connection /\ ~Fresh.pending
  BY EpollAssumption DEF Fresh, Connection
<1>2. QED
  BY <1>1 DEF Alive

-----------------------------------------------------------------------------
(* The invariant holds initially.                                           *)

LEMMA InitInv ==
  ASSUME Init
  PROVE  /\ IInv
         /\ Pipe \in mpx.managers /\ mpx.writer /\ ~mpx.shutting_down
<1>1. Pipe \in Handle /\ Acceptor \in Handle /\ Pipe # Acceptor
  BY EpollAssumption DEF Handle
<1>2. Blank \in Multiplexer
  BY DEF Blank, Multiplexer, Operation, Flag
<1>3. /\ Blank.managers = {} /\ Blank.registered = {} /\ Blank.ctl_ok
      /\ Blank.mask = [h \in Handle |-> {}] /\ Blank.writer
      /\ ~Blank.running /\ ~Blank.shutting_down
  BY DEF Blank
<1>4. Sound(Blank)
  BY <1>1, <1>2, <1>3 DEF Sound
<1> DEFINE first == Add(Blank, Pipe, {"read"})
<1>5. /\ Sound(first) /\ first.managers = {Pipe}
      /\ first.writer /\ ~first.running /\ ~first.shutting_down
  <2>1. Pipe \notin Blank.managers /\ (Blank.shutting_down => Pipe # Acceptor)
    BY <1>1, <1>3
  <2>2. QED
    <3>1. /\ Sound(first) /\ first.managers = Blank.managers \cup {Pipe}
          /\ first.running = Blank.running /\ first.writer = Blank.writer
          /\ first.shutting_down = Blank.shutting_down
      BY <1>1, <1>4, <2>1, AddSound, Zenon
    <3>2. QED
      BY <1>3, <3>1
<1> HIDE DEF first
<1>6. mpx = Add(first, Acceptor, {"read"})
  BY DEF Init, first
<1>7. /\ Sound(mpx) /\ mpx.managers = {Pipe, Acceptor}
      /\ mpx.writer /\ ~mpx.running /\ ~mpx.shutting_down
  <2>1. Acceptor \notin first.managers
    BY <1>1, <1>5
  <2>2. QED
    <3>1. /\ Sound(mpx) /\ mpx.managers = first.managers \cup {Acceptor}
          /\ mpx.running = first.running /\ mpx.writer = first.writer
          /\ mpx.shutting_down = first.shutting_down
      BY <1>1, <1>5, <1>6, <2>1, AddSound, Zenon
    <3>2. QED
      BY <1>5, <3>1
<1>8. mpx \in Multiplexer
  BY <1>7 DEF Sound
<1>9. TypeOK
  <2>1. Fresh \in Connection
    BY EpollAssumption DEF Fresh, Connection
  <2>2. conn \in [Conn -> Connection]
    BY <2>1 DEF Init
  <2>3. QED
    <3>1. /\ caller \in [Callers -> {"idle", "checked", "done"}]
          /\ events \in [Handle -> SUBSET Flag]
      BY DEF Init
    <3>2. pipe \in Nat /\ backlog \in Int
      BY DEF Init
    <3>3. /\ phase = "unborn" /\ owner = "idle" /\ id_set = FALSE
          /\ cur = None /\ fault = "none"
      BY DEF Init
    <3>4. QED
      BY <1>8, <2>2, <3>1, <3>2, <3>3, Zenon DEF TypeOK
<1>10. PendingIsRegistered
  BY DEF Init, PendingIsRegistered, Fresh
<1>11. EventsMatch
  BY DEF Init, EventsMatch
<1>12. ShutdownKnowsThread /\ NoHalfClosedPipe
  BY <1>7 DEF Init, ShutdownKnowsThread, NoHalfClosedPipe
<1>13. IInv
  BY <1>7, <1>9, <1>10, <1>11, <1>12 DEF IInv
<1>14. QED
  BY <1>7, <1>13

-----------------------------------------------------------------------------
(* Every step keeps it.                                                     *)

LEMMA PeersInv == IInv /\ Peers => IInv'
<1> SUFFICES ASSUME IInv, Peers PROVE IInv'
  OBVIOUS
<1>1. UNCHANGED <<mpx, events, cur, pipe, fault, phase, owner, id_set, caller>>
  BY DEF Peers, PeerConnect, PeerSend, PeerClose, loopVars
<1>2. backlog' \in Int
  BY DEF IInv, TypeOK, Peers, PeerConnect, PeerSend, PeerClose
<1>3. /\ conn' \in [Conn -> Connection]
      /\ \A c \in Conn : conn'[c].pending = conn[c].pending
  <2>0. conn \in [Conn -> Connection]
    BY DEF IInv, TypeOK
  <2>1. CASE UNCHANGED conn
    BY <2>0, <2>1
  <2>2. ASSUME NEW c \in Conn, PeerSend(c)
        PROVE  <1>3!1 /\ <1>3!2
    BY <2>0, <2>2, EpollAssumption DEF PeerSend, Connection
  <2>3. ASSUME NEW c \in Conn, PeerClose(c)
        PROVE  <1>3!1 /\ <1>3!2
    BY <2>0, <2>3 DEF PeerClose, Connection
  <2>4. QED
    BY <2>1, <2>2, <2>3 DEF Peers, PeerConnect
<1>4. TypeOK'
  BY <1>1, <1>2, <1>3, Zenon DEF IInv, TypeOK
<1>5. PendingIsRegistered'
  BY <1>1, <1>3 DEF IInv, PendingIsRegistered
<1>6. Sound(mpx)' /\ EventsMatch' /\ ShutdownKnowsThread' /\ NoHalfClosedPipe'
  BY <1>1 DEF IInv, EventsMatch, ShutdownKnowsThread, NoHalfClosedPipe
<1>7. QED
  BY <1>4, <1>5, <1>6 DEF IInv

LEMMA OwnerInv == IInv /\ Owner => IInv'
<1> SUFFICES ASSUME IInv, Owner PROVE IInv'
  OBVIOUS
<1>1. CASE Start
  <2>1. /\ mpx' = [mpx EXCEPT !.running = TRUE]
        /\ owner' = "starting" /\ owner = "idle" /\ phase' = "loop"
        /\ UNCHANGED <<id_set, caller, events, cur, pipe, fault, backlog, conn>>
    BY <1>1 DEF Start
  <2>2. /\ Sound(mpx')
        /\ mpx'.managers = mpx.managers /\ mpx'.mask = mpx.mask
        /\ mpx'.writer = mpx.writer /\ mpx'.shutting_down = mpx.shutting_down
    BY <2>1, RunningSound DEF IInv
  <2>3. TypeOK'
    BY <2>1, <2>2, Zenon DEF IInv, TypeOK, Sound
  <2>4. PendingIsRegistered' /\ EventsMatch'
    BY <2>1, <2>2 DEF IInv, PendingIsRegistered, EventsMatch
  <2>5. ShutdownKnowsThread' /\ NoHalfClosedPipe'
    BY <2>1, <2>2 DEF IInv, ShutdownKnowsThread, NoHalfClosedPipe
  <2>6. QED
    BY <2>2, <2>3, <2>4, <2>5 DEF IInv
<1>2. CASE AssignThreadId \/ Join
  <2>1. UNCHANGED <<mpx, events, cur, pipe, fault, phase, caller, backlog, conn>>
    BY <1>2 DEF AssignThreadId, Join, loopVars
  <2>2. /\ owner' \in {"started", "joined"} /\ id_set' \in BOOLEAN
        /\ id_set => id_set'
    BY <1>2 DEF AssignThreadId, Join, IInv, TypeOK
  <2>3. TypeOK'
    BY <2>1, <2>2, Zenon DEF IInv, TypeOK
  <2>4. QED
    BY <2>1, <2>2, <2>3
    DEF IInv, PendingIsRegistered, EventsMatch, ShutdownKnowsThread, NoHalfClosedPipe
<1>3. QED
  BY <1>1, <1>2 DEF Owner

(* write_to_pipe() only touches the pipe, or ends the process. *)
LEMMA WriteToPipeType ==
  ASSUME TypeOK, NEW m, WriteToPipe(m)
  PROVE  pipe' \in Nat /\ fault' \in {"none", "terminate", "sigpipe", "use_after_free"}
  BY DEF TypeOK, WriteToPipe

LEMMA CallerInv ==
  ASSUME IInv, NEW t \in Callers, Caller(t)
  PROVE  IInv'
<1>1. UNCHANGED <<mpx, events, cur, phase, owner, id_set, backlog, conn>>
  BY DEF Caller, CallerCheck, CallerWrite, loopVars
<1>2. caller' \in [Callers -> {"idle", "checked", "done"}]
  BY DEF Caller, CallerCheck, CallerWrite, IInv, TypeOK
<1>3. pipe' \in Nat /\ fault' \in {"none", "terminate", "sigpipe", "use_after_free"}
  BY WriteToPipeType DEF Caller, CallerCheck, CallerWrite, IInv, TypeOK, loopVars
<1>4. TypeOK'
  BY <1>1, <1>2, <1>3, Zenon DEF IInv, TypeOK
<1>5. QED
  BY <1>1, <1>4
  DEF IInv, PendingIsRegistered, EventsMatch, ShutdownKnowsThread, NoHalfClosedPipe

LEMMA PollInv == IInv /\ Poll => IInv'
<1> SUFFICES ASSUME IInv, Poll PROVE IInv'
  OBVIOUS
<1>1. UNCHANGED <<mpx, cur, pipe, fault, phase, owner, id_set, caller, backlog, conn>>
  BY DEF Poll
<1>2. cur = None
  BY DEF Poll, BatchDone
<1>3. PICK writable \in SUBSET {h \in mpx.registered : "OUT" \in mpx.interest[h]} :
        LET readable == {h \in mpx.registered :
                           "IN" \in mpx.interest[h] /\ Readable(h)}
            ready    == readable \cup writable
        IN  \E batch \in SUBSET ready :
              events' = [h \in Handle |->
                           {f \in Flag : /\ h \in batch
                                         /\ f = "IN"  => h \in readable
                                         /\ f = "OUT" => h \in writable}]
  BY DEF Poll
<1>4. events' \in [Handle -> SUBSET Flag]
  BY <1>3
<1>5. mpx.registered = mpx.managers
  BY DEF IInv, Sound
<1>6. \A h \in Handle : events'[h] # {} => h \in mpx.managers
  BY <1>3, <1>5
<1>7. ASSUME NEW h \in Handle, "OUT" \in events'[h]
      PROVE  h \in Conn /\ "write" \in mpx.mask[h]
  <2>1. h \in mpx.managers /\ "OUT" \in mpx.interest[h]
    BY <1>3, <1>5, <1>7
  <2>2. mpx.interest[h] = ToEpollFlag(mpx.mask[h])
    BY <2>1 DEF IInv, Sound
  <2>3. "write" \in mpx.mask[h]
    BY <2>1, <2>2 DEF ToEpollFlag
  <2>4. QED
    BY <2>3 DEF IInv, Sound, Handle
<1>8. TypeOK'
  BY <1>1, <1>4, Zenon DEF IInv, TypeOK
<1>9. EventsMatch'
  BY <1>1, <1>2, <1>6, <1>7 DEF EventsMatch
<1>10. QED
  BY <1>1, <1>8, <1>9
  DEF IInv, PendingIsRegistered, ShutdownKnowsThread, NoHalfClosedPipe

LEMMA PollErrorInv == IInv /\ PollError => IInv'
<1> SUFFICES ASSUME IInv, PollError PROVE IInv'
  OBVIOUS
<1>1. /\ mpx' = [mpx EXCEPT !.running = FALSE]
      /\ UNCHANGED <<events, cur, pipe, fault, phase, owner, id_set, caller,
                     backlog, conn>>
  BY DEF PollError
<1>2. /\ Sound(mpx')
      /\ mpx'.managers = mpx.managers /\ mpx'.mask = mpx.mask
      /\ mpx'.running = FALSE
      /\ mpx'.writer = mpx.writer /\ mpx'.shutting_down = mpx.shutting_down
  BY <1>1, RunningSound DEF IInv
<1>3. TypeOK'
  BY <1>1, <1>2, Zenon DEF IInv, TypeOK, Sound
<1>4. QED
  BY <1>1, <1>2, <1>3
  DEF IInv, PendingIsRegistered, EventsMatch, ShutdownKnowsThread, NoHalfClosedPipe

LEMMA LoopExitInv == IInv /\ LoopExit => IInv'
<1> SUFFICES ASSUME IInv, LoopExit PROVE IInv'
  OBVIOUS
<1>1. /\ phase' = "exited"
      /\ UNCHANGED <<mpx, events, cur, pipe, fault, owner, id_set, caller,
                     backlog, conn>>
  BY DEF LoopExit, loopVars
<1>2. TypeOK'
  BY <1>1, Zenon DEF IInv, TypeOK
<1>3. QED
  BY <1>1, <1>2
  DEF IInv, PendingIsRegistered, EventsMatch, ShutdownKnowsThread, NoHalfClosedPipe

LEMMA SkipEventInv ==
  ASSUME IInv, NEW h \in Handle, SkipEvent(h)
  PROVE  IInv'
<1>1. /\ cur = None /\ events' = [events EXCEPT ![h] = {}]
      /\ UNCHANGED <<mpx, cur, pipe, fault, phase, owner, id_set, caller,
                     backlog, conn>>
  BY DEF SkipEvent
<1>2. events \in [Handle -> SUBSET Flag]
  BY DEF IInv, TypeOK
<1>3. /\ events' \in [Handle -> SUBSET Flag]
      /\ \A g \in Handle : events'[g] \subseteq events[g]
  BY <1>1, <1>2
<1>4. TypeOK'
  BY <1>1, <1>3, Zenon DEF IInv, TypeOK
<1>5. EventsMatch'
  BY <1>1, <1>3 DEF IInv, EventsMatch
<1>6. QED
  BY <1>1, <1>4, <1>5
  DEF IInv, PendingIsRegistered, ShutdownKnowsThread, NoHalfClosedPipe

(* The handlers of a connection: its own manager may go, nobody else's.     *)
LEMMA ConnectionInv ==
  ASSUME IInv, NEW c \in Conn, c \in mpx.managers, NEW m1,
         NEW res \in {"ok", "done", "error"},
         Sound(m1), m1.managers = mpx.managers,
         \A g \in Handle : mpx.mask[g] \subseteq m1.mask[g],
         \A g \in Handle \ {c} : m1.mask[g] = mpx.mask[g],
         m1.running = mpx.running, m1.writer = mpx.writer,
         m1.shutting_down = mpx.shutting_down,
         mpx' = HandleResult(m1, c, res, "read"),
         NEW cs \in [Conn -> Connection], conn' = Alive(mpx', cs),
         \A g \in Conn \ {c} : cs[g].pending => conn[g].pending,
         cs[c].pending => res = "error" \/ "write" \in m1.mask[c],
         \A g \in Handle \ {c} : events'[g] = events[g],
         events'[c] \subseteq events[c],
         events'[c] # {} => res # "error" /\ "OUT" \in events'[c],
         cur' = (IF "OUT" \in events'[c] THEN c ELSE None),
         events' \in [Handle -> SUBSET Flag],
         UNCHANGED <<pipe, fault, phase, owner, id_set, caller, backlog>>
  PROVE  IInv'
<1>1. c \in Handle /\ c # Pipe /\ c # Acceptor /\ c # None
  BY EpollAssumption DEF Handle
<1>2. /\ Sound(mpx')
      /\ mpx'.managers \subseteq m1.managers
      /\ m1.managers \ {c} \subseteq mpx'.managers
      /\ \A g \in Handle \ {c} : mpx'.mask[g] = m1.mask[g]
      /\ res = "error" => mpx'.managers = m1.managers \ {c}
      /\ res # "error" => mpx'.mask[c] \cup {"read"} = m1.mask[c] \cup {"read"}
      /\ mpx'.running => m1.running
      /\ mpx'.writer = m1.writer /\ mpx'.shutting_down = m1.shutting_down
  BY <1>1, ResultSound
<1>3. /\ conn' \in [Conn -> Connection]
      /\ \A g \in Conn : conn'[g].pending => g \in mpx'.managers /\ cs[g].pending
  BY AliveFacts
<1>4. mpx'.managers \subseteq mpx.managers /\ mpx'.managers \subseteq Handle
  BY <1>2 DEF Sound, Multiplexer
<1>5. /\ cur' \in Conn \cup {None} /\ mpx' \in Multiplexer
  BY <1>2 DEF Sound
<1>6. TypeOK'
  BY <1>3, <1>5, Zenon DEF IInv, TypeOK
<1>7. /\ res = "error" => mpx'.managers = mpx.managers \ {c}
      /\ res # "error" /\ "write" \in m1.mask[c]
           => c \in mpx'.managers /\ "write" \in mpx'.mask[c]
      /\ res = "ok" => c \in mpx'.managers
  <2>1. ASSUME res = "error" PROVE mpx'.managers = mpx.managers \ {c}
    BY <1>2, <2>1
  <2>2. ASSUME res # "error", "write" \in m1.mask[c]
        PROVE  c \in mpx'.managers /\ "write" \in mpx'.mask[c]
    <3>1. "write" \in mpx'.mask[c]
      BY <1>2, <2>2
    <3>2. QED
      BY <1>1, <1>2, <3>1 DEF Sound
  <2>3. ASSUME res = "ok" PROVE c \in mpx'.managers
    BY <2>3 DEF HandleResult
  <2>4. QED
    BY <2>1, <2>2, <2>3
<1>8. PendingIsRegistered'
  <2>1. ASSUME NEW g \in Conn, conn'[g].pending
        PROVE  "write" \in mpx'.mask[g]
    <3>1. g \in mpx'.managers /\ cs[g].pending /\ g \in Handle
      BY <1>3, <2>1 DEF Handle
    <3>2. CASE g = c
      BY <1>7, <3>1, <3>2
    <3>3. CASE g # c
      BY <1>2, <3>1, <3>3 DEF IInv, PendingIsRegistered
    <3>4. QED
      BY <3>2, <3>3
  <2>2. QED
    BY <2>1 DEF PendingIsRegistered
<1>9. EventsMatch'
  <2>1. ASSUME NEW h \in Handle, "OUT" \in events'[h]
        PROVE  h \in Conn /\ (h \in mpx'.managers => "write" \in mpx'.mask[h])
    <3>1. /\ h \in Conn
          /\ h \in mpx.managers => "write" \in mpx.mask[h]
      BY <2>1 DEF IInv, EventsMatch
    <3>2. CASE h = c
      BY <1>1, <1>7, <2>1, <3>1, <3>2
    <3>3. CASE h # c
      BY <1>2, <1>4, <3>1, <3>3
    <3>4. QED
      BY <3>1, <3>2, <3>3
  <2>2. ASSUME "OUT" \in events'[c]
        PROVE  c \in mpx'.managers
    <3>1. "write" \in mpx.mask[c]
      BY <1>1, <2>2 DEF IInv, EventsMatch
    <3>2. QED
      BY <1>1, <1>7, <2>2, <3>1
  <2>3. ASSUME Acceptor \in mpx'.managers, NEW h \in Handle, events'[h] # {}
        PROVE  h \in mpx'.managers
    <3>1. CASE h = c
      BY <1>7, <2>2, <2>3, <3>1
    <3>2. CASE h # c
      BY <1>2, <1>4, <2>3, <3>2 DEF IInv, EventsMatch
    <3>3. QED
      BY <3>1, <3>2
  <2>4. QED
    BY <2>1, <2>2, <2>3 DEF EventsMatch
<1>10. ShutdownKnowsThread' /\ NoHalfClosedPipe'
  BY <1>2, <1>4 DEF IInv, ShutdownKnowsThread, NoHalfClosedPipe
<1>11. QED
  BY <1>2, <1>6, <1>8, <1>9, <1>10 DEF IInv

LEMMA DispatchReadInv ==
  ASSUME IInv, NEW c \in Conn, DispatchRead(c)
  PROVE  IInv'
<1>1. /\ c \in mpx.managers /\ "IN" \in events[c] /\ cur = None
      /\ c \in Handle /\ c # Acceptor
  BY EpollAssumption DEF DispatchRead, Found, Handle
<1>2. PICK out \in ReadOutcome(c), answers \in BOOLEAN :
        /\ mpx' = HandleResult(IF answers THEN Answer(mpx, c) ELSE mpx,
                               c, out.res, "read")
        /\ conn' = Alive(mpx', [conn EXCEPT ![c].input = out.left,
                                            ![c].pending = @ \/ answers])
        /\ events' = [events EXCEPT ![c] = IF out.res = "error" THEN {}
                                           ELSE @ \ {"IN"}]
        /\ cur' = IF "OUT" \in events'[c] THEN c ELSE None
  BY DEF DispatchRead
<1>3. /\ conn \in [Conn -> Connection] /\ events \in [Handle -> SUBSET Flag]
      /\ mpx \in Multiplexer /\ mpx.mask \in [Handle -> SUBSET Operation]
      /\ Sound(mpx)
  BY DEF IInv, TypeOK, Multiplexer
<1>4. out.res \in {"ok", "done", "error"} /\ out.left \in 0..MaxInput
  BY <1>2, <1>3, EpollAssumption DEF ReadOutcome, Connection
<1> DEFINE m1 == IF answers THEN Answer(mpx, c) ELSE mpx
           cs == [conn EXCEPT ![c].input = out.left,
                              ![c].pending = @ \/ answers]
<1>5. /\ Sound(m1) /\ m1.managers = mpx.managers
      /\ \A g \in Handle : mpx.mask[g] \subseteq m1.mask[g]
      /\ \A g \in Handle \ {c} : m1.mask[g] = mpx.mask[g]
      /\ m1.running = mpx.running /\ m1.writer = mpx.writer
      /\ m1.shutting_down = mpx.shutting_down
      /\ answers => "write" \in m1.mask[c]
  <2>1. CASE answers
    <3>1. m1 = Enable(mpx, c, "write")
      BY <2>1 DEF Answer
    <3> HIDE DEF m1
    <3>2. /\ Sound(m1) /\ m1.managers = mpx.managers
          /\ m1.mask = [mpx.mask EXCEPT ![c] = @ \cup {"write"}]
          /\ m1.running = mpx.running /\ m1.writer = mpx.writer
          /\ m1.shutting_down = mpx.shutting_down
      BY <1>1, <1>3, <3>1, EnableSound, Zenon
    <3>3. QED
      BY <1>1, <1>3, <3>2
  <2>2. CASE ~answers
    BY <1>3, <2>2
  <2>3. QED
    BY <2>1, <2>2
<1>6. /\ cs \in [Conn -> Connection]
      /\ \A g \in Conn \ {c} : cs[g].pending => conn[g].pending
      /\ cs[c].pending => conn[c].pending \/ answers
  <2>1. conn[c] \in Connection /\ answers \in BOOLEAN
    BY <1>3
  <2>2. cs = [conn EXCEPT ![c] = [conn[c] EXCEPT !.input = out.left,
                                                !.pending = @ \/ answers]]
    BY <1>3, <2>1
  <2> HIDE DEF cs
  <2>3. /\ [conn[c] EXCEPT !.input = out.left, !.pending = @ \/ answers]
             \in Connection
        /\ [conn[c] EXCEPT !.input = out.left, !.pending = @ \/ answers].pending
             = (conn[c].pending \/ answers)
    BY <1>4, <2>1 DEF Connection
  <2>4. QED
    BY <1>3, <2>2, <2>3
<1>7. cs[c].pending => "write" \in m1.mask[c]
  BY <1>1, <1>5, <1>6 DEF IInv, PendingIsRegistered
<1>8. /\ events' \in [Handle -> SUBSET Flag]
      /\ \A g \in Handle \ {c} : events'[g] = events[g]
      /\ events'[c] = IF out.res = "error" THEN {} ELSE events[c] \ {"IN"}
  BY <1>1, <1>2, <1>3
<1>9. /\ events'[c] \subseteq events[c]
      /\ events'[c] # {} => out.res # "error" /\ "OUT" \in events'[c]
  BY <1>1, <1>3, <1>8 DEF Flag
<1>10. UNCHANGED <<pipe, fault, phase, owner, id_set, caller, backlog>>
  BY DEF DispatchRead
<1>11. /\ mpx' = HandleResult(m1, c, out.res, "read")
       /\ conn' = Alive(mpx', cs)
       /\ cur' = (IF "OUT" \in events'[c] THEN c ELSE None)
  BY <1>2
<1> HIDE DEF m1, cs
<1>12. QED
  BY <1>1, <1>4, <1>5, <1>6, <1>7, <1>8, <1>9, <1>10, <1>11, ConnectionInv

LEMMA DispatchWriteInv ==
  ASSUME IInv, NEW c \in Conn, DispatchWrite(c)
  PROVE  IInv'
<1>1. c \in mpx.managers /\ c \in Handle /\ c # None
  BY EpollAssumption DEF DispatchWrite, Found, Handle, IInv, EventsMatch
<1>2. PICK res \in {"ok", "done", "error"} :
        /\ mpx' = HandleResult(mpx, c, res, "read")
        /\ conn' = Alive(mpx', [conn EXCEPT ![c].pending = @ /\ res = "ok"])
  BY DEF DispatchWrite, WriteResult
<1>3. /\ conn \in [Conn -> Connection] /\ events \in [Handle -> SUBSET Flag]
      /\ Sound(mpx)
  BY DEF IInv, TypeOK
<1> DEFINE cs == [conn EXCEPT ![c].pending = @ /\ res = "ok"]
<1>4. /\ cs \in [Conn -> Connection]
      /\ \A g \in Conn : cs[g].pending => conn[g].pending
  BY <1>3 DEF Connection
<1>5. cs[c].pending => "write" \in mpx.mask[c]
  BY <1>4 DEF IInv, PendingIsRegistered
<1>6. /\ events' = [events EXCEPT ![c] = {}] /\ cur' = None
      /\ UNCHANGED <<pipe, fault, phase, owner, id_set, caller, backlog>>
  BY DEF DispatchWrite
<1>7. /\ events' \in [Handle -> SUBSET Flag] /\ events'[c] = {}
      /\ \A g \in Handle \ {c} : events'[g] = events[g]
  BY <1>1, <1>3, <1>6
<1>8. conn' = Alive(mpx', cs)
  BY <1>2
<1>9. cur' = IF "OUT" \in events'[c] THEN c ELSE None
  BY <1>6, <1>7
<1> HIDE DEF cs
<1>10. QED
  BY <1>1, <1>2, <1>3, <1>4, <1>5, <1>6, <1>7, <1>8, <1>9, ConnectionInv

(* What shutdown() and add() have in common for the handlers that run when  *)
(* no connection is borrowed: managers may go, or one may come; the masks   *)
(* keep their write bit; and the batch only loses events.                   *)
LEMMA AcceptorOrPipeInv ==
  ASSUME IInv, mpx' \in Multiplexer, Sound(mpx'),
         NEW h \in {Pipe, Acceptor}, cur = None, cur' = None,
         events' = [events EXCEPT ![h] = {}],
         conn' = Alive(mpx', conn),
         \A g \in Conn : "write" \in mpx.mask[g] => "write" \in mpx'.mask[g],
         Acceptor \in mpx'.managers =>
             Acceptor \in mpx.managers /\ mpx.managers \ {h} \subseteq mpx'.managers,
         \A g \in mpx'.managers : g \in mpx.managers \/ Acceptor \in mpx.managers,
         ~id_set => mpx'.writer /\ ~mpx'.shutting_down,
         NoHalfClosedPipe',
         pipe' \in Nat,
         fault' \in {"none", "terminate", "sigpipe", "use_after_free"},
         backlog' \in Int,
         UNCHANGED <<phase, owner, id_set, caller>>
  PROVE  IInv'
<1>1. /\ conn \in [Conn -> Connection] /\ events \in [Handle -> SUBSET Flag]
      /\ h \in Handle
  BY DEF IInv, TypeOK, Handle
<1>2. /\ conn' \in [Conn -> Connection]
      /\ \A g \in Conn : conn'[g].pending => conn[g].pending
  BY <1>1, AliveFacts
<1>3. /\ events' \in [Handle -> SUBSET Flag] /\ events'[h] = {}
      /\ \A g \in Handle \ {h} : events'[g] = events[g]
  BY <1>1
<1>4. TypeOK'
  BY <1>2, <1>3, Zenon DEF IInv, TypeOK
<1>5. PendingIsRegistered'
  BY <1>2 DEF IInv, PendingIsRegistered
<1>6. EventsMatch'
  <2>1. ASSUME NEW g \in Handle, "OUT" \in events'[g], g \in mpx'.managers
        PROVE  "write" \in mpx'.mask[g]
    <3>1. g # h /\ "OUT" \in events[g]
      BY <1>3, <2>1
    <3>2. g \in Conn
      BY <3>1 DEF IInv, EventsMatch
    <3>3. g \in mpx.managers
      BY <2>1, <3>1 DEF IInv, EventsMatch
    <3>4. QED
      BY <3>1, <3>2, <3>3 DEF IInv, EventsMatch
  <2>2. ASSUME NEW g \in Handle, "OUT" \in events'[g] PROVE g \in Conn
    BY <1>3, <2>2 DEF IInv, EventsMatch
  <2>3. ASSUME Acceptor \in mpx'.managers, NEW g \in Handle, events'[g] # {}
        PROVE  g \in mpx'.managers
    BY <1>3, <2>3 DEF IInv, EventsMatch
  <2>4. QED
    BY <2>1, <2>2, <2>3 DEF EventsMatch
<1>7. ShutdownKnowsThread'
  BY DEF IInv, ShutdownKnowsThread
<1>8. QED
  BY <1>4, <1>5, <1>6, <1>7 DEF IInv

LEMMA DispatchPipeInv == IInv /\ DispatchPipe => IInv'
<1> SUFFICES ASSUME IInv, DispatchPipe PROVE IInv'
  OBVIOUS
<1>1. /\ Pipe \in mpx.managers /\ cur = None /\ Pipe \in Handle
      /\ Pipe # Acceptor /\ Sound(mpx)
  BY EpollAssumption DEF DispatchPipe, Found, Handle, IInv
<1> DEFINE m1 == IF id_set THEN Shutdown(mpx) ELSE mpx
<1>2. /\ Sound(m1) /\ Pipe \in m1.managers
      /\ m1.managers \subseteq mpx.managers
      /\ \A g \in Handle : m1.mask[g] \cup {"read"} = mpx.mask[g] \cup {"read"}
      /\ id_set => Acceptor \notin m1.managers
      /\ ~id_set => m1 = mpx
  <2>1. CASE id_set
    <3>1. m1 = Shutdown(mpx)
      BY <2>1
    <3> HIDE DEF m1
    <3>2. QED
      BY <1>1, <2>1, <3>1, ShutdownSound
  <2>2. CASE ~id_set
    BY <1>1, <2>2
  <2>3. QED
    BY <2>1, <2>2
<1>3. mpx' = HandleResult(m1, Pipe, "done", "read")
  BY DEF DispatchPipe
<1> HIDE DEF m1
<1>4. mpx' = Disable(m1, Pipe, {"read"}, TRUE)
  BY <1>3 DEF HandleResult
<1>5. /\ Sound(mpx')
      /\ mpx'.managers = IF m1.mask[Pipe] = {"read"} THEN m1.managers \ {Pipe}
                         ELSE m1.managers
      /\ mpx'.mask = [m1.mask EXCEPT ![Pipe] = @ \ {"read"}]
      /\ mpx'.writer = m1.writer /\ mpx'.shutting_down = m1.shutting_down
  <2>1. Pipe \in Handle /\ Sound(m1) /\ Pipe \in m1.managers
    BY <1>1, <1>2
  <2>2. QED
    BY <1>4, <2>1, DisableSound
<1>6. m1.mask[Pipe] = {"read"}
  BY <1>1, <1>2 DEF Sound
<1>7. mpx'.managers = m1.managers \ {Pipe}
  BY <1>5, <1>6
<1>8. NoHalfClosedPipe'
  BY <1>7 DEF NoHalfClosedPipe
<1>9. \A g \in Conn : "write" \in mpx.mask[g] => "write" \in mpx'.mask[g]
  <2>1. ASSUME NEW g \in Conn, "write" \in mpx.mask[g]
        PROVE  "write" \in mpx'.mask[g]
    <3>1. g \in Handle /\ g # Pipe
      BY EpollAssumption DEF Handle
    <3>2. "write" \in m1.mask[g]
      BY <1>2, <2>1, <3>1
    <3>3. mpx'.mask[g] = m1.mask[g]
      BY <1>2, <1>5, <3>1 DEF Sound, Multiplexer
    <3>4. QED
      BY <3>2, <3>3
  <2>2. QED
    BY <2>1
<1>10. /\ mpx' \in Multiplexer
       /\ Acceptor \in mpx'.managers =>
            Acceptor \in mpx.managers /\ mpx.managers \ {Pipe} \subseteq mpx'.managers
       /\ \A g \in mpx'.managers : g \in mpx.managers
  BY <1>2, <1>5, <1>7 DEF Sound
<1>11. ~id_set => mpx'.writer /\ ~mpx'.shutting_down
  BY <1>2, <1>5 DEF IInv, ShutdownKnowsThread
<1>12. /\ pipe' = 0 /\ conn' = Alive(mpx', conn)
       /\ events' = [events EXCEPT ![Pipe] = {}]
       /\ UNCHANGED <<cur, fault, phase, owner, id_set, caller, backlog>>
  BY DEF DispatchPipe
<1>13. /\ pipe' \in Nat /\ backlog' \in Int
       /\ fault' \in {"none", "terminate", "sigpipe", "use_after_free"}
  BY <1>12 DEF IInv, TypeOK
<1>14. QED
  BY <1>1, <1>5, <1>8, <1>9, <1>10, <1>11, <1>12, <1>13, AcceptorOrPipeInv

(* What accepting has in common, whatever becomes of the accepted socket. *)
LEMMA AcceptStepFacts ==
  ASSUME IInv, AcceptStep
  PROVE  /\ Sound(mpx) /\ cur = None /\ cur' = None
         /\ {Acceptor, Pipe} \subseteq Handle /\ Pipe # Acceptor
         /\ Acceptor \in mpx.managers /\ ~mpx.shutting_down
         /\ events' = [events EXCEPT ![Acceptor] = {}]
         /\ conn' = Alive(mpx', conn)
         /\ backlog' \in Int
         /\ UNCHANGED <<phase, owner, id_set, caller>>
<1>1. /\ Acceptor \in mpx.managers /\ cur = None /\ cur' = cur
      /\ events' = [events EXCEPT ![Acceptor] = {}]
      /\ conn' = Alive(mpx', conn) /\ backlog' = backlog - 1
      /\ UNCHANGED <<phase, owner, id_set, caller>>
  BY DEF AcceptStep, Found
<1>2. backlog' \in Int
  BY <1>1 DEF IInv, TypeOK
<1>3. Sound(mpx) /\ ~mpx.shutting_down
  BY <1>1 DEF IInv, Sound
<1>4. {Acceptor, Pipe} \subseteq Handle /\ Pipe # Acceptor
  BY EpollAssumption DEF Handle
<1>5. QED
  BY <1>1, <1>2, <1>3, <1>4

(* The multiplexer with the manager of an accepted socket. *)
LEMMA AddConn ==
  ASSUME Sound(mpx), ~mpx.shutting_down, NEW c \in Conn \ mpx.managers,
         NEW a, a = Add(mpx, c, {"read"})
  PROVE  /\ Sound(a) /\ a \in Multiplexer
         /\ a.managers = mpx.managers \cup {c}
         /\ \A g \in Conn : "write" \in mpx.mask[g] => "write" \in a.mask[g]
         /\ a.running = mpx.running /\ a.writer = mpx.writer
         /\ ~a.shutting_down
<1>1. c \in Handle /\ c \notin mpx.managers
  BY DEF Handle
<1>2. /\ Sound(a)
      /\ a.managers = mpx.managers \cup {c}
      /\ a.mask = [mpx.mask EXCEPT ![c] = {"read"}]
      /\ a.running = mpx.running /\ a.writer = mpx.writer
      /\ a.shutting_down = mpx.shutting_down
  BY <1>1, AddSound
<1>3. mpx.mask \in [Handle -> SUBSET Operation] /\ mpx.mask[c] = {}
  BY <1>1 DEF Sound, Multiplexer
<1>4. QED
  BY <1>1, <1>2, <1>3 DEF Sound, Handle

LEMMA DispatchAcceptInv == IInv /\ DispatchAccept => IInv'
<1> SUFFICES ASSUME IInv, DispatchAccept PROVE IInv'
  OBVIOUS
<1>1. AcceptStep /\ UNCHANGED <<pipe, fault>>
  BY DEF DispatchAccept
<1>2. PICK c \in Conn \ mpx.managers : mpx' = Add(mpx, c, {"read"})
  BY DEF DispatchAccept
<1>3. /\ Sound(mpx') /\ mpx' \in Multiplexer
      /\ mpx'.managers = mpx.managers \cup {c}
      /\ \A g \in Conn : "write" \in mpx.mask[g] => "write" \in mpx'.mask[g]
      /\ mpx'.running = mpx.running /\ mpx'.writer = mpx.writer
      /\ ~mpx'.shutting_down
  BY <1>1, <1>2, AcceptStepFacts, AddConn
<1>4. NoHalfClosedPipe'
  BY <1>3, EpollAssumption DEF NoHalfClosedPipe, IInv
<1>5. ~id_set => mpx'.writer
  BY <1>3 DEF IInv, ShutdownKnowsThread
<1>6. /\ pipe' \in Nat
      /\ fault' \in {"none", "terminate", "sigpipe", "use_after_free"}
  BY <1>1 DEF IInv, TypeOK
<1>7. QED
  BY <1>1, <1>3, <1>4, <1>5, <1>6, AcceptStepFacts, AcceptorOrPipeInv

LEMMA AcceptAbortedInv == IInv /\ AcceptAborted => IInv'
<1> SUFFICES ASSUME IInv, AcceptAborted PROVE IInv'
  OBVIOUS
<1>1. AcceptStep /\ UNCHANGED <<mpx, pipe, fault>>
  BY DEF AcceptAborted
<1>2. /\ NoHalfClosedPipe' /\ mpx' \in Multiplexer /\ Sound(mpx')
      /\ ~id_set => mpx'.writer /\ ~mpx'.shutting_down
  BY <1>1 DEF IInv, NoHalfClosedPipe, ShutdownKnowsThread, Sound
<1>3. /\ pipe' \in Nat
      /\ fault' \in {"none", "terminate", "sigpipe", "use_after_free"}
  BY <1>1 DEF IInv, TypeOK
<1>4. QED
  BY <1>1, <1>2, <1>3, AcceptStepFacts, AcceptorOrPipeInv

LEMMA AcceptInitFailsInv == IInv /\ AcceptInitFails => IInv'
<1> SUFFICES ASSUME IInv, AcceptInitFails PROVE IInv'
  OBVIOUS
<1>1. AcceptStep
  BY DEF AcceptInitFails
<1>2. PICK c \in Conn \ mpx.managers : HandleError(Add(mpx, c, {"read"}))
  BY DEF AcceptInitFails
<1> DEFINE a == Add(mpx, c, {"read"})
<1>3. HandleError(a)
  BY <1>2
<1>4. /\ Sound(a) /\ a \in Multiplexer
      /\ a.managers = mpx.managers \cup {c}
      /\ \A g \in Conn : "write" \in mpx.mask[g] => "write" \in a.mask[g]
      /\ a.running = mpx.running /\ a.writer = mpx.writer
      /\ ~a.shutting_down
  BY <1>1, AcceptStepFacts, AddConn
<1> HIDE DEF a
<1>5. CASE id_set
  <2>1. mpx' = Shutdown(a) /\ UNCHANGED <<pipe, fault>>
    BY <1>3, <1>5 DEF HandleError
  <2>2. /\ Sound(mpx') /\ Acceptor \notin mpx'.managers
        /\ mpx'.managers \subseteq a.managers
        /\ Pipe \in a.managers <=> Pipe \in mpx'.managers
        /\ \A h \in Handle : mpx'.mask[h] \cup {"read"} = a.mask[h] \cup {"read"}
        /\ {Pipe, Acceptor} \subseteq a.managers => ~mpx'.running
    BY <1>4, <2>1, ShutdownSound
  <2>3. NoHalfClosedPipe'
    BY <1>1, <1>4, <2>2, AcceptStepFacts DEF NoHalfClosedPipe
  <2>4. \A g \in Conn : "write" \in mpx.mask[g] => "write" \in mpx'.mask[g]
    BY <1>4, <2>2 DEF Handle
  <2>5. mpx' \in Multiplexer
    BY <2>2 DEF Sound
  <2>6. /\ pipe' \in Nat
        /\ fault' \in {"none", "terminate", "sigpipe", "use_after_free"}
    BY <2>1 DEF IInv, TypeOK
  <2>7. QED
    BY <1>1, <1>5, <2>2, <2>3, <2>4, <2>5, <2>6, AcceptStepFacts, AcceptorOrPipeInv
<1>6. CASE ~id_set
  <2>1. mpx' = a /\ (UNCHANGED <<pipe, fault>> \/ WriteToPipe(a))
    BY <1>3, <1>6 DEF HandleError
  <2>2. /\ pipe' \in Nat
        /\ fault' \in {"none", "terminate", "sigpipe", "use_after_free"}
    BY <2>1, WriteToPipeType DEF IInv, TypeOK
  <2>3. NoHalfClosedPipe'
    BY <1>4, <2>1, EpollAssumption DEF NoHalfClosedPipe, IInv
  <2>4. mpx'.writer
    BY <1>4, <1>6, <2>1 DEF IInv, ShutdownKnowsThread
  <2>5. QED
    BY <1>1, <1>4, <2>1, <2>2, <2>3, <2>4, AcceptStepFacts, AcceptorOrPipeInv
<1>7. QED
  BY <1>5, <1>6

LEMMA AcceptFailsInv == IInv /\ AcceptFails => IInv'
<1> SUFFICES ASSUME IInv, AcceptFails PROVE IInv'
  OBVIOUS
<1>1. AcceptStep
  BY DEF AcceptFails
<1>2. CASE id_set
  <2>1. mpx' = Shutdown(mpx) /\ pipe' = pipe /\ fault' = "use_after_free"
    BY <1>2 DEF AcceptFails
  <2>2. /\ Sound(mpx') /\ Acceptor \notin mpx'.managers
        /\ mpx'.managers \subseteq mpx.managers
        /\ Pipe \in mpx.managers <=> Pipe \in mpx'.managers
        /\ \A h \in Handle : mpx'.mask[h] \cup {"read"} = mpx.mask[h] \cup {"read"}
        /\ {Pipe, Acceptor} \subseteq mpx.managers => ~mpx'.running
    BY <1>1, <2>1, AcceptStepFacts, ShutdownSound
  <2>3. NoHalfClosedPipe'
    BY <1>1, <2>2, AcceptStepFacts DEF NoHalfClosedPipe
  <2>4. \A g \in Conn : "write" \in mpx.mask[g] => "write" \in mpx'.mask[g]
    BY <2>2 DEF Handle
  <2>5. mpx' \in Multiplexer
    BY <2>2 DEF Sound
  <2>6. /\ pipe' \in Nat
        /\ fault' \in {"none", "terminate", "sigpipe", "use_after_free"}
    BY <2>1 DEF IInv, TypeOK
  <2>7. QED
    BY <1>1, <1>2, <2>2, <2>3, <2>4, <2>5, <2>6, AcceptStepFacts, AcceptorOrPipeInv
<1>3. CASE ~id_set
  <2>1. mpx' = Del(mpx, Acceptor) /\ WriteToPipe(mpx)
    BY <1>3 DEF AcceptFails
  <2>2. /\ Sound(mpx')
        /\ mpx'.managers = mpx.managers \ {Acceptor}
        /\ mpx'.mask = [mpx.mask EXCEPT ![Acceptor] = {}]
        /\ mpx'.running => mpx.running
        /\ mpx'.writer = mpx.writer /\ mpx'.shutting_down = mpx.shutting_down
    <3>1. Sound(mpx) /\ Acceptor \in Handle /\ Acceptor \in mpx.managers
      BY <1>1, AcceptStepFacts
    <3>2. QED
      BY <2>1, <3>1, DelSound, Zenon
  <2>3. /\ pipe' \in Nat
        /\ fault' \in {"none", "terminate", "sigpipe", "use_after_free"}
    BY <2>1, WriteToPipeType DEF IInv
  <2>4. NoHalfClosedPipe'
    BY <2>2 DEF NoHalfClosedPipe, IInv
  <2>5. \A g \in Conn : "write" \in mpx.mask[g] => "write" \in mpx'.mask[g]
    BY <2>2, EpollAssumption DEF Sound, Multiplexer, Handle, IInv
  <2>6. mpx' \in Multiplexer /\ mpx'.writer /\ ~mpx'.shutting_down
    BY <1>1, <1>3, <2>2, AcceptStepFacts DEF Sound, IInv, ShutdownKnowsThread
  <2>7. QED
    BY <1>1, <2>2, <2>3, <2>4, <2>5, <2>6, AcceptStepFacts, AcceptorOrPipeInv
<1>4. QED
  BY <1>2, <1>3

LEMMA NextInv == IInv /\ [Next]_vars => IInv'
<1> SUFFICES ASSUME IInv, [Next]_vars PROVE IInv'
  OBVIOUS
<1>1. CASE UNCHANGED vars
  BY <1>1
  DEF vars, IInv, TypeOK, PendingIsRegistered, EventsMatch, ShutdownKnowsThread,
      NoHalfClosedPipe
<1>2. CASE Dispatch
  BY <1>2, SkipEventInv, DispatchReadInv, DispatchWriteInv, DispatchPipeInv,
     DispatchAcceptInv, AcceptAbortedInv, AcceptInitFailsInv, AcceptFailsInv
  DEF Dispatch
<1>3. CASE Loop
  BY <1>2, <1>3, PollInv, LoopExitInv DEF Loop
<1>4. CASE Ended
  BY <1>1, <1>4 DEF Ended
<1>5. QED
  BY <1>1, <1>3, <1>4, PeersInv, OwnerInv, PollErrorInv, CallerInv DEF Next

LEMMA Invariance == Spec => []IInv
<1>1. QED
  BY InitInv, NextInv, PTL DEF Spec

-----------------------------------------------------------------------------
(* The theorems.                                                            *)

(* In every reachable state the fields of the multiplexer, the kernel's set *)
(* and the threads have their types, whatever fails in the loop.            *)
THEOREM TypeCorrect == Spec => []TypeOK
<1>1. IInv => TypeOK
  BY DEF IInv
<1>2. QED
  BY <1>1, Invariance, PTL

(* add(), enable(), disable(), del() and shutdown() keep managers_, the     *)
(* masks and the epoll set in step, and no epoll_ctl ever fails.            *)
THEOREM PollsetCorrect == Spec => []PollsetMatches
<1>1. IInv => PollsetMatches
  BY DEF IInv, Sound, PollsetMatches
<1>2. QED
  BY <1>1, Invariance, PTL

(* Queued output keeps its connection registered for writing, through       *)
(* every result of a handler and through shutdown().                        *)
THEOREM OutputRegistered == Spec => []PendingIsRegistered
<1>1. IInv => PendingIsRegistered
  BY DEF IInv
<1>2. QED
  BY <1>1, Invariance, PTL

(* disable() and shutdown() leave no manager behind that epoll would never  *)
(* report.                                                                  *)
THEOREM NoManagerIdles == Spec => []NoIdleManager
<1>1. IInv => NoIdleManager
  BY DEF IInv, Sound, NoIdleManager
<1>2. QED
  BY <1>1, Invariance, PTL

(* The reference handle_events() keeps across the read handler is never to  *)
(* a manager that this handler, or its result, destroyed.                   *)
THEOREM BorrowIsSafe == Spec => []BorrowedManagerLives
<1>1. IInv => BorrowedManagerLives
  BY DEF IInv, EventsMatch, BorrowedManagerLives
<1>2. QED
  BY <1>1, Invariance, PTL

(* A loop that goes on after shutdown() closed the writer of the pipe has   *)
(* closed the reader as well.                                               *)
THEOREM PipeNotHalfClosed == Spec => []NoHalfClosedPipe
<1>1. IInv => NoHalfClosedPipe
  BY DEF IInv
<1>2. QED
  BY <1>1, Invariance, PTL

(* Managers only come from the acceptor, one at a time. *)
LEMMA OnlyAcceptorAdds ==
  ASSUME IInv, [Next]_vars
  PROVE  \/ mpx'.managers \subseteq mpx.managers
         \/ AcceptStep /\ \E c \in Conn : mpx'.managers \subseteq mpx.managers \cup {c}
<1>1. CASE UNCHANGED vars \/ Ended
  BY <1>1 DEF vars, Ended
<1>2. CASE Peers
  BY <1>2 DEF Peers, PeerConnect, PeerSend, PeerClose, loopVars
<1>3. CASE Start \/ PollError
  <2>1. mpx \in Multiplexer
    BY DEF IInv, TypeOK
  <2>2. mpx'.managers = mpx.managers
    BY <1>3, <2>1 DEF Start, PollError, Multiplexer
  <2>3. QED
    BY <2>2
<1>4. CASE AssignThreadId \/ Join \/ Poll \/ LoopExit
  BY <1>4 DEF AssignThreadId, Join, Poll, LoopExit, loopVars
<1>5. CASE \E t \in Callers : Caller(t)
  BY <1>5 DEF Caller, CallerCheck, CallerWrite, loopVars
<1>6. CASE \E h \in Handle : SkipEvent(h)
  BY <1>6 DEF SkipEvent
<1>7. ASSUME NEW c \in Conn, DispatchRead(c) \/ DispatchWrite(c)
      PROVE  mpx'.managers \subseteq mpx.managers
  <2>1. /\ c \in mpx.managers /\ c \in Handle /\ Sound(mpx)
    BY <1>7, EpollAssumption
    DEF DispatchRead, DispatchWrite, Found, Handle, IInv, EventsMatch
  <2>2. ASSUME NEW m, NEW res \in {"ok", "done", "error"},
               m = mpx \/ m = Enable(mpx, c, "write"),
               mpx' = HandleResult(m, c, res, "read")
        PROVE  mpx'.managers \subseteq mpx.managers
    <3>1. Sound(m) /\ m.managers = mpx.managers
      <4>1. CASE m = mpx
        BY <2>1, <4>1
      <4>2. CASE m = Enable(mpx, c, "write")
        BY <2>1, <4>2, EnableSound, Zenon
      <4>3. QED
        BY <2>2, <4>1, <4>2
    <3>2. c \in m.managers
      BY <2>1, <3>1
    <3>3. mpx'.managers \subseteq m.managers
      BY <2>1, <2>2, <3>1, <3>2, ResultSound
    <3>4. QED
      BY <3>1, <3>3
  <2>3. CASE DispatchRead(c)
    <3>1. PICK out \in ReadOutcome(c), answers \in BOOLEAN :
            mpx' = HandleResult(IF answers THEN Enable(mpx, c, "write")
                                ELSE mpx, c, out.res, "read")
      BY <2>3 DEF DispatchRead, Answer
    <3>2. out.res \in {"ok", "done", "error"}
      BY DEF ReadOutcome
    <3> DEFINE m == IF answers THEN Enable(mpx, c, "write") ELSE mpx
    <3>3. m = mpx \/ m = Enable(mpx, c, "write")
      OBVIOUS
    <3>4. mpx' = HandleResult(m, c, out.res, "read")
      BY <3>1
    <3> HIDE DEF m
    <3>5. QED
      BY <2>2, <3>2, <3>3, <3>4
  <2>4. CASE DispatchWrite(c)
    <3>1. PICK res \in {"ok", "done", "error"} :
            mpx' = HandleResult(mpx, c, res, "read")
      BY <2>4 DEF DispatchWrite, WriteResult
    <3>2. QED
      BY <2>2, <3>1
  <2>5. QED
    BY <1>7, <2>3, <2>4
<1>8. CASE DispatchPipe
  <2>1. Sound(mpx) /\ Pipe \in mpx.managers /\ Pipe \in Handle
    BY <1>8 DEF IInv, DispatchPipe, Found, Handle
  <2>2. PICK m : /\ m = mpx \/ m = Shutdown(mpx)
                 /\ mpx' = HandleResult(m, Pipe, "done", "read")
    BY <1>8 DEF DispatchPipe
  <2>3. /\ Sound(m) /\ m.managers \subseteq mpx.managers
        /\ Pipe \in m.managers
    <3>1. CASE m = mpx
      BY <2>1, <3>1
    <3>2. CASE m = Shutdown(mpx)
      BY <2>1, <3>2, ShutdownSound
    <3>3. QED
      BY <2>2, <3>1, <3>2
  <2>4. mpx'.managers \subseteq m.managers
    BY <2>1, <2>2, <2>3, ResultSound
  <2>5. QED
    BY <2>3, <2>4
<1>9. CASE DispatchAccept \/ AcceptInitFails
  <2>1. AcceptStep
    BY <1>9 DEF DispatchAccept, AcceptInitFails
  <2>2. PICK c \in Conn \ mpx.managers :
          LET a == Add(mpx, c, {"read"})
          IN  mpx' = a \/ mpx' = Shutdown(a)
    BY <1>9 DEF DispatchAccept, AcceptInitFails, HandleError
  <2> DEFINE a == Add(mpx, c, {"read"})
  <2>3. Sound(a) /\ a.managers = mpx.managers \cup {c}
    BY <2>1, AcceptStepFacts, AddConn
  <2>4. mpx' = a \/ mpx' = Shutdown(a)
    BY <2>2
  <2> HIDE DEF a
  <2>5. mpx'.managers \subseteq a.managers
    BY <2>3, <2>4, ShutdownSound
  <2>6. QED
    BY <2>1, <2>3, <2>5
<1>10. CASE AcceptAborted
  BY <1>10 DEF AcceptAborted
<1>11. CASE AcceptFails
  <2>1. Sound(mpx) /\ Acceptor \in mpx.managers /\ Acceptor \in Handle
    BY <1>11, AcceptStepFacts DEF AcceptFails
  <2>2. CASE mpx' = Shutdown(mpx)
    BY <2>1, <2>2, ShutdownSound
  <2>3. CASE mpx' = Del(mpx, Acceptor)
    <3>1. /\ Sound(mpx')
          /\ mpx'.managers = mpx.managers \ {Acceptor}
          /\ mpx'.mask = [mpx.mask EXCEPT ![Acceptor] = {}]
          /\ mpx'.running => mpx.running
          /\ mpx'.writer = mpx.writer /\ mpx'.shutting_down = mpx.shutting_down
      BY <2>1, <2>3, DelSound, Zenon
    <3>2. QED
      BY <3>1
  <2>4. QED
    BY <1>11, <2>2, <2>3 DEF AcceptFails
<1>12. QED
  BY <1>1, <1>2, <1>3, <1>4, <1>5, <1>6, <1>7, <1>8, <1>9, <1>10, <1>11
  DEF Next, Owner, Loop, Dispatch

(* Once shutdown() has run, no path of the loop adds a manager: accepting   *)
(* takes the acceptor, and shutdown() removed it.                           *)
THEOREM NoneAcceptedAfterShutdown == Spec => NoAcceptAfterShutdown
<1>1. IInv /\ [Next]_vars
        => [mpx.shutting_down => mpx'.managers \subseteq mpx.managers]_vars
  BY OnlyAcceptorAdds, AcceptStepFacts
<1>2. QED
  BY <1>1, Invariance, PTL DEF Spec, NoAcceptAfterShutdown

(* accept() can return the descriptor of a connection that the same batch   *)
(* of events closed, but not one that has an event left in the batch.       *)
THEOREM NoneDeliveredStale == Spec => NoStaleDelivery
<1>1. IInv /\ [Next]_vars
        => [\A h \in mpx'.managers \ mpx.managers : events'[h] = {}]_vars
  <2> SUFFICES ASSUME IInv, [Next]_vars,
                      NEW h \in mpx'.managers, h \notin mpx.managers
               PROVE  events'[h] = {}
    OBVIOUS
  <2>1. AcceptStep /\ h \in Conn
    BY OnlyAcceptorAdds
  <2>2. h \in Handle /\ h # Acceptor
    BY <2>1, EpollAssumption DEF Handle
  <2>3. events[h] = {}
    BY <2>1, <2>2, AcceptStepFacts DEF IInv, EventsMatch
  <2>4. QED
    BY <2>1, <2>2, <2>3, AcceptStepFacts DEF IInv, TypeOK
<1>2. QED
  BY <1>1, Invariance, PTL DEF Spec, NoStaleDelivery

-----------------------------------------------------------------------------
(* As long as the only request to shut down has not been made, the pipe is  *)
(* open at both ends and empty, and no event of the batch is about it.      *)
Undisturbed ==
    /\ ~mpx.shutting_down /\ mpx.writer /\ Pipe \in mpx.managers
    /\ pipe = 0 /\ "IN" \notin events[Pipe]

Unasked == \A t \in Callers : caller[t] # "done"

SafeInv == IInv /\ OrderlyShutdownIsSafe /\ (Unasked => Undisturbed)

LEMMA SafeInit == Init => SafeInv
<1> SUFFICES ASSUME Init PROVE SafeInv
  OBVIOUS
<1>1. IInv /\ Pipe \in mpx.managers /\ mpx.writer /\ ~mpx.shutting_down
  BY InitInv
<1>2. events = [h \in Handle |-> {}] /\ pipe = 0 /\ fault = "none"
  BY DEF Init
<1>3. Pipe \in Handle
  BY DEF Handle
<1>4. QED
  BY <1>1, <1>2, <1>3 DEF SafeInv, Undisturbed, OrderlyShutdownIsSafe

(* The steps that leave the requests, the pipe and its flags alone.         *)
LEMMA SafeKept ==
  ASSUME SafeInv, IInv', UNCHANGED <<pipe, fault, caller>>,
         mpx'.writer = mpx.writer, mpx'.shutting_down = mpx.shutting_down,
         Pipe \in mpx.managers => Pipe \in mpx'.managers,
         pipe = 0 => ("IN" \in events'[Pipe] => "IN" \in events[Pipe])
  PROVE  SafeInv'
<1>1. Unasked' <=> Unasked
  BY DEF Unasked
<1>2. QED
  BY <1>1 DEF SafeInv, Undisturbed, OrderlyShutdownIsSafe

LEMMA SafePoll ==
  ASSUME IInv, Poll, pipe = 0
  PROVE  "IN" \notin events'[Pipe]
<1>1. PICK writable \in SUBSET {h \in mpx.registered : "OUT" \in mpx.interest[h]} :
        LET readable == {h \in mpx.registered :
                           "IN" \in mpx.interest[h] /\ Readable(h)}
            ready    == readable \cup writable
        IN  \E batch \in SUBSET ready :
              events' = [h \in Handle |->
                           {f \in Flag : /\ h \in batch
                                         /\ f = "IN"  => h \in readable
                                         /\ f = "OUT" => h \in writable}]
  BY DEF Poll
<1>2. ~Readable(Pipe) /\ Pipe \in Handle
  BY EpollAssumption DEF Readable, Handle
<1>3. QED
  BY <1>1, <1>2

(* The handlers of a connection leave the pipe alone.                       *)
LEMMA SafeConnection ==
  ASSUME SafeInv, IInv', NEW c \in Conn, c \in mpx.managers, NEW m,
         NEW res \in {"ok", "done", "error"},
         m = mpx \/ m = Enable(mpx, c, "write"),
         mpx' = HandleResult(m, c, res, "read"),
         events'[Pipe] = events[Pipe], UNCHANGED <<pipe, fault, caller>>
  PROVE  SafeInv'
<1>1. c \in Handle /\ Sound(mpx) /\ c # Pipe
  BY EpollAssumption DEF Handle, SafeInv, IInv
<1>2. /\ Sound(m) /\ m.managers = mpx.managers
      /\ m.writer = mpx.writer /\ m.shutting_down = mpx.shutting_down
  <2>1. CASE m = mpx
    BY <1>1, <2>1
  <2>2. CASE m = Enable(mpx, c, "write")
    BY <1>1, <2>2, EnableSound, Zenon
  <2>3. QED
    BY <2>1, <2>2
<1>3. c \in m.managers
  BY <1>2
<1>4. /\ m.managers \ {c} \subseteq mpx'.managers
      /\ mpx'.writer = m.writer /\ mpx'.shutting_down = m.shutting_down
  BY <1>1, <1>2, <1>3, ResultSound
<1>5. /\ Pipe \in mpx.managers => Pipe \in mpx'.managers
      /\ mpx'.writer = mpx.writer /\ mpx'.shutting_down = mpx.shutting_down
  BY <1>1, <1>2, <1>4
<1>6. QED
  BY <1>5, SafeKept

LEMMA SafeStep ==
  ASSUME \A s, t \in Callers : s = t, Failures \subseteq {"poll"},
         SafeInv, [Next]_vars
  PROVE  SafeInv'
<1>1. IInv /\ IInv'
  BY NextInv DEF SafeInv
<1>2. /\ mpx \in Multiplexer /\ Sound(mpx)
      /\ events \in [Handle -> SUBSET Flag]
      /\ caller \in [Callers -> {"idle", "checked", "done"}]
      /\ {Pipe, Acceptor} \subseteq Handle /\ Pipe # Acceptor /\ Pipe \notin Conn
  BY <1>1, EpollAssumption DEF IInv, TypeOK, Handle
<1>3. CASE UNCHANGED vars \/ Ended
  <2>1. UNCHANGED <<mpx, events, pipe, fault, caller>>
    BY <1>3 DEF vars, Ended
  <2>2. QED
    BY <1>1, <2>1, SafeKept
<1>4. CASE Peers \/ AssignThreadId \/ Join \/ LoopExit
  <2>1. UNCHANGED <<mpx, events, pipe, fault, caller>>
    BY <1>4 DEF Peers, PeerConnect, PeerSend, PeerClose, AssignThreadId, Join,
                LoopExit, loopVars
  <2>2. QED
    BY <1>1, <2>1, SafeKept
<1>5. CASE Start \/ PollError
  <2>1. /\ mpx'.managers = mpx.managers /\ mpx'.writer = mpx.writer
        /\ mpx'.shutting_down = mpx.shutting_down
        /\ UNCHANGED <<events, pipe, fault, caller>>
    BY <1>2, <1>5 DEF Start, PollError, Multiplexer
  <2>2. QED
    BY <1>1, <2>1, SafeKept
<1>6. ASSUME NEW t \in Callers, CallerCheck(t)
      PROVE  SafeInv'
  <2>1. /\ UNCHANGED <<mpx, events, pipe, fault>> /\ caller[t] = "idle"
        /\ caller' = [caller EXCEPT ![t] = IF mpx.shutting_down THEN "done"
                                           ELSE "checked"]
    BY <1>6 DEF CallerCheck, loopVars
  <2>2. Unasked' => Unasked
    BY <1>2, <2>1 DEF Unasked
  <2>3. QED
    BY <1>1, <2>1, <2>2 DEF SafeInv, Undisturbed, OrderlyShutdownIsSafe
<1>7. ASSUME NEW t \in Callers, CallerWrite(t)
      PROVE  SafeInv'
  <2>1. /\ caller[t] = "checked" /\ WriteToPipe(mpx)
        /\ caller' = [caller EXCEPT ![t] = "done"]
    BY <1>7 DEF CallerWrite
  <2>2. Undisturbed
    BY <2>1 DEF SafeInv, Unasked
  <2>3. UNCHANGED fault
    BY <2>1, <2>2 DEF WriteToPipe, Undisturbed
  <2>4. ~Unasked'
    BY <1>2, <2>1 DEF Unasked
  <2>5. QED
    BY <1>1, <2>3, <2>4 DEF SafeInv, OrderlyShutdownIsSafe
<1>8. CASE Poll
  <2>1. UNCHANGED <<mpx, pipe, fault, caller>>
    BY <1>8 DEF Poll
  <2>2. QED
    BY <1>1, <1>8, <2>1, SafePoll, SafeKept
<1>9. ASSUME NEW h \in Handle, SkipEvent(h)
      PROVE  SafeInv'
  <2>1. /\ UNCHANGED <<mpx, pipe, fault, caller>>
        /\ events' = [events EXCEPT ![h] = {}]
    BY <1>9 DEF SkipEvent
  <2>2. events'[Pipe] \subseteq events[Pipe]
    BY <1>2, <2>1
  <2>3. QED
    BY <1>1, <2>1, <2>2, SafeKept
<1>10. ASSUME NEW c \in Conn, DispatchRead(c)
       PROVE  SafeInv'
  <2>1. c \in mpx.managers
    BY <1>10 DEF DispatchRead, Found
  <2>2. PICK out \in ReadOutcome(c), answers \in BOOLEAN :
          /\ mpx' = HandleResult(IF answers THEN Answer(mpx, c) ELSE mpx,
                                 c, out.res, "read")
          /\ events' = [events EXCEPT ![c] = IF out.res = "error" THEN {}
                                             ELSE @ \ {"IN"}]
    BY <1>10 DEF DispatchRead
  <2>3. out.res \in {"ok", "done", "error"}
    BY DEF ReadOutcome
  <2>4. PICK m : /\ m = mpx \/ m = Enable(mpx, c, "write")
                 /\ mpx' = HandleResult(m, c, out.res, "read")
    BY <2>2 DEF Answer
  <2>5. events'[Pipe] = events[Pipe]
    BY <1>2, <2>2
  <2>6. UNCHANGED <<pipe, fault, caller>>
    BY <1>10 DEF DispatchRead
  <2>7. QED
    BY <1>1, <2>1, <2>3, <2>4, <2>5, <2>6, SafeConnection
<1>11. ASSUME NEW c \in Conn, DispatchWrite(c)
       PROVE  SafeInv'
  <2>1. c \in mpx.managers
    BY <1>1, <1>11, EpollAssumption DEF DispatchWrite, Found, IInv, EventsMatch
  <2>2. PICK res \in {"ok", "done", "error"} :
          mpx' = HandleResult(mpx, c, res, "read")
    BY <1>11 DEF DispatchWrite, WriteResult
  <2>3. events' = [events EXCEPT ![c] = {}] /\ UNCHANGED <<pipe, fault, caller>>
    BY <1>11 DEF DispatchWrite
  <2>4. events'[Pipe] = events[Pipe]
    BY <1>2, <2>3
  <2>5. QED
    BY <1>1, <2>1, <2>2, <2>3, <2>4, SafeConnection
<1>12. CASE DispatchPipe
  <2>1. ~Undisturbed /\ UNCHANGED <<fault, caller>>
    BY <1>12 DEF DispatchPipe, Found, Undisturbed
  <2>2. ~Unasked'
    BY <2>1 DEF SafeInv, Unasked
  <2>3. QED
    BY <1>1, <2>1, <2>2 DEF SafeInv, OrderlyShutdownIsSafe
<1>13. CASE DispatchAccept \/ AcceptAborted
  <2>1. /\ AcceptStep /\ UNCHANGED <<pipe, fault>>
        /\ mpx' = mpx \/ \E c \in Conn \ mpx.managers : mpx' = Add(mpx, c, {"read"})
    BY <1>13 DEF DispatchAccept, AcceptAborted
  <2>2. /\ events' = [events EXCEPT ![Acceptor] = {}] /\ UNCHANGED caller
        /\ ~mpx.shutting_down
    BY <1>1, <2>1, AcceptStepFacts
  <2>3. events'[Pipe] = events[Pipe]
    BY <1>2, <2>2
  <2>4. /\ mpx.managers \subseteq mpx'.managers
        /\ mpx'.writer = mpx.writer /\ ~mpx'.shutting_down
    <3>1. CASE mpx' = mpx
      BY <2>2, <3>1
    <3>2. ASSUME NEW c \in Conn \ mpx.managers, mpx' = Add(mpx, c, {"read"})
          PROVE  /\ mpx.managers \subseteq mpx'.managers
                 /\ mpx'.writer = mpx.writer /\ ~mpx'.shutting_down
      <4>1. mpx'.managers = mpx.managers \cup {c}
            /\ mpx'.writer = mpx.writer /\ ~mpx'.shutting_down
        BY <1>2, <2>2, <3>2, AddConn
      <4>2. QED
        BY <4>1
    <3>3. QED
      BY <2>1, <3>1, <3>2
  <2>5. mpx'.shutting_down = mpx.shutting_down
    BY <1>1, <1>2, <2>2, <2>4 DEF IInv, Sound, Multiplexer
  <2>6. QED
    BY <1>1, <2>1, <2>2, <2>3, <2>4, <2>5, SafeKept
<1>14. CASE AcceptInitFails \/ AcceptFails
  BY <1>14 DEF AcceptInitFails, AcceptFails
<1>15. QED
  BY <1>3, <1>4, <1>5, <1>6, <1>7, <1>8, <1>9, <1>10, <1>11, <1>12, <1>13, <1>14
  DEF Next, Owner, Loop, Dispatch, Caller

(* With one thread that asks for the shutdown, whenever it does, and no     *)
(* failure but that of epoll_wait(), write_to_pipe() neither terminates the *)
(* process nor raises SIGPIPE, and no destroyed manager is used.            *)
THEOREM OneRequestIsSafe ==
  ASSUME \A s, t \in Callers : s = t, Failures \subseteq {"poll"}
  PROVE  Spec => []OrderlyShutdownIsSafe
<1>1. SafeInv /\ [Next]_vars => SafeInv'
  BY SafeStep
<1>2. SafeInv => OrderlyShutdownIsSafe
  BY DEF SafeInv
<1>3. QED
  BY <1>1, <1>2, SafeInit, PTL DEF Spec
=============================================================================
