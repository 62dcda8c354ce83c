---------------------- MODULE RestoreTransaction_proofs ----------------------
(***************************************************************************)
(* What holds of the restore transaction (RestoreTransaction), whatever    *)
(* may fail around it, proved from the inductive invariant IInv of that    *)
(* module: a number of moves made says where every directory is.           *)
(***************************************************************************)
EXTENDS RestoreTransaction, TLAPS

-----------------------------------------------------------------------------
(* Where things are. *)

\* A place that one directory has is found to be that directory's.
LEMMA NodeAtIs ==
    ASSUME NEW place, NEW n \in Nodes, at[n] = place,
           \A m \in Nodes \ {n} : at[m] # place
    PROVE  NodeAt(place) = n
BY DEF NodeAt

\* No directory is found in a place where there is none.
LEMMA NodeAtNone ==
    ASSUME NEW place, \A m \in Nodes : at[m] # place
    PROVE  NodeAt(place) = "none"
<1>1. ~ \E m \in Nodes : at[m] = place
  BY Zenon
<1>2. QED
  BY <1>1 DEF NodeAt

\* The places of all directories after i moves.
LEMMA Places ==
    ASSUME NEW i \in 0..16, NEW gone, LaidOut(i, gone)
    PROVE  /\ at \in [Nodes -> {at[n] : n \in Nodes}]
           /\ \A n \in gone \intersect Nodes : at[n] = Nowhere
           /\ "newAgentBox" \notin gone => at["newAgentBox"] =
                IF i = 0 THEN Nowhere ELSE IF i = 16 THEN RejectedAgent ELSE <<"lib", "new">>
           /\ "newAgent" \notin gone => at["newAgent"] =
                IF i < 2 THEN Nowhere ELSE IF i = 9 THEN ActiveAgent ELSE NewAgent
           /\ "rollbackHomeBox" \notin gone => at["rollbackHomeBox"] =
                IF i \in 3..14 THEN <<"home", "rollback">> ELSE Nowhere
           /\ "oldHome" \notin gone => at["oldHome"] =
                IF i \in 4..13 THEN RollbackHome ELSE ActiveHome
           /\ "newHome" \notin gone => at["newHome"] =
                IF i \in 5..12 THEN ActiveHome ELSE <<"staging", "home">>
           /\ "staging" \notin gone => at["staging"] =
                IF i \in 6..11 THEN <<"newHome", "staging">> ELSE <<"oldHome", "staging">>
           /\ "rollbackAgentBox" \notin gone => at["rollbackAgentBox"] =
                IF i < 7 THEN Nowhere ELSE <<"lib", "rollback">>
           /\ "oldAgent" \notin gone => at["oldAgent"] =
                IF i \in 8..10 THEN RollbackAgent ELSE ActiveAgent
<1> USE DEF LaidOut, Layout, Nodes, Trees, Boxes, BoxPlace
<1>1. at \in [Nodes -> {at[n] : n \in Nodes}]
  OBVIOUS
<1>2. \A n \in gone \intersect Nodes : at[n] = Nowhere
  OBVIOUS
<1>3. "newAgentBox" \notin gone => at["newAgentBox"] =
                IF i = 0 THEN Nowhere ELSE IF i = 16 THEN RejectedAgent ELSE <<"lib", "new">>
  OBVIOUS
<1>4. "newAgent" \notin gone => at["newAgent"] =
                IF i < 2 THEN Nowhere ELSE IF i = 9 THEN ActiveAgent ELSE NewAgent
  OBVIOUS
<1>5. "rollbackHomeBox" \notin gone => at["rollbackHomeBox"] =
                IF i \in 3..14 THEN <<"home", "rollback">> ELSE Nowhere
  OBVIOUS
<1>6. "oldHome" \notin gone => at["oldHome"] =
                IF i \in 4..13 THEN RollbackHome ELSE ActiveHome
  OBVIOUS
<1>7. "newHome" \notin gone => at["newHome"] =
                IF i \in 5..12 THEN ActiveHome ELSE <<"staging", "home">>
  OBVIOUS
<1>8. "staging" \notin gone => at["staging"] =
                IF i \in 6..11 THEN <<"newHome", "staging">> ELSE <<"oldHome", "staging">>
  OBVIOUS
<1>9. "rollbackAgentBox" \notin gone => at["rollbackAgentBox"] =
                IF i < 7 THEN Nowhere ELSE <<"lib", "rollback">>
  OBVIOUS
<1>10. "oldAgent" \notin gone => at["oldAgent"] =
                IF i \in 8..10 THEN RollbackAgent ELSE ActiveAgent
  OBVIOUS
<1>11. QED
  BY <1>1, <1>2, <1>3, <1>4, <1>5, <1>6, <1>7, <1>8, <1>9, <1>10

\* Which directory the next move moves, and that it moves nothing else.
Mover(i) ==
    CASE i \in {0, 15}   -> "newAgentBox"
      [] i \in {1, 8, 9} -> "newAgent"
      [] i \in {2, 14}   -> "rollbackHomeBox"
      [] i \in {3, 13}   -> "oldHome"
      [] i \in {4, 12}   -> "newHome"
      [] i \in {5, 11}   -> "staging"
      [] i = 6           -> "rollbackAgentBox"
      [] i \in {7, 10}   -> "oldAgent"

LEMMA NextMove ==
    ASSUME NEW i \in 0..15, NEW gone, LaidOut(i, gone), Mover(i) \notin gone,
           at' = [at EXCEPT ![Mover(i)] = Layout(i + 1)[Mover(i)]]
    PROVE  LaidOut(i + 1, gone)'
<1>1. Mover(i) \in Nodes
  BY DEF Mover, Nodes, Trees, Boxes
<1>2. \A n \in Nodes \ {Mover(i)} : Layout(i + 1)[n] = Layout(i)[n]
  BY DEF Mover, Layout, Nodes, Trees, Boxes
<1>3. at = [n \in Nodes |-> IF n \in gone THEN Nowhere ELSE Layout(i)[n]]
  BY DEF LaidOut
<1>4. at' = [n \in Nodes |-> IF n \in gone THEN Nowhere ELSE Layout(i + 1)[n]]
  BY <1>1, <1>2, <1>3
<1>5. QED
  BY <1>4 DEF LaidOut, Layout

\* What the paths of the transaction lead to after i moves, the staging
\* directory being there or not.
LEMMA Paths ==
    ASSUME NEW i \in 0..16, NEW gone \in Lost, LaidOut(i, gone)
    PROVE  /\ NodeAt(ActiveHome) = IF i \in 5..12 THEN "newHome"
                                   ELSE IF i \in {4, 13} THEN "none" ELSE "oldHome"
           /\ NodeAt(RollbackHome) = IF i \in 4..13 THEN "oldHome" ELSE "none"
           /\ NodeAt(ActiveAgent) = IF i = 9 THEN "newAgent"
                                    ELSE IF i \in {8, 10} THEN "none" ELSE "oldAgent"
           /\ NodeAt(RollbackAgent) = IF i \in 8..10 THEN "oldAgent" ELSE "none"
           /\ NodeAt(NewAgent) = IF i < 2 \/ i = 9 THEN "none" ELSE "newAgent"
           /\ NodeAt(RejectedAgent) = IF i = 16 THEN "newAgentBox" ELSE "none"
           /\ NodeAt(<<"home", "rollback">>) =
                IF i \in 3..14 THEN "rollbackHomeBox" ELSE "none"
           /\ NodeAt(<<"lib", "rollback">>) = IF i < 7 THEN "none" ELSE "rollbackAgentBox"
           /\ NodeAt(<<"lib", "new">>) = IF i \in {0, 16} THEN "none" ELSE "newAgentBox"
           /\ NodeAt(<<"none", "staging">>) = "none"
           /\ NodeAt(<<"oldHome", "staging">>) =
                IF gone = {} /\ i \notin 6..11 THEN "staging" ELSE "none"
           /\ NodeAt(<<"newHome", "staging">>) =
                IF gone = {} /\ i \in 6..11 THEN "staging" ELSE "none"
           /\ NodeAt(<<"none", "home">>) = "none"
           /\ NodeAt(<<"staging", "home">>) = IF i \in 5..12 THEN "none" ELSE "newHome"
<1> USE DEF Nodes, Trees, Boxes, Nowhere, ActiveHome, RollbackHome, ActiveAgent,
        RollbackAgent, NewAgent, RejectedAgent
<1>p. /\ at["newAgentBox"] = IF i = 0 THEN Nowhere ELSE IF i = 16 THEN RejectedAgent ELSE <<"lib", "new">>
      /\ at["newAgent"] = IF i < 2 THEN Nowhere ELSE IF i = 9 THEN ActiveAgent ELSE NewAgent
      /\ at["rollbackHomeBox"] = IF i \in 3..14 THEN <<"home", "rollback">> ELSE Nowhere
      /\ at["oldHome"] = IF i \in 4..13 THEN RollbackHome ELSE ActiveHome
      /\ at["newHome"] = IF i \in 5..12 THEN ActiveHome ELSE <<"staging", "home">>
      /\ at["rollbackAgentBox"] = IF i < 7 THEN Nowhere ELSE <<"lib", "rollback">>
      /\ at["oldAgent"] = IF i \in 8..10 THEN RollbackAgent ELSE ActiveAgent
      /\ at["staging"] = IF gone # {} THEN Nowhere ELSE
             IF i \in 6..11 THEN <<"newHome", "staging">> ELSE <<"oldHome", "staging">>
  <2>1. "newAgentBox" \notin gone /\ "newAgent" \notin gone /\ "rollbackHomeBox" \notin gone
        /\ "oldHome" \notin gone /\ "newHome" \notin gone /\ "rollbackAgentBox" \notin gone
        /\ "oldAgent" \notin gone /\ (gone # {} => gone = {"staging"})
    BY DEF Lost
  <2>2. gone # {} => at["staging"] = Nowhere
    BY <2>1 DEF LaidOut
  <2>3. gone = {} => at["staging"] =
          IF i \in 6..11 THEN <<"newHome", "staging">> ELSE <<"oldHome", "staging">>
    BY Places
  <2>4. QED
    BY <2>1, <2>2, <2>3, Places
<1>1. ASSUME i \in 5..12 PROVE NodeAt(ActiveHome) = "newHome"
  BY <1>p, <1>1, NodeAtIs
<1>2. ASSUME i \in {4, 13} PROVE NodeAt(ActiveHome) = "none"
  BY <1>p, <1>2, NodeAtNone
<1>3. ASSUME i \notin 4..13 PROVE NodeAt(ActiveHome) = "oldHome"
  BY <1>p, <1>3, NodeAtIs
<1>4. ASSUME i \in 4..13 PROVE NodeAt(RollbackHome) = "oldHome"
  BY <1>p, <1>4, NodeAtIs
<1>5. ASSUME i \notin 4..13 PROVE NodeAt(RollbackHome) = "none"
  BY <1>p, <1>5, NodeAtNone
<1>6. ASSUME i = 9 PROVE NodeAt(ActiveAgent) = "newAgent"
  BY <1>p, <1>6, NodeAtIs
<1>7. ASSUME i \in {8, 10} PROVE NodeAt(ActiveAgent) = "none"
  BY <1>p, <1>7, NodeAtNone
<1>8. ASSUME i \notin 8..10 PROVE NodeAt(ActiveAgent) = "oldAgent"
  BY <1>p, <1>8, NodeAtIs
<1>9. ASSUME i \in 8..10 PROVE NodeAt(RollbackAgent) = "oldAgent"
  BY <1>p, <1>9, NodeAtIs
<1>10. ASSUME i \notin 8..10 PROVE NodeAt(RollbackAgent) = "none"
  BY <1>p, <1>10, NodeAtNone
<1>11. ASSUME i < 2 \/ i = 9 PROVE NodeAt(NewAgent) = "none"
  BY <1>p, <1>11, NodeAtNone
<1>12. ASSUME ~(i < 2 \/ i = 9) PROVE NodeAt(NewAgent) = "newAgent"
  BY <1>p, <1>12, NodeAtIs
<1>13. ASSUME i = 16 PROVE NodeAt(RejectedAgent) = "newAgentBox"
  BY <1>p, <1>13, NodeAtIs
<1>14. ASSUME i # 16 PROVE NodeAt(RejectedAgent) = "none"
  BY <1>p, <1>14, NodeAtNone
<1>15. ASSUME i \in 3..14 PROVE NodeAt(<<"home", "rollback">>) = "rollbackHomeBox"
  BY <1>p, <1>15, NodeAtIs
<1>16. ASSUME i \notin 3..14 PROVE NodeAt(<<"home", "rollback">>) = "none"
  BY <1>p, <1>16, NodeAtNone
<1>17. ASSUME i < 7 PROVE NodeAt(<<"lib", "rollback">>) = "none"
  BY <1>p, <1>17, NodeAtNone
<1>18. ASSUME ~(i < 7) PROVE NodeAt(<<"lib", "rollback">>) = "rollbackAgentBox"
  BY <1>p, <1>18, NodeAtIs
<1>19. ASSUME i \in {0, 16} PROVE NodeAt(<<"lib", "new">>) = "none"
  BY <1>p, <1>19, NodeAtNone
<1>20. ASSUME i \notin {0, 16} PROVE NodeAt(<<"lib", "new">>) = "newAgentBox"
  BY <1>p, <1>20, NodeAtIs
<1>21. NodeAt(<<"none", "staging">>) = "none"
  BY <1>p, NodeAtNone
<1>22. ASSUME gone = {} /\ i \notin 6..11 PROVE NodeAt(<<"oldHome", "staging">>) = "staging"
  BY <1>p, <1>22, NodeAtIs
<1>23. ASSUME ~(gone = {} /\ i \notin 6..11) PROVE NodeAt(<<"oldHome", "staging">>) = "none"
  BY <1>p, <1>23, NodeAtNone
<1>24. ASSUME gone = {} /\ i \in 6..11 PROVE NodeAt(<<"newHome", "staging">>) = "staging"
  BY <1>p, <1>24, NodeAtIs
<1>25. ASSUME ~(gone = {} /\ i \in 6..11) PROVE NodeAt(<<"newHome", "staging">>) = "none"
  BY <1>p, <1>25, NodeAtNone
<1>26. NodeAt(<<"none", "home">>) = "none"
  BY <1>p, NodeAtNone
<1>27. ASSUME i \in 5..12 PROVE NodeAt(<<"staging", "home">>) = "none"
  BY <1>p, <1>27, NodeAtNone
<1>28. ASSUME i \notin 5..12 PROVE NodeAt(<<"staging", "home">>) = "newHome"
  BY <1>p, <1>28, NodeAtIs
<1>29. QED
  BY <1>1, <1>2, <1>3, <1>4, <1>5, <1>6, <1>7, <1>8, <1>9, <1>10, <1>11, <1>12, <1>13,
     <1>14, <1>15, <1>16, <1>17, <1>18, <1>19, <1>20, <1>21, <1>22, <1>23, <1>24, <1>25,
     <1>26, <1>27, <1>28

-----------------------------------------------------------------------------
(* The moves. *)

\* What an operation may be doing in each phase.
LEMMA CurrentMove ==
    ASSUME NEW m \in Current
    PROVE  /\ system \in {"promote", "rollback"} /\ m.phase = phase
           /\ phase \in Promoting \/ (system = "rollback" /\ phase \in {"promoted"} \union RollingBack)
           /\ phase = "prepared" => m =
                Move("prepared", "rollbackHomeBox", TRUE, ActiveHome, RollbackHome, "oldHome", "home-retired")
           /\ phase = "home-retired" => m =
                Move("home-retired", "none", FALSE, StagedHome, ActiveHome, "newHome", "home-installed")
           /\ phase = "home-installed" => m =
                Move("home-installed", "none", FALSE, RestoreRoot(RollbackHome), RestoreRoot(ActiveHome), "newHome", "staging-transferred")
           /\ phase = "staging-transferred" => m =
                Move("staging-transferred", "rollbackAgentBox", TRUE, ActiveAgent, RollbackAgent, "oldAgent", "agent-retired")
           /\ phase = "agent-retired" => m =
                Move("agent-retired", "none", FALSE, NewAgent, ActiveAgent, "newAgent", "promoted")
           /\ phase = "promoted" => m =
                Move("promoted", "none", FALSE, ActiveAgent, NewAgent, "none", "rollback-agent-saved")
           /\ phase = "rollback-agent-saved" => m =
                Move("rollback-agent-saved", "none", FALSE, RollbackAgent, ActiveAgent, "none", "rollback-agent-restored")
           /\ phase = "rollback-agent-restored" => m =
                Move("rollback-agent-restored", "none", FALSE, RestoreRoot(ActiveHome), RestoreRoot(RollbackHome), "none", "rollback-staging-returned")
           /\ phase = "rollback-staging-returned" => m =
                Move("rollback-staging-returned", "none", FALSE, ActiveHome, StagedHome, "none", "rollback-home-saved")
           /\ phase = "rollback-home-saved" => m =
                Move("rollback-home-saved", "none", FALSE, RollbackHome, ActiveHome, "none", "rollback-home-restored")
           /\ phase = "rollback-home-restored" => m =
                Move("rollback-home-restored", "rollbackHomeBox", FALSE, BoxPlace.newAgentBox, RejectedAgent, "none", "rollback-trial-preserved")
           /\ phase # "rollback-trial-preserved"
<1>1. /\ m \in PromotionMoves \/ m \in RollbackMoves
      /\ system \in {"promote", "rollback"} /\ m.phase = phase
      /\ m \in PromotionMoves \/ system = "rollback"
  BY DEF Current
<1>2. m \in PromotionMoves => m.phase \in Promoting
  BY DEF PromotionMoves, Move, Promoting
<1>3. m \in RollbackMoves => /\ m.phase \in {"promoted"} \union RollingBack
                             /\ m.phase # "rollback-trial-preserved"
  BY DEF RollbackMoves, Move, RollingBack
<1>4. phase = "prepared" => m =
        Move("prepared", "rollbackHomeBox", TRUE, ActiveHome, RollbackHome, "oldHome", "home-retired")
  BY <1>1, <1>2, <1>3 DEF PromotionMoves, Move, Promoting, RollingBack
<1>5. phase = "home-retired" => m =
        Move("home-retired", "none", FALSE, StagedHome, ActiveHome, "newHome", "home-installed")
  BY <1>1, <1>2, <1>3 DEF PromotionMoves, Move, Promoting, RollingBack
<1>6. phase = "home-installed" => m =
        Move("home-installed", "none", FALSE, RestoreRoot(RollbackHome), RestoreRoot(ActiveHome), "newHome", "staging-transferred")
  BY <1>1, <1>2, <1>3 DEF PromotionMoves, Move, Promoting, RollingBack
<1>7. phase = "staging-transferred" => m =
        Move("staging-transferred", "rollbackAgentBox", TRUE, ActiveAgent, RollbackAgent, "oldAgent", "agent-retired")
  BY <1>1, <1>2, <1>3 DEF PromotionMoves, Move, Promoting, RollingBack
<1>8. phase = "agent-retired" => m =
        Move("agent-retired", "none", FALSE, NewAgent, ActiveAgent, "newAgent", "promoted")
  BY <1>1, <1>2, <1>3 DEF PromotionMoves, Move, Promoting, RollingBack
<1>9. phase = "promoted" => m =
        Move("promoted", "none", FALSE, ActiveAgent, NewAgent, "none", "rollback-agent-saved")
  BY <1>1, <1>2, <1>3 DEF RollbackMoves, Move, Promoting, RollingBack
<1>10. phase = "rollback-agent-saved" => m =
        Move("rollback-agent-saved", "none", FALSE, RollbackAgent, ActiveAgent, "none", "rollback-agent-restored")
  BY <1>1, <1>2, <1>3 DEF RollbackMoves, Move, Promoting, RollingBack
<1>11. phase = "rollback-agent-restored" => m =
        Move("rollback-agent-restored", "none", FALSE, RestoreRoot(ActiveHome), RestoreRoot(RollbackHome), "none", "rollback-staging-returned")
  BY <1>1, <1>2, <1>3 DEF RollbackMoves, Move, Promoting, RollingBack
<1>12. phase = "rollback-staging-returned" => m =
        Move("rollback-staging-returned", "none", FALSE, ActiveHome, StagedHome, "none", "rollback-home-saved")
  BY <1>1, <1>2, <1>3 DEF RollbackMoves, Move, Promoting, RollingBack
<1>13. phase = "rollback-home-saved" => m =
        Move("rollback-home-saved", "none", FALSE, RollbackHome, ActiveHome, "none", "rollback-home-restored")
  BY <1>1, <1>2, <1>3 DEF RollbackMoves, Move, Promoting, RollingBack
<1>14. phase = "rollback-home-restored" => m =
        Move("rollback-home-restored", "rollbackHomeBox", FALSE, BoxPlace.newAgentBox, RejectedAgent, "none", "rollback-trial-preserved")
  BY <1>1, <1>2, <1>3 DEF RollbackMoves, Move, Promoting, RollingBack
<1>15. QED
  BY <1>1, <1>2, <1>3, <1>4, <1>5, <1>6, <1>7, <1>8, <1>9, <1>10, <1>11, <1>12, <1>13,
     <1>14 DEF Promoting

\* The number of moves made when a phase comes to its rename.
RenameOf(ph) ==
    CASE ph = "prepared" -> 3
      [] ph = "home-retired" -> 4
      [] ph = "home-installed" -> 5
      [] ph = "staging-transferred" -> 7
      [] ph = "agent-retired" -> 8
      [] ph = "promoted" -> 9
      [] ph = "rollback-agent-saved" -> 10
      [] ph = "rollback-agent-restored" -> 11
      [] ph = "rollback-staging-returned" -> 12
      [] ph = "rollback-home-saved" -> 13
      [] ph = "rollback-home-restored" -> 15

\* The layouts of a transaction under way.
Underway(i, gone) ==
    /\ i \in MovesMade(phase)
    /\ LaidOut(i, gone)
    /\ gone = {} \/ (gone = {"staging"} /\ phase \notin Promoting /\ i \in 9..11)

\* Each phase comes to its rename when its container is ready; the rename takes
\* the next directory to its next place, if that directory has not been lost.
LEMMA MoveFacts ==
    ASSUME NEW m \in Current, NEW i \in 0..16, NEW gone \in Lost, Underway(i, gone),
           NEW r, r = RenameOf(phase)
    PROVE  /\ r \in 3..15 /\ i \in (r - 1)..(r + 1) /\ (r - 1)..(r + 1) \subseteq 0..16
           /\ r + 1 \in MovesMade(m.next)
           /\ i <= r => i + 1 \in MovesMade(phase)
           /\ BoxReady(m) <=> i >= r
           /\ i < r => /\ m.box = Mover(i) /\ (m.wanted \/ Empty(m.box))
                       /\ Layout(r)[Mover(i)] =
                            IF m.wanted THEN BoxPlace[m.box] ELSE Nowhere
                       /\ gone = {}
           /\ i = r /\ Mover(r) \notin gone =>
                /\ NodeAt(m.src) = Mover(r) /\ m.dst = Layout(r + 1)[Mover(r)]
                /\ Renamable(m)
           /\ i = r + 1 /\ Mover(r) \notin gone => Renamed(m)
           /\ i = r + 1 => ~Exists(m.src)
           /\ Mover(r) \in gone => ~Exists(m.src) /\ ~Exists(m.dst) /\ gone = {"staging"}
           /\ m.next \notin Promoting \/ phase \in Promoting
<1>p. /\ LaidOut(i, gone) /\ "none" \notin Nodes
      /\ gone = {} \/ (gone = {"staging"} /\ phase \notin Promoting /\ i \in 9..11)
      /\ i \in MovesMade(phase)
  BY DEF Underway, Nodes, Trees, Boxes
<1>q. /\ NodeAt(ActiveHome) = IF i \in 5..12 THEN "newHome"
                              ELSE IF i \in {4, 13} THEN "none" ELSE "oldHome"
      /\ NodeAt(RollbackHome) = IF i \in 4..13 THEN "oldHome" ELSE "none"
      /\ NodeAt(ActiveAgent) = IF i = 9 THEN "newAgent"
                               ELSE IF i \in {8, 10} THEN "none" ELSE "oldAgent"
      /\ NodeAt(RollbackAgent) = IF i \in 8..10 THEN "oldAgent" ELSE "none"
      /\ NodeAt(NewAgent) = IF i < 2 \/ i = 9 THEN "none" ELSE "newAgent"
      /\ NodeAt(RejectedAgent) = IF i = 16 THEN "newAgentBox" ELSE "none"
      /\ NodeAt(<<"home", "rollback">>) =
           IF i \in 3..14 THEN "rollbackHomeBox" ELSE "none"
      /\ NodeAt(<<"lib", "rollback">>) = IF i < 7 THEN "none" ELSE "rollbackAgentBox"
      /\ NodeAt(<<"lib", "new">>) = IF i \in {0, 16} THEN "none" ELSE "newAgentBox"
      /\ NodeAt(<<"none", "staging">>) = "none"
      /\ NodeAt(<<"oldHome", "staging">>) =
           IF gone = {} /\ i \notin 6..11 THEN "staging" ELSE "none"
      /\ NodeAt(<<"newHome", "staging">>) =
           IF gone = {} /\ i \in 6..11 THEN "staging" ELSE "none"
      /\ NodeAt(<<"none", "home">>) = "none"
      /\ NodeAt(<<"staging", "home">>) = IF i \in 5..12 THEN "none" ELSE "newHome"
  BY <1>p, Paths
<1>1. CASE phase = "prepared"
  <2>1. /\ m = Move("prepared", "rollbackHomeBox", TRUE, ActiveHome, RollbackHome, "oldHome", "home-retired")
    BY <1>1, CurrentMove
  <2>r. r = 3 /\ i \in {2, 3, 4}
    BY <1>1, <1>p DEF MovesMade, RenameOf
  <2>2. /\ m.box = "rollbackHomeBox" /\ m.wanted = TRUE /\ m.next = "home-retired"
        /\ m.src = ActiveHome /\ m.dst = RollbackHome
        /\ gone = {}
    BY <2>1, <2>r, <1>p, <1>1 DEF Move, Promoting
  <2>3. /\ m.src = ActiveHome
        /\ m.dst = RollbackHome
    BY <1>p, <2>r, <2>2, <1>q DEF RestoreRoot, StagedHome, BoxPlace
  <2>4. /\ NodeAt(m.src) = IF i <= 3 THEN "oldHome" ELSE "none"
        /\ NodeAt(m.dst) = IF i = 4 THEN "oldHome" ELSE "none"
    BY <1>p, <2>r, <2>2, <2>3, <1>q
  <2>5. Mover(r) = "oldHome" /\ Layout(r + 1)["oldHome"] = m.dst
    BY <2>r, <2>3 DEF Mover, Layout, Nodes, Trees, Boxes, ActiveHome, RollbackHome,
       ActiveAgent, RollbackAgent, NewAgent, RejectedAgent
  <2>6. BoxReady(m) <=> i >= r
    <3>1. at["rollbackHomeBox"] = IF i = 2 THEN Nowhere ELSE <<"home", "rollback">>
      BY <1>p, <2>r, <2>2, Places
    <3>2. Present("rollbackHomeBox") <=> i >= r
      BY <2>r, <3>1 DEF Present, Nowhere, Nodes, Trees, Boxes
    <3>3. BoxReady(m) <=> Present("rollbackHomeBox") = TRUE
      BY <2>2 DEF BoxReady
    <3>4. QED
      BY <2>r, <3>2, <3>3 DEF Present
  <2>7. ASSUME i < r
        PROVE  /\ m.box = Mover(i) /\ (m.wanted \/ Empty(m.box))
               /\ Layout(r)[Mover(i)] = IF m.wanted THEN BoxPlace[m.box] ELSE Nowhere
    BY <2>r, <2>2, <2>7 DEF Mover, Layout, Nodes, Trees, Boxes, BoxPlace
  <2>8. i = r => m.dst[1] = "rollbackHomeBox" /\ Present("rollbackHomeBox")
    BY <1>p, <2>r, <2>2, <2>3, Places DEF Present, Nowhere, Nodes, Trees, Boxes, Lost,
       ActiveHome, RollbackHome, RollbackAgent, NewAgent
  <2>9. i = r /\ Mover(r) \notin gone => Renamable(m)
    BY <1>p, <2>r, <2>4, <2>5, <2>8 DEF Renamable, Exists, Lost
  <2>10. /\ i = r + 1 /\ Mover(r) \notin gone => Renamed(m)
         /\ i = r + 1 => ~Exists(m.src)
         /\ Mover(r) \in gone => ~Exists(m.src) /\ ~Exists(m.dst) /\ gone = {"staging"}
    BY <1>p, <2>r, <2>4, <2>5 DEF Renamed, Exists, Lost
  <2>11. QED
    BY <1>p, <1>1, <2>r, <2>2, <2>4, <2>5, <2>6, <2>7, <2>9, <2>10 DEF MovesMade, Promoting, Lost
<1>2. CASE phase = "home-retired"
  <2>1. /\ m = Move("home-retired", "none", FALSE, StagedHome, ActiveHome, "newHome", "home-installed")
    BY <1>2, CurrentMove
  <2>r. r = 4 /\ i \in {4, 5}
    BY <1>2, <1>p DEF MovesMade, RenameOf
  <2>2. /\ m.box = "none" /\ m.wanted = FALSE /\ m.next = "home-installed"
        /\ m.src = StagedHome /\ m.dst = ActiveHome
        /\ gone = {}
    BY <2>1, <2>r, <1>p, <1>2 DEF Move, Promoting
  <2>3. /\ m.src = <<"staging", "home">>
        /\ m.dst = ActiveHome
    BY <1>p, <2>r, <2>2, <1>q DEF RestoreRoot, StagedHome, BoxPlace
  <2>4. /\ NodeAt(m.src) = IF i <= 4 THEN "newHome" ELSE "none"
        /\ NodeAt(m.dst) = IF i = 5 THEN "newHome" ELSE "none"
    BY <1>p, <2>r, <2>2, <2>3, <1>q
  <2>5. Mover(r) = "newHome" /\ Layout(r + 1)["newHome"] = m.dst
    BY <2>r, <2>3 DEF Mover, Layout, Nodes, Trees, Boxes, ActiveHome, RollbackHome,
       ActiveAgent, RollbackAgent, NewAgent, RejectedAgent
  <2>6. BoxReady(m)
    BY <1>p, <2>2 DEF BoxReady, Present
  <2>7. i >= r
    BY <2>r
  <2>8. m.dst[1] \in {"home", "lib"}
    BY <2>3 DEF ActiveHome, ActiveAgent, RejectedAgent
  <2>9. i = r /\ Mover(r) \notin gone => Renamable(m)
    BY <1>p, <2>r, <2>4, <2>5, <2>8 DEF Renamable, Exists, Lost
  <2>10. /\ i = r + 1 /\ Mover(r) \notin gone => Renamed(m)
         /\ i = r + 1 => ~Exists(m.src)
         /\ Mover(r) \in gone => ~Exists(m.src) /\ ~Exists(m.dst) /\ gone = {"staging"}
    BY <1>p, <2>r, <2>4, <2>5 DEF Renamed, Exists, Lost
  <2>11. QED
    BY <1>p, <1>2, <2>r, <2>2, <2>4, <2>5, <2>6, <2>7, <2>9, <2>10 DEF MovesMade, Promoting, Lost
<1>3. CASE phase = "home-installed"
  <2>1. /\ m = Move("home-installed", "none", FALSE, RestoreRoot(RollbackHome), RestoreRoot(ActiveHome), "newHome", "staging-transferred")
    BY <1>3, CurrentMove
  <2>r. r = 5 /\ i \in {5, 6}
    BY <1>3, <1>p DEF MovesMade, RenameOf
  <2>2. /\ m.box = "none" /\ m.wanted = FALSE /\ m.next = "staging-transferred"
        /\ m.src = RestoreRoot(RollbackHome) /\ m.dst = RestoreRoot(ActiveHome)
        /\ gone = {}
    BY <2>1, <2>r, <1>p, <1>3 DEF Move, Promoting
  <2>3. /\ m.src = <<"oldHome", "staging">>
        /\ m.dst = <<"newHome", "staging">>
    BY <1>p, <2>r, <2>2, <1>q DEF RestoreRoot, StagedHome, BoxPlace
  <2>4. /\ NodeAt(m.src) = IF i <= 5 /\ gone = {} THEN "staging" ELSE "none"
        /\ NodeAt(m.dst) = IF i = 6 /\ gone = {} THEN "staging" ELSE "none"
    BY <1>p, <2>r, <2>2, <2>3, <1>q
  <2>5. Mover(r) = "staging" /\ Layout(r + 1)["staging"] = m.dst
    BY <2>r, <2>3 DEF Mover, Layout, Nodes, Trees, Boxes, ActiveHome, RollbackHome,
       ActiveAgent, RollbackAgent, NewAgent, RejectedAgent
  <2>6. BoxReady(m)
    BY <1>p, <2>2 DEF BoxReady, Present
  <2>7. i >= r
    BY <2>r
  <2>8. i = r /\ gone = {} => m.dst[1] = "newHome" /\ Present("newHome")
    BY <1>p, <2>r, <2>2, <2>3, Places DEF Present, Nowhere, Nodes, Trees, Boxes, Lost,
       ActiveHome, RollbackHome, RollbackAgent, NewAgent
  <2>9. i = r /\ Mover(r) \notin gone => Renamable(m)
    BY <1>p, <2>r, <2>4, <2>5, <2>8 DEF Renamable, Exists, Lost
  <2>10. /\ i = r + 1 /\ Mover(r) \notin gone => Renamed(m)
         /\ i = r + 1 => ~Exists(m.src)
         /\ Mover(r) \in gone => ~Exists(m.src) /\ ~Exists(m.dst) /\ gone = {"staging"}
    BY <1>p, <2>r, <2>4, <2>5 DEF Renamed, Exists, Lost
  <2>11. QED
    BY <1>p, <1>3, <2>r, <2>2, <2>4, <2>5, <2>6, <2>7, <2>9, <2>10 DEF MovesMade, Promoting, Lost
<1>4. CASE phase = "staging-transferred"
  <2>1. /\ m = Move("staging-transferred", "rollbackAgentBox", TRUE, ActiveAgent, RollbackAgent, "oldAgent", "agent-retired")
    BY <1>4, CurrentMove
  <2>r. r = 7 /\ i \in {6, 7, 8}
    BY <1>4, <1>p DEF MovesMade, RenameOf
  <2>2. /\ m.box = "rollbackAgentBox" /\ m.wanted = TRUE /\ m.next = "agent-retired"
        /\ m.src = ActiveAgent /\ m.dst = RollbackAgent
        /\ gone = {}
    BY <2>1, <2>r, <1>p, <1>4 DEF Move, Promoting
  <2>3. /\ m.src = ActiveAgent
        /\ m.dst = RollbackAgent
    BY <1>p, <2>r, <2>2, <1>q DEF RestoreRoot, StagedHome, BoxPlace
  <2>4. /\ NodeAt(m.src) = IF i <= 7 THEN "oldAgent" ELSE "none"
        /\ NodeAt(m.dst) = IF i = 8 THEN "oldAgent" ELSE "none"
    BY <1>p, <2>r, <2>2, <2>3, <1>q
  <2>5. Mover(r) = "oldAgent" /\ Layout(r + 1)["oldAgent"] = m.dst
    BY <2>r, <2>3 DEF Mover, Layout, Nodes, Trees, Boxes, ActiveHome, RollbackHome,
       ActiveAgent, RollbackAgent, NewAgent, RejectedAgent
  <2>6. BoxReady(m) <=> i >= r
    <3>1. at["rollbackAgentBox"] = IF i = 6 THEN Nowhere ELSE <<"lib", "rollback">>
      BY <1>p, <2>r, <2>2, Places
    <3>2. Present("rollbackAgentBox") <=> i >= r
      BY <2>r, <3>1 DEF Present, Nowhere, Nodes, Trees, Boxes
    <3>3. BoxReady(m) <=> Present("rollbackAgentBox") = TRUE
      BY <2>2 DEF BoxReady
    <3>4. QED
      BY <2>r, <3>2, <3>3 DEF Present
  <2>7. ASSUME i < r
        PROVE  /\ m.box = Mover(i) /\ (m.wanted \/ Empty(m.box))
               /\ Layout(r)[Mover(i)] = IF m.wanted THEN BoxPlace[m.box] ELSE Nowhere
    BY <2>r, <2>2, <2>7 DEF Mover, Layout, Nodes, Trees, Boxes, BoxPlace
  <2>8. i = r => m.dst[1] = "rollbackAgentBox" /\ Present("rollbackAgentBox")
    BY <1>p, <2>r, <2>2, <2>3, Places DEF Present, Nowhere, Nodes, Trees, Boxes, Lost,
       ActiveHome, RollbackHome, RollbackAgent, NewAgent
  <2>9. i = r /\ Mover(r) \notin gone => Renamable(m)
    BY <1>p, <2>r, <2>4, <2>5, <2>8 DEF Renamable, Exists, Lost
  <2>10. /\ i = r + 1 /\ Mover(r) \notin gone => Renamed(m)
         /\ i = r + 1 => ~Exists(m.src)
         /\ Mover(r) \in gone => ~Exists(m.src) /\ ~Exists(m.dst) /\ gone = {"staging"}
    BY <1>p, <2>r, <2>4, <2>5 DEF Renamed, Exists, Lost
  <2>11. QED
    BY <1>p, <1>4, <2>r, <2>2, <2>4, <2>5, <2>6, <2>7, <2>9, <2>10 DEF MovesMade, Promoting, Lost
<1>5. CASE phase = "agent-retired"
  <2>1. /\ m = Move("agent-retired", "none", FALSE, NewAgent, ActiveAgent, "newAgent", "promoted")
    BY <1>5, CurrentMove
  <2>r. r = 8 /\ i \in {8, 9}
    BY <1>5, <1>p DEF MovesMade, RenameOf
  <2>2. /\ m.box = "none" /\ m.wanted = FALSE /\ m.next = "promoted"
        /\ m.src = NewAgent /\ m.dst = ActiveAgent
        /\ gone = {}
    BY <2>1, <2>r, <1>p, <1>5 DEF Move, Promoting
  <2>3. /\ m.src = NewAgent
        /\ m.dst = ActiveAgent
    BY <1>p, <2>r, <2>2, <1>q DEF RestoreRoot, StagedHome, BoxPlace
  <2>4. /\ NodeAt(m.src) = IF i <= 8 THEN "newAgent" ELSE "none"
        /\ NodeAt(m.dst) = IF i = 9 THEN "newAgent" ELSE "none"
    BY <1>p, <2>r, <2>2, <2>3, <1>q
  <2>5. Mover(r) = "newAgent" /\ Layout(r + 1)["newAgent"] = m.dst
    BY <2>r, <2>3 DEF Mover, Layout, Nodes, Trees, Boxes, ActiveHome, RollbackHome,
       ActiveAgent, RollbackAgent, NewAgent, RejectedAgent
  <2>6. BoxReady(m)
    BY <1>p, <2>2 DEF BoxReady, Present
  <2>7. i >= r
    BY <2>r
  <2>8. m.dst[1] \in {"home", "lib"}
    BY <2>3 DEF ActiveHome, ActiveAgent, RejectedAgent
  <2>9. i = r /\ Mover(r) \notin gone => Renamable(m)
    BY <1>p, <2>r, <2>4, <2>5, <2>8 DEF Renamable, Exists, Lost
  <2>10. /\ i = r + 1 /\ Mover(r) \notin gone => Renamed(m)
         /\ i = r + 1 => ~Exists(m.src)
         /\ Mover(r) \in gone => ~Exists(m.src) /\ ~Exists(m.dst) /\ gone = {"staging"}
    BY <1>p, <2>r, <2>4, <2>5 DEF Renamed, Exists, Lost
  <2>11. QED
    BY <1>p, <1>5, <2>r, <2>2, <2>4, <2>5, <2>6, <2>7, <2>9, <2>10 DEF MovesMade, Promoting, Lost
<1>6. CASE phase = "promoted"
  <2>1. /\ m = Move("promoted", "none", FALSE, ActiveAgent, NewAgent, "none", "rollback-agent-saved")
    BY <1>6, CurrentMove
  <2>r. r = 9 /\ i \in {9, 10}
    BY <1>6, <1>p DEF MovesMade, RenameOf
  <2>2. /\ m.box = "none" /\ m.wanted = FALSE /\ m.next = "rollback-agent-saved"
        /\ m.src = ActiveAgent /\ m.dst = NewAgent
    BY <2>1, <2>r, <1>p, <1>6 DEF Move, Promoting
  <2>3. /\ m.src = ActiveAgent
        /\ m.dst = NewAgent
    BY <1>p, <2>r, <2>2, <1>q DEF RestoreRoot, StagedHome, BoxPlace
  <2>4. /\ NodeAt(m.src) = IF i <= 9 THEN "newAgent" ELSE "none"
        /\ NodeAt(m.dst) = IF i = 10 THEN "newAgent" ELSE "none"
    BY <1>p, <2>r, <2>2, <2>3, <1>q
  <2>5. Mover(r) = "newAgent" /\ Layout(r + 1)["newAgent"] = m.dst
    BY <2>r, <2>3 DEF Mover, Layout, Nodes, Trees, Boxes, ActiveHome, RollbackHome,
       ActiveAgent, RollbackAgent, NewAgent, RejectedAgent
  <2>6. BoxReady(m)
    BY <1>p, <2>2 DEF BoxReady, Present
  <2>7. i >= r
    BY <2>r
  <2>8. i = r => m.dst[1] = "newAgentBox" /\ Present("newAgentBox")
    BY <1>p, <2>r, <2>2, <2>3, Places DEF Present, Nowhere, Nodes, Trees, Boxes, Lost,
       ActiveHome, RollbackHome, RollbackAgent, NewAgent
  <2>9. i = r /\ Mover(r) \notin gone => Renamable(m)
    BY <1>p, <2>r, <2>4, <2>5, <2>8 DEF Renamable, Exists, Lost
  <2>10. /\ i = r + 1 /\ Mover(r) \notin gone => Renamed(m)
         /\ i = r + 1 => ~Exists(m.src)
         /\ Mover(r) \in gone => ~Exists(m.src) /\ ~Exists(m.dst) /\ gone = {"staging"}
    BY <1>p, <2>r, <2>4, <2>5 DEF Renamed, Exists, Lost
  <2>11. QED
    BY <1>p, <1>6, <2>r, <2>2, <2>4, <2>5, <2>6, <2>7, <2>9, <2>10 DEF MovesMade, Promoting, Lost
<1>7. CASE phase = "rollback-agent-saved"
  <2>1. /\ m = Move("rollback-agent-saved", "none", FALSE, RollbackAgent, ActiveAgent, "none", "rollback-agent-restored")
    BY <1>7, CurrentMove
  <2>r. r = 10 /\ i \in {10, 11}
    BY <1>7, <1>p DEF MovesMade, RenameOf
  <2>2. /\ m.box = "none" /\ m.wanted = FALSE /\ m.next = "rollback-agent-restored"
        /\ m.src = RollbackAgent /\ m.dst = ActiveAgent
    BY <2>1, <2>r, <1>p, <1>7 DEF Move, Promoting
  <2>3. /\ m.src = RollbackAgent
        /\ m.dst = ActiveAgent
    BY <1>p, <2>r, <2>2, <1>q DEF RestoreRoot, StagedHome, BoxPlace
  <2>4. /\ NodeAt(m.src) = IF i <= 10 THEN "oldAgent" ELSE "none"
        /\ NodeAt(m.dst) = IF i = 11 THEN "oldAgent" ELSE "none"
    BY <1>p, <2>r, <2>2, <2>3, <1>q
  <2>5. Mover(r) = "oldAgent" /\ Layout(r + 1)["oldAgent"] = m.dst
    BY <2>r, <2>3 DEF Mover, Layout, Nodes, Trees, Boxes, ActiveHome, RollbackHome,
       ActiveAgent, RollbackAgent, NewAgent, RejectedAgent
  <2>6. BoxReady(m)
    BY <1>p, <2>2 DEF BoxReady, Present
  <2>7. i >= r
    BY <2>r
  <2>8. m.dst[1] \in {"home", "lib"}
    BY <2>3 DEF ActiveHome, ActiveAgent, RejectedAgent
  <2>9. i = r /\ Mover(r) \notin gone => Renamable(m)
    BY <1>p, <2>r, <2>4, <2>5, <2>8 DEF Renamable, Exists, Lost
  <2>10. /\ i = r + 1 /\ Mover(r) \notin gone => Renamed(m)
         /\ i = r + 1 => ~Exists(m.src)
         /\ Mover(r) \in gone => ~Exists(m.src) /\ ~Exists(m.dst) /\ gone = {"staging"}
    BY <1>p, <2>r, <2>4, <2>5 DEF Renamed, Exists, Lost
  <2>11. QED
    BY <1>p, <1>7, <2>r, <2>2, <2>4, <2>5, <2>6, <2>7, <2>9, <2>10 DEF MovesMade, Promoting, Lost
<1>8. CASE phase = "rollback-agent-restored"
  <2>1. /\ m = Move("rollback-agent-restored", "none", FALSE, RestoreRoot(ActiveHome), RestoreRoot(RollbackHome), "none", "rollback-staging-returned")
    BY <1>8, CurrentMove
  <2>r. r = 11 /\ i \in {11, 12}
    BY <1>8, <1>p DEF MovesMade, RenameOf
  <2>2. /\ m.box = "none" /\ m.wanted = FALSE /\ m.next = "rollback-staging-returned"
        /\ m.src = RestoreRoot(ActiveHome) /\ m.dst = RestoreRoot(RollbackHome)
    BY <2>1, <2>r, <1>p, <1>8 DEF Move, Promoting
  <2>3. /\ m.src = <<"newHome", "staging">>
        /\ m.dst = <<"oldHome", "staging">>
    BY <1>p, <2>r, <2>2, <1>q DEF RestoreRoot, StagedHome, BoxPlace
  <2>4. /\ NodeAt(m.src) = IF i <= 11 /\ gone = {} THEN "staging" ELSE "none"
        /\ NodeAt(m.dst) = IF i = 12 /\ gone = {} THEN "staging" ELSE "none"
    BY <1>p, <2>r, <2>2, <2>3, <1>q
  <2>5. Mover(r) = "staging" /\ Layout(r + 1)["staging"] = m.dst
    BY <2>r, <2>3 DEF Mover, Layout, Nodes, Trees, Boxes, ActiveHome, RollbackHome,
       ActiveAgent, RollbackAgent, NewAgent, RejectedAgent
  <2>6. BoxReady(m)
    BY <1>p, <2>2 DEF BoxReady, Present
  <2>7. i >= r
    BY <2>r
  <2>8. i = r /\ gone = {} => m.dst[1] = "oldHome" /\ Present("oldHome")
    BY <1>p, <2>r, <2>2, <2>3, Places DEF Present, Nowhere, Nodes, Trees, Boxes, Lost,
       ActiveHome, RollbackHome, RollbackAgent, NewAgent
  <2>9. i = r /\ Mover(r) \notin gone => Renamable(m)
    BY <1>p, <2>r, <2>4, <2>5, <2>8 DEF Renamable, Exists, Lost
  <2>10. /\ i = r + 1 /\ Mover(r) \notin gone => Renamed(m)
         /\ i = r + 1 => ~Exists(m.src)
         /\ Mover(r) \in gone => ~Exists(m.src) /\ ~Exists(m.dst) /\ gone = {"staging"}
    BY <1>p, <2>r, <2>4, <2>5 DEF Renamed, Exists, Lost
  <2>11. QED
    BY <1>p, <1>8, <2>r, <2>2, <2>4, <2>5, <2>6, <2>7, <2>9, <2>10 DEF MovesMade, Promoting, Lost
<1>9. CASE phase = "rollback-staging-returned"
  <2>1. /\ m = Move("rollback-staging-returned", "none", FALSE, ActiveHome, StagedHome, "none", "rollback-home-saved")
    BY <1>9, CurrentMove
  <2>r. r = 12 /\ i \in {12, 13}
    BY <1>9, <1>p DEF MovesMade, RenameOf
  <2>2. /\ m.box = "none" /\ m.wanted = FALSE /\ m.next = "rollback-home-saved"
        /\ m.src = ActiveHome /\ m.dst = StagedHome
        /\ gone = {}
    BY <2>1, <2>r, <1>p, <1>9 DEF Move, Promoting
  <2>3. /\ m.src = ActiveHome
        /\ m.dst = <<"staging", "home">>
    BY <1>p, <2>r, <2>2, <1>q DEF RestoreRoot, StagedHome, BoxPlace
  <2>4. /\ NodeAt(m.src) = IF i <= 12 THEN "newHome" ELSE "none"
        /\ NodeAt(m.dst) = IF i = 13 THEN "newHome" ELSE "none"
    BY <1>p, <2>r, <2>2, <2>3, <1>q
  <2>5. Mover(r) = "newHome" /\ Layout(r + 1)["newHome"] = m.dst
    BY <2>r, <2>3 DEF Mover, Layout, Nodes, Trees, Boxes, ActiveHome, RollbackHome,
       ActiveAgent, RollbackAgent, NewAgent, RejectedAgent
  <2>6. BoxReady(m)
    BY <1>p, <2>2 DEF BoxReady, Present
  <2>7. i >= r
    BY <2>r
  <2>8. i = r => m.dst[1] = "staging" /\ Present("staging")
    BY <1>p, <2>r, <2>2, <2>3, Places DEF Present, Nowhere, Nodes, Trees, Boxes, Lost,
       ActiveHome, RollbackHome, RollbackAgent, NewAgent
  <2>9. i = r /\ Mover(r) \notin gone => Renamable(m)
    BY <1>p, <2>r, <2>4, <2>5, <2>8 DEF Renamable, Exists, Lost
  <2>10. /\ i = r + 1 /\ Mover(r) \notin gone => Renamed(m)
         /\ i = r + 1 => ~Exists(m.src)
         /\ Mover(r) \in gone => ~Exists(m.src) /\ ~Exists(m.dst) /\ gone = {"staging"}
    BY <1>p, <2>r, <2>4, <2>5 DEF Renamed, Exists, Lost
  <2>11. QED
    BY <1>p, <1>9, <2>r, <2>2, <2>4, <2>5, <2>6, <2>7, <2>9, <2>10 DEF MovesMade, Promoting, Lost
<1>10. CASE phase = "rollback-home-saved"
  <2>1. /\ m = Move("rollback-home-saved", "none", FALSE, RollbackHome, ActiveHome, "none", "rollback-home-restored")
    BY <1>10, CurrentMove
  <2>r. r = 13 /\ i \in {13, 14}
    BY <1>10, <1>p DEF MovesMade, RenameOf
  <2>2. /\ m.box = "none" /\ m.wanted = FALSE /\ m.next = "rollback-home-restored"
        /\ m.src = RollbackHome /\ m.dst = ActiveHome
        /\ gone = {}
    BY <2>1, <2>r, <1>p, <1>10 DEF Move, Promoting
  <2>3. /\ m.src = RollbackHome
        /\ m.dst = ActiveHome
    BY <1>p, <2>r, <2>2, <1>q DEF RestoreRoot, StagedHome, BoxPlace
  <2>4. /\ NodeAt(m.src) = IF i <= 13 THEN "oldHome" ELSE "none"
        /\ NodeAt(m.dst) = IF i = 14 THEN "oldHome" ELSE "none"
    BY <1>p, <2>r, <2>2, <2>3, <1>q
  <2>5. Mover(r) = "oldHome" /\ Layout(r + 1)["oldHome"] = m.dst
    BY <2>r, <2>3 DEF Mover, Layout, Nodes, Trees, Boxes, ActiveHome, RollbackHome,
       ActiveAgent, RollbackAgent, NewAgent, RejectedAgent
  <2>6. BoxReady(m)
    BY <1>p, <2>2 DEF BoxReady, Present
  <2>7. i >= r
    BY <2>r
  <2>8. m.dst[1] \in {"home", "lib"}
    BY <2>3 DEF ActiveHome, ActiveAgent, RejectedAgent
  <2>9. i = r /\ Mover(r) \notin gone => Renamable(m)
    BY <1>p, <2>r, <2>4, <2>5, <2>8 DEF Renamable, Exists, Lost
  <2>10. /\ i = r + 1 /\ Mover(r) \notin gone => Renamed(m)
         /\ i = r + 1 => ~Exists(m.src)
         /\ Mover(r) \in gone => ~Exists(m.src) /\ ~Exists(m.dst) /\ gone = {"staging"}
    BY <1>p, <2>r, <2>4, <2>5 DEF Renamed, Exists, Lost
  <2>11. QED
    BY <1>p, <1>10, <2>r, <2>2, <2>4, <2>5, <2>6, <2>7, <2>9, <2>10 DEF MovesMade, Promoting, Lost
<1>11. CASE phase = "rollback-home-restored"
  <2>1. /\ m = Move("rollback-home-restored", "rollbackHomeBox", FALSE, BoxPlace.newAgentBox, RejectedAgent, "none", "rollback-trial-preserved")
    BY <1>11, CurrentMove
  <2>r. r = 15 /\ i \in {14, 15, 16}
    BY <1>11, <1>p DEF MovesMade, RenameOf
  <2>2. /\ m.box = "rollbackHomeBox" /\ m.wanted = FALSE /\ m.next = "rollback-trial-preserved"
        /\ m.src = BoxPlace.newAgentBox /\ m.dst = RejectedAgent
        /\ gone = {}
    BY <2>1, <2>r, <1>p, <1>11 DEF Move, Promoting
  <2>3. /\ m.src = <<"lib", "new">>
        /\ m.dst = RejectedAgent
    BY <1>p, <2>r, <2>2, <1>q DEF RestoreRoot, StagedHome, BoxPlace
  <2>4. /\ NodeAt(m.src) = IF i <= 15 THEN "newAgentBox" ELSE "none"
        /\ NodeAt(m.dst) = IF i = 16 THEN "newAgentBox" ELSE "none"
    BY <1>p, <2>r, <2>2, <2>3, <1>q
  <2>5. Mover(r) = "newAgentBox" /\ Layout(r + 1)["newAgentBox"] = m.dst
    BY <2>r, <2>3 DEF Mover, Layout, Nodes, Trees, Boxes, ActiveHome, RollbackHome,
       ActiveAgent, RollbackAgent, NewAgent, RejectedAgent
  <2>6. BoxReady(m) <=> i >= r
    <3>1. at["rollbackHomeBox"] = IF i > 14 THEN Nowhere ELSE <<"home", "rollback">>
      BY <1>p, <2>r, <2>2, Places
    <3>2. Present("rollbackHomeBox") <=> i < r
      BY <2>r, <3>1 DEF Present, Nowhere, Nodes, Trees, Boxes
    <3>3. BoxReady(m) <=> Present("rollbackHomeBox") = FALSE
      BY <2>2 DEF BoxReady
    <3>4. QED
      BY <2>r, <3>2, <3>3 DEF Present
  <2>7. ASSUME i < r
        PROVE  /\ m.box = Mover(i) /\ (m.wanted \/ Empty(m.box))
               /\ Layout(r)[Mover(i)] = IF m.wanted THEN BoxPlace[m.box] ELSE Nowhere
    <3>1. i = 14
      BY <2>r, <2>7
    <3>2. Empty("rollbackHomeBox")
      BY <1>p, <2>2, <3>1, Places DEF Empty, Nodes, Trees, Boxes, Nowhere, ActiveHome,
         RollbackHome, ActiveAgent, NewAgent, RejectedAgent
    <3>3. QED
      BY <2>r, <2>2, <3>1, <3>2 DEF Mover, Layout, Nodes, Trees, Boxes, BoxPlace
  <2>8. m.dst[1] \in {"home", "lib"}
    BY <2>3 DEF ActiveHome, ActiveAgent, RejectedAgent
  <2>9. i = r /\ Mover(r) \notin gone => Renamable(m)
    BY <1>p, <2>r, <2>4, <2>5, <2>8 DEF Renamable, Exists, Lost
  <2>10. /\ i = r + 1 /\ Mover(r) \notin gone => Renamed(m)
         /\ i = r + 1 => ~Exists(m.src)
         /\ Mover(r) \in gone => ~Exists(m.src) /\ ~Exists(m.dst) /\ gone = {"staging"}
    BY <1>p, <2>r, <2>4, <2>5 DEF Renamed, Exists, Lost
  <2>11. QED
    BY <1>p, <1>11, <2>r, <2>2, <2>4, <2>5, <2>6, <2>7, <2>9, <2>10 DEF MovesMade, Promoting, Lost
<1>12. QED
  BY <1>1, <1>2, <1>3, <1>4, <1>5, <1>6, <1>7, <1>8, <1>9, <1>10, <1>11, CurrentMove DEF Promoting, RollingBack

\* A step of a move makes the next move, or records that it was made; nothing
\* but an edited tree or a lost staging directory is in its way.
LEMMA MoveStep ==
    ASSUME NEW m \in Current, NEW i \in 0..16, NEW gone \in Lost, Underway(i, gone)
    PROVE  /\ PrepareBox(m) \/ Rename(m) => i < 16 /\ Underway(i + 1, gone)'
           /\ Checkpoint(m) => Underway(i, gone)'
           /\ Stuck(m) => gone = {"staging"} \/ ~Verified(m)
<1> DEFINE r == RenameOf(phase)
<1>p. /\ LaidOut(i, gone) /\ "none" \notin Nodes /\ i \in MovesMade(phase)
      /\ gone = {} \/ (gone = {"staging"} /\ phase \notin Promoting /\ i \in 9..11)
  BY DEF Underway, Nodes, Trees, Boxes
<1>f. /\ r \in 3..15 /\ i \in (r - 1)..(r + 1)
      /\ r + 1 \in MovesMade(m.next)
      /\ i <= r => i + 1 \in MovesMade(phase)
      /\ BoxReady(m) <=> i >= r
      /\ i < r => /\ m.box = Mover(i) /\ (m.wanted \/ Empty(m.box))
                  /\ Layout(r)[Mover(i)] =
                       IF m.wanted THEN BoxPlace[m.box] ELSE Nowhere
                  /\ gone = {}
      /\ i = r /\ Mover(r) \notin gone =>
           /\ NodeAt(m.src) = Mover(r) /\ m.dst = Layout(r + 1)[Mover(r)]
           /\ Renamable(m)
      /\ i = r + 1 /\ Mover(r) \notin gone => Renamed(m)
      /\ i = r + 1 => ~Exists(m.src)
      /\ Mover(r) \in gone => ~Exists(m.src) /\ ~Exists(m.dst) /\ gone = {"staging"}
      /\ m.next \notin Promoting \/ phase \in Promoting
  BY MoveFacts
<1> HIDE DEF r
<1>u. ASSUME UNCHANGED at PROVE LaidOut(i, gone)'
  BY <1>p, <1>u DEF LaidOut, Layout
<1>1. ASSUME PrepareBox(m) PROVE i < 16 /\ Underway(i + 1, gone)'
  <2>1. i < r /\ i + 1 = r /\ i \in 0..15 /\ gone = {}
    BY <1>f, <1>1 DEF PrepareBox
  <2>2. /\ at' = [at EXCEPT ![m.box] = IF m.wanted THEN BoxPlace[m.box] ELSE Nowhere]
        /\ phase' = phase
    BY <1>1 DEF PrepareBox
  <2>3. /\ m.box = Mover(i)
        /\ (IF m.wanted THEN BoxPlace[m.box] ELSE Nowhere) = Layout(i + 1)[Mover(i)]
    BY <1>f, <2>1
  <2>4. at' = [at EXCEPT ![Mover(i)] = Layout(i + 1)[Mover(i)]]
    BY <2>2, <2>3
  <2>5. LaidOut(i + 1, gone)'
    BY <1>p, <2>1, <2>4, NextMove
  <2>6. i + 1 \in MovesMade(phase')
    BY <1>f, <2>1, <2>2
  <2>7. QED
    BY <2>1, <2>5, <2>6 DEF Underway
<1>2. ASSUME Rename(m) PROVE i < 16 /\ Underway(i + 1, gone)'
  <2>1. i = r /\ i \in 0..15 /\ Mover(i) \notin gone
    BY <1>f, <1>2 DEF Rename, Renamable
  <2>2. at' = [at EXCEPT ![Mover(i)] = Layout(i + 1)[Mover(i)]]
    BY <1>f, <1>2, <2>1 DEF Rename
  <2>3. LaidOut(i + 1, gone)'
    BY <1>p, <2>1, <2>2, NextMove
  <2>4. phase' = phase /\ i + 1 \in MovesMade(phase')
    BY <1>f, <1>2, <2>1 DEF Rename
  <2>5. gone # {} => i + 1 \in 9..11
    BY <1>p, <2>1 DEF Mover
  <2>6. gone = {} \/ (gone = {"staging"} /\ phase' \notin Promoting /\ i + 1 \in 9..11)
    BY <1>p, <2>4, <2>5
  <2>7. QED
    BY <2>1, <2>3, <2>4, <2>6 DEF Underway, Promoting
<1>3. ASSUME Checkpoint(m) PROVE Underway(i, gone)'
  <2>1. i = r + 1 /\ phase' = m.next /\ LaidOut(i, gone)'
    BY <1>f, <1>u, <1>3 DEF Checkpoint, Renamed, Renamable
  <2>2. i \in MovesMade(phase')
    BY <1>f, <2>1
  <2>3. gone = {} \/ (gone = {"staging"} /\ phase' \notin Promoting /\ i \in 9..11)
    BY <1>p, <1>f, <2>1
  <2>4. QED
    BY <2>1, <2>2, <2>3 DEF Underway, MovesMade, Promoting
<1>4. ASSUME Stuck(m), gone # {"staging"} PROVE ~Verified(m)
  <2>1. gone = {} /\ Mover(r) \notin gone
    BY <1>p, <1>4
  <2>2. CASE i < r
    BY <1>f, <1>4, <2>2 DEF Stuck
  <2>3. CASE i >= r
    BY <1>f, <1>4, <2>1, <2>3 DEF Stuck
  <2>4. QED
    BY <1>f, <2>2, <2>3
<1>5. QED
  BY <1>1, <1>2, <1>3, <1>4
-----------------------------------------------------------------------------
(* Every step keeps the invariant. *)

\* A step that moves nothing keeps the layout.
LEMMA SameLayout ==
    ASSUME UNCHANGED at, NEW i, NEW gone
    PROVE  LaidOut(i, gone)' <=> LaidOut(i, gone)
BY DEF LaidOut, Layout

\* A journal's phase is of one kind.
LEMMA PhaseKinds ==
    /\ Phases = {"none", "promoted"} \union Promoting \union RollingBack \union Committing
    /\ \A ph \in Promoting : ph \notin ({"none", "promoted"} \union RollingBack \union Committing)
    /\ \A ph \in RollingBack : ph \notin ({"none", "promoted"} \union Committing)
    /\ \A ph \in Committing : ph \notin {"none", "promoted"}
BY DEF Phases, Promoting, RollingBack, Committing

\* The moves made number at most 16; a trial and the rollback come after the ninth.
LEMMA MovesMadeRange ==
    /\ \A ph \in Promoting : MovesMade(ph) \subseteq 2..9
    /\ \A ph \in {"promoted"} \union RollingBack : MovesMade(ph) \subseteq 9..16
    /\ MovesMade("promoted") = 9..10
    /\ MovesMade("rollback-trial-preserved") = {16}
    /\ 2 \in MovesMade("prepared")
<1>1. \A ph \in Promoting : MovesMade(ph) \subseteq 2..9
  BY DEF MovesMade, Promoting
<1>2. \A ph \in {"promoted"} \union RollingBack : MovesMade(ph) \subseteq 9..16
  BY DEF MovesMade, RollingBack
<1>3. /\ MovesMade("promoted") = 9..10
      /\ MovesMade("rollback-trial-preserved") = {16}
      /\ MovesMade("prepared") = 2..4
  BY DEF MovesMade
<1>4. QED
  BY <1>1, <1>2, <1>3

\* Before the first promotion no move has been made.
LEMMA InitHolds == Init => IInv
<1> SUFFICES ASSUME Init PROVE IInv
  OBVIOUS
<1>1. TypeOK
  BY DEF Init, TypeOK, Phases, Nodes, Trees, Boxes, ActiveHome, ActiveAgent, Nowhere
<1>2. LaidOut(0, {})
  BY DEF Init, LaidOut, Layout, Nodes, Trees, Boxes
<1>3. Preparing
  <2>1. /\ \A t \in Trees : content[t] = "planned"
        /\ "newAgent" \in Trees /\ backup = "staged" /\ system = "recovery" /\ ~refused
    BY DEF Init, Trees
  <2>2. QED
    BY <1>2, <2>1 DEF Preparing
<1>4. QED
  BY <1>1, <1>3 DEF Init, IInv, RestInv, PromotionInv, TrialInv, CommitInv,
     RefusedOnlyWhenDisturbed, Promoting, RollingBack, Committing

\* The types, action by action.
LEMMA TypeStep == TypeOK /\ [Next]_vars => TypeOK'
<1> SUFFICES ASSUME TypeOK, [Next]_vars PROVE TypeOK'
  OBVIOUS
<1> DEFINE Names == {"none", "echo", "echo-agent", "rollback", "new", "rejected",
                     "staging", "home"}
           Dirs == {"home", "lib", "none"} \union Nodes
<1>p. \A place : NodeAt(place) \in Dirs
  <2>1. \A place : NodeAt(place) \in Nodes \/ NodeAt(place) = "none"
    BY DEF NodeAt
  <2>2. QED
    BY <2>1
<1>q. Nowhere \in Dirs \X Names /\ \A b \in Boxes : BoxPlace[b] \in Dirs \X Names
  BY DEF Nowhere, BoxPlace, Boxes
<1>r. \A b, v : v \in Dirs \X Names => [at EXCEPT ![b] = v] \in [Nodes -> Dirs \X Names]
  BY DEF TypeOK
<1>s. NewAgent \in Dirs \X Names
  BY DEF NewAgent, Nodes, Boxes
<1>1. \A box \in Boxes : Erase(box) \/ EraseInterrupted(box) => TypeOK'
  BY <1>q DEF Erase, EraseInterrupted, TypeOK, Operations
<1>2. MakeCopyBox \/ BeginCopy \/ FinishCopy \/ Journal \/ Promoted => TypeOK'
  <2>1. MakeCopyBox => TypeOK'
    BY <1>q, <1>r DEF MakeCopyBox, TypeOK, Boxes
  <2>2. BeginCopy => TypeOK'
    <3>1. BeginCopy => at' \in [Nodes -> Dirs \X Names]
      BY <1>r, <1>s DEF BeginCopy
    <3>2. QED
      BY <3>1 DEF BeginCopy, TypeOK
  <2>3. FinishCopy \/ Journal \/ Promoted => TypeOK'
    BY DEF FinishCopy, Journal, Promoted, TypeOK, Phases, Promoting, Operations
  <2>4. QED
    BY <2>1, <2>2, <2>3
<1>3. ASSUME NEW m \in Current, PrepareBox(m) \/ Rename(m) \/ Checkpoint(m) PROVE TypeOK'
  <2>1. /\ m.next \in Phases /\ m.dst \in Dirs \X Names
        /\ m.box \in Boxes \/ m.box = "none"
    <3>1. CASE m \in PromotionMoves
      BY <1>p, <3>1 DEF PromotionMoves, Move, Phases, Promoting, Boxes, Nodes, ActiveHome,
         RollbackHome, ActiveAgent, RollbackAgent, NewAgent, RestoreRoot, StagedHome
    <3>2. CASE m \in RollbackMoves
      BY <1>p, <3>2 DEF RollbackMoves, Move, Phases, RollingBack, Boxes, Nodes, ActiveHome,
         RollbackHome, ActiveAgent, RollbackAgent, NewAgent, RejectedAgent, RestoreRoot,
         StagedHome, BoxPlace
    <3>3. QED
      BY <3>1, <3>2 DEF Current
  <2>2. CASE PrepareBox(m)
    <3>1. m.box = "none" => at' = at
      BY <2>2 DEF PrepareBox, TypeOK, Nodes, Trees, Boxes
    <3>2. m.box \in Boxes => at' \in [Nodes -> Dirs \X Names]
      BY <1>q, <1>r, <2>2 DEF PrepareBox
    <3>3. QED
      BY <2>1, <2>2, <3>1, <3>2 DEF PrepareBox, TypeOK
  <2>3. CASE Rename(m)
    <3>1. at' \in [Nodes -> Dirs \X Names]
      BY <1>r, <2>1, <2>3 DEF Rename
    <3>2. QED
      BY <2>3, <3>1 DEF Rename, TypeOK
  <2>4. CASE Checkpoint(m)
    BY <2>1, <2>4 DEF Checkpoint, TypeOK
  <2>5. QED
    BY <1>3, <2>2, <2>3, <2>4
<1>4. Authorize \/ Erased => TypeOK'
  BY DEF Authorize, Erased, TypeOK, Phases, Committing
<1>5. \A action \in {"rolled-back", "committed"} :
        RecordAction(action) \/ RemoveJournal(action) => TypeOK'
  BY DEF RecordAction, RemoveJournal, TypeOK, Phases
<1>6. Refuse \/ Crash \/ BootDesktop \/ BootRecovery => TypeOK'
  BY DEF Refuse, Crash, BootDesktop, BootRecovery, TypeOK
<1>7. \A op \in Operations : Start(op) => TypeOK'
  BY DEF Start, TypeOK
<1>8. Trial \/ Backup \/ LoseStaging => TypeOK'
  <2>1. Trial \/ Backup => TypeOK'
    BY DEF Trial, Backup, TypeOK
  <2>2. LoseStaging => TypeOK'
    BY <1>q, <1>r DEF LoseStaging, TypeOK
  <2>3. QED
    BY <2>1, <2>2
<1>9. UNCHANGED vars => TypeOK'
  BY DEF vars, TypeOK
<1>10. QED
  BY <1>1, <1>2, <1>3, <1>4, <1>5, <1>6, <1>7, <1>8, <1>9 DEF Next, Work

\* Most steps move no directory.
LEMMA StartStep == ASSUME IInv, NEW op \in Operations, Start(op) PROVE IInv'
<1> USE PhaseKinds, SameLayout DEF Start
<1>1. TypeOK'
  BY TypeStep DEF IInv, Next
<1>2. CASE phase = "none"
  <2>1. op = "promote" /\ backup = "staged"
    BY <1>2 DEF Admits, Operations, Plannable, Promoting, RollingBack, Committing
  <2>2. Preparing
    BY <1>2, <2>1 DEF IInv, RestInv, RolledBack, Committed
  <2>3. Preparing'
    BY <2>1, <2>2 DEF Preparing
  <2>4. QED
    BY <1>1, <1>2, <2>3 DEF IInv, RestInv, PromotionInv, TrialInv, CommitInv,
       RefusedOnlyWhenDisturbed, Disturbed, Present
<1>3. CASE phase \in Promoting
  <2>1. op \in {"promote", "rollback"}
    BY <1>3 DEF Admits, Operations
  <2>2. PromotionInv'
    BY <1>3, <2>1 DEF IInv, PromotionInv
  <2>3. QED
    BY <1>1, <1>3, <2>2 DEF IInv, RestInv, TrialInv, CommitInv,
       RefusedOnlyWhenDisturbed, Disturbed, Present
<1>4. CASE phase \in {"promoted"} \union RollingBack
  <2>1. op = "rollback" \/ (op = "commit" /\ phase = "promoted")
    BY <1>4 DEF Admits, Operations
  <2>2. PICK i \in MovesMade(phase) :
             /\ LaidOut(i, {}) \/ (i < 12 /\ LaidOut(i, {"staging"}))
             /\ system = "desktop" => i = 9
             /\ system = "commit" /\ i = 10 => MayChangeMind
    BY <1>4 DEF IInv, TrialInv
  <2>3. op = "commit" /\ i = 10 => MayChangeMind
    <3>1. ASSUME op = "commit", i = 10 PROVE Exists(NewAgent)
      BY <2>2, <3>1, Paths DEF Lost, Exists
    <3>2. QED
      BY <2>1, <3>1 DEF CutShort
  <2>4. TrialInv'
    BY <1>4, <2>1, <2>2, <2>3 DEF IInv, TrialInv
  <2>5. QED
    BY <1>1, <1>4, <2>4 DEF IInv, RestInv, PromotionInv, CommitInv,
       RefusedOnlyWhenDisturbed, Disturbed, Present
<1>5. CASE phase \in Committing
  <2>1. op = "commit"
    BY <1>5 DEF Admits, Operations
  <2>2. CommitInv'
    BY <1>5, <2>1 DEF IInv, CommitInv
  <2>3. QED
    BY <1>1, <1>5, <2>2 DEF IInv, RestInv, PromotionInv, TrialInv,
       RefusedOnlyWhenDisturbed, Disturbed, Present
<1>6. QED
  BY <1>2, <1>3, <1>4, <1>5 DEF IInv, TypeOK

\* While the copy is made nothing else has begun.
LEMMA PrepareStep ==
    ASSUME IInv, MakeCopyBox \/ BeginCopy \/ FinishCopy \/ Journal
    PROVE  IInv'
<1> USE PhaseKinds, SameLayout
<1>1. TypeOK'
  BY TypeStep DEF IInv, Next, Work
<1>2. phase = "none"
  BY DEF IInv, TypeOK, PromotionInv, TrialInv, CommitInv, MakeCopyBox, BeginCopy, FinishCopy,
     Journal
<1>3. PICK i \in 0..2 :
       /\ LaidOut(i, {})
       /\ \A t \in Trees \ {"newAgent"} : content[t] = "planned"
       /\ content["newAgent"] \in {"planned", "partial"}
       /\ i < 2 => ~refused /\ content["newAgent"] = "planned"
       /\ system = "copy" => i = 2 /\ ~refused /\ content["newAgent"] = "partial"
       /\ backup = "staged"
  BY <1>2 DEF IInv, RestInv, RolledBack, Committed, Preparing, MakeCopyBox, BeginCopy,
     FinishCopy, Journal
<1>4. CASE MakeCopyBox
  <2>1. i = 0
    BY <1>3, <1>4, Places DEF MakeCopyBox, Present, Nowhere, Nodes, Boxes
  <2>2. LaidOut(1, {})'
    <3>1. at' = [at EXCEPT ![Mover(0)] = Layout(0 + 1)[Mover(0)]]
      BY <1>4 DEF MakeCopyBox, Mover, Layout, Nodes, Boxes
    <3>2. LaidOut(0 + 1, {})'
      BY <1>3, <2>1, <3>1, NextMove
    <3>3. QED
      BY <3>2
  <2>3. Preparing'
    BY <1>3, <1>4, <2>1, <2>2 DEF MakeCopyBox, Preparing
  <2>4. QED
    BY <1>1, <1>2, <1>3, <1>4, <2>1, <2>3 DEF MakeCopyBox, IInv, RestInv, PromotionInv, TrialInv,
       CommitInv, RefusedOnlyWhenDisturbed
<1>5. CASE BeginCopy
  <2>1. i = 1
    <3>1. i # 0
      BY <1>3, <1>5, Places DEF BeginCopy, Present
    <3>2. i # 2
      BY <1>3, <1>5, Paths DEF BeginCopy, Exists, Lost
    <3>3. QED
      BY <3>1, <3>2
  <2>2. LaidOut(2, {})'
    <3>1. at' = [at EXCEPT ![Mover(1)] = Layout(1 + 1)[Mover(1)]]
      BY <1>5 DEF BeginCopy, Mover, Layout, Nodes, Trees
    <3>2. LaidOut(1 + 1, {})'
      BY <1>3, <2>1, <3>1, NextMove
    <3>3. QED
      BY <3>2
  <2>3. /\ \A t \in Trees \ {"newAgent"} : content'[t] = "planned"
        /\ content'["newAgent"] = "partial"
    BY <1>3, <1>5 DEF BeginCopy, IInv, TypeOK, Trees
  <2>4. Preparing'
    BY <1>3, <1>5, <2>1, <2>2, <2>3 DEF BeginCopy, Preparing
  <2>5. QED
    BY <1>1, <1>2, <1>3, <1>5, <2>1, <2>4 DEF BeginCopy, IInv, RestInv, PromotionInv, TrialInv,
       CommitInv, RefusedOnlyWhenDisturbed
<1>6. CASE FinishCopy
  <2>1. /\ \A t \in Trees \ {"newAgent"} : content'[t] = "planned"
        /\ content'["newAgent"] = "planned"
    BY <1>3, <1>6 DEF FinishCopy, IInv, TypeOK, Trees
  <2>2. Preparing'
    BY <1>3, <1>6, <2>1 DEF FinishCopy, Preparing
  <2>3. QED
    BY <1>1, <1>2, <1>3, <1>6, <2>2 DEF FinishCopy, IInv, RestInv, PromotionInv, TrialInv,
       CommitInv, RefusedOnlyWhenDisturbed
<1>7. CASE Journal
  <2>1. i = 2
    BY <1>3, <1>7, Paths DEF Journal, Exists, Lost
  <2>2. \A t \in Trees : content'[t] = "planned"
    BY <1>3, <1>7 DEF Journal
  <2>3. PromotionInv'
    BY <1>3, <1>7, <2>1, <2>2, MovesMadeRange DEF Journal, PromotionInv
  <2>4. phase' \in Promoting
    BY <1>7 DEF Journal, Promoting
  <2>5. QED
    BY <1>1, <1>7, <2>3, <2>4 DEF Journal, IInv, RestInv, TrialInv, CommitInv,
       RefusedOnlyWhenDisturbed, Disturbed, Present
<1>8. QED
  BY <1>4, <1>5, <1>6, <1>7

\* The moves of an operation.
LEMMA CurrentStep ==
    ASSUME IInv, NEW m \in Current, PrepareBox(m) \/ Rename(m) \/ Checkpoint(m)
    PROVE  IInv'
<1> USE PhaseKinds
<1>1. TypeOK'
  BY TypeStep DEF IInv, Next, Work
<1>c. /\ system \in {"promote", "rollback"} /\ m.phase = phase
      /\ phase \in Promoting
           \/ (system = "rollback" /\ phase \in {"promoted"} \union RollingBack)
      /\ phase # "rollback-trial-preserved"
  BY CurrentMove
<1>u. /\ UNCHANGED <<content, backup, system, refused>>
      /\ phase' = phase \/ phase' = m.next
  BY DEF PrepareBox, Rename, Checkpoint
<1>2. PICK i \in 0..16, gone \in Lost : Underway(i, gone)
  <2>1. CASE phase \in Promoting
    BY <2>1, MovesMadeRange DEF IInv, PromotionInv, Underway, Lost
  <2>2. CASE phase \in {"promoted"} \union RollingBack
    <3>1. PICK i \in MovesMade(phase) :
             LaidOut(i, {}) \/ (i < 12 /\ LaidOut(i, {"staging"}))
      BY <2>2 DEF IInv, TrialInv
    <3>2. i \in 9..16 /\ i \in 0..16
      BY <2>2, <3>1, MovesMadeRange
    <3>3. Underway(i, {}) \/ Underway(i, {"staging"})
      BY <2>2, <3>1, <3>2 DEF Underway
    <3>4. QED
      BY <3>2, <3>3 DEF Lost
  <2>3. QED
    BY <1>c, <2>1, <2>2
<1>3. PICK j \in 0..16 : Underway(j, gone)'
  BY <1>2, MoveStep
<1>4. /\ j \in MovesMade(phase') /\ LaidOut(j, gone)'
      /\ gone = {} \/ (gone = {"staging"} /\ phase' \notin Promoting /\ j \in 9..11)
  BY <1>3 DEF Underway, Promoting
<1>5. /\ m.next \in Promoting \union {"promoted"} \union RollingBack
      /\ phase \notin Promoting => m.next \in RollingBack
      /\ phase \in Promoting => m.next \in Promoting \union {"promoted"}
  BY <1>c DEF Current, PromotionMoves, RollbackMoves, Move, Promoting, RollingBack
<1>6. RefusedOnlyWhenDisturbed'
  <2>1. ASSUME refused PROVE Disturbed'
    <3>1. Disturbed
      BY <2>1 DEF IInv, RefusedOnlyWhenDisturbed
    <3>2. CASE backup = "other"
      BY <1>u, <3>2 DEF Disturbed
    <3>3. CASE content["newAgent"] = "partial"
      BY <1>u, <3>3 DEF Disturbed
    <3>4. CASE ~Present("staging")
      <4>1. gone = {"staging"}
        BY <1>2, <3>4, Places DEF Underway, Lost, Present, Nowhere, Nodes
      <4>2. at'["staging"] = Nowhere
        BY <1>4, <4>1 DEF LaidOut, Nodes
      <4>3. QED
        BY <4>2 DEF Disturbed, Present
    <3>5. QED
      BY <3>1, <3>2, <3>3, <3>4 DEF Disturbed
  <2>2. QED
    BY <1>u, <2>1 DEF RefusedOnlyWhenDisturbed
<1>7. CASE phase' \in Promoting
  <2>1. phase \in Promoting
    BY <1>c, <1>u, <1>5, <1>7
  <2>2. gone = {}
    BY <1>4, <1>7
  <2>3. PromotionInv'
    BY <1>c, <1>u, <1>4, <2>1, <2>2 DEF IInv, PromotionInv
  <2>4. QED
    BY <1>1, <1>6, <1>7, <2>3 DEF IInv, RestInv, TrialInv, CommitInv
<1>8. CASE phase' \in {"promoted"} \union RollingBack
  <2>1. LaidOut(j, {})' \/ (j < 12 /\ LaidOut(j, {"staging"})')
    BY <1>4
  <2>2. system' \in {"promote", "rollback"} /\ (phase' # "promoted" => system' = "rollback")
    BY <1>c, <1>u, <1>5, <1>8
  <2>3. content'["newAgent"] # "partial" /\ backup' \in {"staged", "other"}
    <3>1. CASE phase \in Promoting
      BY <1>u, <3>1 DEF IInv, PromotionInv, Trees
    <3>2. CASE phase \in {"promoted"} \union RollingBack
      BY <1>c, <1>u, <3>2 DEF IInv, TrialInv
    <3>3. QED
      BY <1>c, <3>1, <3>2
  <2>4. TrialInv'
    BY <1>4, <2>1, <2>2, <2>3 DEF TrialInv
  <2>5. QED
    BY <1>1, <1>6, <1>8, <2>4 DEF IInv, RestInv, PromotionInv, CommitInv
<1>9. QED
  BY <1>c, <1>u, <1>5, <1>7, <1>8

\* Nothing stops an operation but what happened outside the transaction, or an
\* incomplete copy found before its journal.
LEMMA RefuseStep == ASSUME IInv, Refuse PROVE IInv'
<1> USE PhaseKinds, SameLayout
<1>1. TypeOK'
  BY TypeStep DEF IInv, Next, Work
<1>u. /\ UNCHANGED <<phase, at, content, backup>>
      /\ system' = "recovery" /\ refused' = TRUE
  BY DEF Refuse
<1>2. ASSUME NEW m \in Current, Stuck(m) PROVE Disturbed /\ phase # "none"
  <2>c. /\ phase \in Promoting \/ phase \in {"promoted"} \union RollingBack
        /\ phase # "none"
    BY CurrentMove
  <2>1. CASE phase \in Promoting
    <3>1. PICK i \in MovesMade(phase) : LaidOut(i, {})
      BY <2>1 DEF IInv, PromotionInv
    <3>2. i \in 0..16 /\ {} \in Lost /\ Underway(i, {})
      BY <2>1, <3>1, MovesMadeRange DEF Underway, Lost
    <3>3. Verified(m)
      BY <2>1 DEF IInv, PromotionInv, Verified
    <3>4. QED
      BY <1>2, <3>2, <3>3, MoveStep
  <2>2. CASE phase \in {"promoted"} \union RollingBack
    <3>1. PICK i \in MovesMade(phase) :
             LaidOut(i, {}) \/ (i < 12 /\ LaidOut(i, {"staging"}))
      BY <2>2 DEF IInv, TrialInv
    <3>2. i \in 9..16 /\ i \in 0..16
      BY <2>2, <3>1, MovesMadeRange
    <3>3. PICK gone \in Lost : Underway(i, gone)
      <4>1. Underway(i, {}) \/ Underway(i, {"staging"})
        BY <2>2, <3>1, <3>2 DEF Underway
      <4>2. QED
        BY <4>1 DEF Lost
    <3>4. Verified(m)
      <4>1. m \in RollbackMoves
        BY <2>2 DEF Current, PromotionMoves, Move, Promoting
      <4>2. m.tree = "none"
        BY <4>1 DEF RollbackMoves, Move
      <4>3. QED
        BY <4>2 DEF Verified, Trees
    <3>5. gone = {"staging"}
      BY <1>2, <3>2, <3>3, <3>4, MoveStep
    <3>6. at["staging"] = Nowhere
      BY <3>3, <3>5 DEF Underway, LaidOut, Nodes
    <3>7. QED
      BY <2>c, <3>6 DEF Disturbed, Present
  <2>3. QED
    BY <2>c, <2>1, <2>2
<1>3. ASSUME NEW action \in {"rolled-back", "committed"},
             Ending(action), backup \notin {"staged", action}
      PROVE  Disturbed /\ phase # "none"
  <2>1. CASE phase = "rollback-trial-preserved" /\ action = "rolled-back"
    BY <1>3, <2>1 DEF IInv, TrialInv, RollingBack, Disturbed
  <2>2. CASE phase = "commit-old-removed" /\ action = "committed"
    BY <1>3, <2>2 DEF IInv, CommitInv, Committing, Disturbed
  <2>3. QED
    BY <1>3, <2>1, <2>2 DEF Ending
<1>4. ASSUME system = "promote", phase = "none", Exists(NewAgent),
             content["newAgent"] # "planned"
      PROVE  Disturbed /\ LaidOut(2, {}) /\ Preparing
  <2>1. Preparing
    BY <1>4 DEF IInv, RestInv, RolledBack, Committed
  <2>2. PICK i \in 0..2 : LaidOut(i, {}) /\ (i < 2 => content["newAgent"] = "planned")
    BY <2>1 DEF Preparing
  <2>3. content["newAgent"] = "partial"
    BY <1>4, <2>1 DEF Preparing
  <2>4. QED
    BY <1>4, <2>1, <2>2, <2>3 DEF Disturbed
<1>5. Disturbed /\ (phase = "none" => Preparing /\ LaidOut(2, {}))
  BY <1>2, <1>3, <1>4 DEF Refuse
<1>6. RefusedOnlyWhenDisturbed'
  BY <1>u, <1>5 DEF RefusedOnlyWhenDisturbed, Disturbed, Present
<1>7. CASE phase = "none"
  <2>1. Preparing'
    BY <1>u, <1>5, <1>7 DEF Preparing
  <2>2. QED
    BY <1>1, <1>u, <1>6, <1>7, <2>1 DEF IInv, RestInv, PromotionInv, TrialInv, CommitInv
<1>8. CASE phase \in Promoting
  <2>1. PromotionInv'
    BY <1>u, <1>8 DEF IInv, PromotionInv
  <2>2. QED
    BY <1>1, <1>u, <1>6, <1>8, <2>1 DEF IInv, RestInv, TrialInv, CommitInv
<1>9. CASE phase \in {"promoted"} \union RollingBack
  <2>1. TrialInv'
    BY <1>u, <1>9 DEF IInv, TrialInv
  <2>2. QED
    BY <1>1, <1>u, <1>6, <1>9, <2>1 DEF IInv, RestInv, PromotionInv, CommitInv
<1>10. CASE phase \in Committing
  <2>1. CommitInv'
    BY <1>u, <1>10 DEF IInv, CommitInv
  <2>2. QED
    BY <1>1, <1>u, <1>6, <1>10, <2>1 DEF IInv, RestInv, PromotionInv, TrialInv
<1>11. QED
  BY <1>7, <1>8, <1>9, <1>10 DEF IInv, TypeOK

\* The container a commit removes after k others.
NextBox(k) == IF k = 0 THEN "rollbackHomeBox"
              ELSE IF k = 1 THEN "rollbackAgentBox" ELSE "newAgentBox"

\* What a commit finds: the trial's trees are under none of the containers it
\* removes, except for a saved agent.
LEMMA UnderBox ==
    ASSUME NEW i \in 9..10, NEW lost \in Lost, NEW k \in 0..2,
           LaidOut(i, Gone(i, k) \union lost)
    PROVE  /\ Gone(i, k + 1) = Gone(i, k) \union Under(NextBox(k))
           /\ i = 9 => "newAgent" \notin Under(NextBox(k))
           /\ "staging" \notin Under(NextBox(k))
<1> USE DEF Nodes, Trees, Boxes, NextBox
<1>p. /\ at["newHome"] = ActiveHome
      /\ "newAgentBox" \notin Gone(i, k) => at["newAgentBox"] = <<"lib", "new">>
      /\ "newAgent" \notin Gone(i, k) => at["newAgent"] = IF i = 9 THEN ActiveAgent ELSE NewAgent
      /\ "rollbackHomeBox" \notin Gone(i, k) => at["rollbackHomeBox"] = <<"home", "rollback">>
      /\ "oldHome" \notin Gone(i, k) => at["oldHome"] = RollbackHome
      /\ "rollbackAgentBox" \notin Gone(i, k) => at["rollbackAgentBox"] = <<"lib", "rollback">>
      /\ "oldAgent" \notin Gone(i, k) => at["oldAgent"] = RollbackAgent
      /\ at["staging"] = Nowhere \/ at["staging"] = <<"newHome", "staging">>
      /\ \A n \in Gone(i, k) : at[n] = Nowhere
  <2>1. Gone(i, k) \subseteq Nodes \ {"newHome", "staging"} /\ lost \subseteq {"staging"}
    BY DEF Gone, Lost
  <2>2. at = [n \in Nodes |-> IF n \in Gone(i, k) \union lost THEN Nowhere ELSE Layout(i)[n]]
    BY DEF LaidOut
  <2>3. \A n \in Nodes : n \notin Gone(i, k) /\ n # "staging" => at[n] = Layout(i)[n]
    BY <2>1, <2>2
  <2>4. /\ Layout(i)["newHome"] = ActiveHome /\ Layout(i)["newAgentBox"] = <<"lib", "new">>
        /\ Layout(i)["newAgent"] = IF i = 9 THEN ActiveAgent ELSE NewAgent
        /\ Layout(i)["rollbackHomeBox"] = <<"home", "rollback">>
        /\ Layout(i)["oldHome"] = RollbackHome
        /\ Layout(i)["rollbackAgentBox"] = <<"lib", "rollback">>
        /\ Layout(i)["oldAgent"] = RollbackAgent
        /\ Layout(i)["staging"] = <<"newHome", "staging">>
    BY DEF Layout, BoxPlace
  <2>5. at["staging"] = Nowhere \/ at["staging"] = <<"newHome", "staging">>
    BY <2>2, <2>4
  <2>6. \A n \in Gone(i, k) : at[n] = Nowhere
    BY <2>1, <2>2
  <2>7. QED
    BY <2>1, <2>3, <2>4, <2>5, <2>6
<1> USE DEF ActiveHome, RollbackHome, ActiveAgent, RollbackAgent, NewAgent, Nowhere
<1>1. CASE k = 0
  <2>1. Gone(i, k) = {}
    BY <1>1 DEF Gone
  <2>2. Under(NextBox(k)) = {"rollbackHomeBox", "oldHome"}
    BY <1>p, <1>1, <2>1 DEF Under
  <2>3. QED
    BY <1>1, <2>1, <2>2 DEF Gone
<1>2. CASE k = 1
  <2>1. Gone(i, k) = {"rollbackHomeBox", "oldHome"}
    BY <1>2 DEF Gone
  <2>2. Under(NextBox(k)) = {"rollbackAgentBox", "oldAgent"}
    BY <1>p, <1>2, <2>1 DEF Under
  <2>3. QED
    BY <1>2, <2>1, <2>2 DEF Gone
<1>3. CASE k = 2
  <2>1. Gone(i, k) = {"rollbackHomeBox", "oldHome", "rollbackAgentBox", "oldAgent"}
    BY <1>3 DEF Gone
  <2>2. CASE i = 9
    <3>1. Under(NextBox(k)) = {"newAgentBox"}
      BY <1>p, <1>3, <2>1, <2>2 DEF Under
    <3>2. QED
      BY <1>3, <2>1, <2>2, <3>1 DEF Gone
  <2>3. CASE i = 10
    <3>1. Under(NextBox(k)) = {"newAgentBox", "newAgent"}
      BY <1>p, <1>3, <2>1, <2>3 DEF Under
    <3>2. QED
      BY <1>3, <2>1, <2>3, <3>1 DEF Gone
  <2>4. QED
    BY <2>2, <2>3
<1>4. QED
  BY <1>1, <1>2, <1>3

\* A commit removes the containers in their order.
LEMMA CommitNext ==
    ASSUME CommitInv, NEW box \in Boxes, Present(box), Erasable(box)
    PROVE  \E i \in 9..10, lost \in Lost, k \in 0..2 :
             /\ k \in BoxesGone(phase) /\ k + 1 \in BoxesGone(phase)
             /\ LaidOut(i, Gone(i, k) \union lost)
             /\ i = 10 => MayChangeMind
             /\ i = 9 => content["newAgent"] # "partial"
             /\ box = NextBox(k)
<1>c. phase \in {"commit-authorized", "commit-home-removed"}
  BY DEF Erasable
<1>1. PICK i \in 9..10, lost \in Lost, k \in BoxesGone(phase) :
             /\ LaidOut(i, Gone(i, k) \union lost)
             /\ i = 10 => MayChangeMind
             /\ i = 9 => content["newAgent"] # "partial"
  BY <1>c DEF CommitInv, Committing
<1>2. \A n \in Gone(i, k) \intersect Nodes : at[n] = Nowhere
  BY <1>1 DEF LaidOut
<1>3. k \in 0..3
  BY <1>c DEF BoxesGone
<1>4. \A n \in Gone(i, k) : ~Present(n)
  BY <1>2 DEF Present
<1>5. /\ k >= 1 => ~Present("rollbackHomeBox")
      /\ k >= 2 => ~Present("rollbackAgentBox")
      /\ k = 3 => ~Present("newAgentBox")
  BY <1>3, <1>4 DEF Gone
<1>6. k < 2 => Present("rollbackAgentBox")
  <2>1. ASSUME k < 2 PROVE at["rollbackAgentBox"] = <<"lib", "rollback">>
    BY <1>1, <1>3, <2>1 DEF LaidOut, Layout, Gone, Lost, Nodes, Boxes, BoxPlace
  <2>2. QED
    BY <2>1 DEF Present, Nowhere, Nodes, Boxes
<1>7. CASE phase = "commit-authorized"
  <2>1. box = "rollbackHomeBox" /\ k = 0 /\ 0 \in BoxesGone(phase) /\ 1 \in BoxesGone(phase)
    BY <1>5, <1>7 DEF Erasable, BoxesGone
  <2>2. /\ k \in 0..2 /\ k + 1 \in BoxesGone(phase)
        /\ box = NextBox(k)
    BY <2>1 DEF NextBox
  <2>3. QED
    BY <1>1, <2>2
<1>8. CASE phase = "commit-home-removed"
  <2>1. /\ k \in 1..3 /\ BoxesGone(phase) = 1..3
        /\ box = "rollbackAgentBox" \/ (box = "newAgentBox" /\ ~Present("rollbackAgentBox"))
    BY <1>8 DEF Erasable, BoxesGone
  <2>2. /\ k \in 0..2 /\ k + 1 \in BoxesGone(phase)
        /\ box = NextBox(k)
    BY <1>5, <1>6, <2>1 DEF NextBox
  <2>3. QED
    BY <1>1, <2>2
<1>9. QED
  BY <1>c, <1>7, <1>8

\* Removing a container, or being interrupted in it, leaves the layout of the next
\* or of the same number of containers gone.
LEMMA EraseStep ==
    ASSUME IInv, NEW box \in Boxes, Erase(box) \/ EraseInterrupted(box)
    PROVE  IInv'
<1> USE PhaseKinds
<1>1. TypeOK'
  BY TypeStep DEF IInv, Next, Work
<1>c. system = "commit" /\ Present(box) /\ Erasable(box) /\ phase \in Committing
  BY DEF Erase, EraseInterrupted, Erasable, Committing
<1>2. PICK i \in 9..10, lost \in Lost, k \in 0..2 :
             /\ k \in BoxesGone(phase) /\ k + 1 \in BoxesGone(phase)
             /\ LaidOut(i, Gone(i, k) \union lost)
             /\ i = 10 => MayChangeMind
             /\ i = 9 => content["newAgent"] # "partial"
             /\ box = NextBox(k)
  BY <1>c, CommitNext DEF IInv
<1>3. /\ Gone(i, k + 1) = Gone(i, k) \union Under(box)
      /\ i = 9 => "newAgent" \notin Under(box)
      /\ "staging" \notin Under(box)
  BY <1>2, UnderBox
<1>4. UNCHANGED <<phase, backup, refused>> /\ system' \in {"recovery", "commit"}
  BY <1>c DEF Erase, EraseInterrupted
<1>5. /\ i = 9 => content'["newAgent"] # "partial"
      /\ content["newAgent"] = "partial" => content'["newAgent"] = "partial"
      /\ ~Present("staging") => ~Present("staging")'
  <2>1. CASE Erase(box)
    BY <1>2, <2>1 DEF Erase, Present, Nodes
  <2>2. CASE EraseInterrupted(box)
    BY <1>2, <1>3, <2>2 DEF EraseInterrupted, Present, Trees
  <2>3. QED
    BY <2>1, <2>2
<1>6. \E n \in BoxesGone(phase) : LaidOut(i, Gone(i, n) \union lost)'
  <2>1. CASE Erase(box)
    <3>1. at' = [n \in Nodes |-> IF n \in Under(box) THEN Nowhere ELSE at[n]]
      BY <2>1 DEF Erase
    <3>2. at = [n \in Nodes |-> IF n \in Gone(i, k) \union lost THEN Nowhere ELSE Layout(i)[n]]
      BY <1>2 DEF LaidOut
    <3>3. at' = [n \in Nodes |-> IF n \in Gone(i, k + 1) \union lost
                                   THEN Nowhere ELSE Layout(i)[n]]
      BY <1>3, <3>1, <3>2
    <3>4. LaidOut(i, Gone(i, k + 1) \union lost)'
      BY <3>3 DEF LaidOut, Layout
    <3>5. QED
      BY <1>2, <3>4
  <2>2. CASE EraseInterrupted(box)
    <3>1. LaidOut(i, Gone(i, k) \union lost)'
      BY <1>2, <2>2, SameLayout DEF EraseInterrupted
    <3>2. QED
      BY <1>2, <3>1
  <2>3. QED
    BY <2>1, <2>2
<1>7. CommitInv'
  BY <1>c, <1>2, <1>4, <1>5, <1>6 DEF IInv, CommitInv
<1>8. RefusedOnlyWhenDisturbed'
  BY <1>4, <1>5 DEF IInv, RefusedOnlyWhenDisturbed, Disturbed
<1>9. QED
  BY <1>1, <1>c, <1>4, <1>7, <1>8 DEF IInv, RestInv, PromotionInv, TrialInv

\* A commit is authorized in a promoted layout and journals what is gone.
LEMMA CommitStep ==
    ASSUME IInv, Authorize \/ Erased
    PROVE  IInv'
<1> USE PhaseKinds, SameLayout
<1>1. TypeOK'
  BY TypeStep DEF IInv, Next, Work
<1>2. /\ UNCHANGED <<at, content, backup, system, refused>>
      /\ system = "commit" /\ phase' \in Committing
  BY DEF Authorize, Erased, Committing
<1>3. RefusedOnlyWhenDisturbed'
  BY <1>2 DEF IInv, RefusedOnlyWhenDisturbed, Disturbed, Present
<1>4. CASE Authorize
  <2>1. phase = "promoted" /\ phase' = "commit-authorized"
    BY <1>4 DEF Authorize
  <2>2. PICK i \in 9..10 : /\ LaidOut(i, {}) \/ LaidOut(i, {"staging"})
                           /\ i = 10 => MayChangeMind
    BY <1>2, <2>1, MovesMadeRange DEF IInv, TrialInv
  <2>3. \E lost \in Lost : LaidOut(i, Gone(i, 0) \union lost)
    <3>1. Gone(i, 0) = {}
      BY DEF Gone
    <3>2. QED
      BY <2>2, <3>1 DEF Lost
  <2>4. 0 \in BoxesGone(phase')
    BY <2>1 DEF BoxesGone
  <2>5. content["newAgent"] # "partial" /\ backup \in {"staged", "other"}
    BY <2>1 DEF IInv, TrialInv
  <2>6. CommitInv'
    BY <1>2, <2>2, <2>3, <2>4, <2>5 DEF CommitInv
  <2>7. QED
    BY <1>1, <1>2, <1>3, <2>6 DEF IInv, RestInv, PromotionInv, TrialInv
<1>5. CASE Erased
  <2>1. /\ phase \in {"commit-authorized", "commit-home-removed"}
        /\ phase \in Committing
    BY <1>5 DEF Erased, Committing
  <2>2. PICK i \in 9..10, lost \in Lost, k \in BoxesGone(phase) :
             /\ LaidOut(i, Gone(i, k) \union lost)
             /\ i = 10 => MayChangeMind
             /\ i = 9 => content["newAgent"] # "partial"
    BY <2>1 DEF IInv, CommitInv
  <2>3. k \in 0..3
    BY <2>1, <2>2 DEF BoxesGone
  <2>4. /\ k < 1 => Present("rollbackHomeBox")
        /\ k < 2 => Present("rollbackAgentBox")
        /\ k < 3 => Present("newAgentBox")
    <3>1. /\ k < 1 => at["rollbackHomeBox"] = <<"home", "rollback">>
          /\ k < 2 => at["rollbackAgentBox"] = <<"lib", "rollback">>
          /\ k < 3 => at["newAgentBox"] = <<"lib", "new">>
      BY <2>2, <2>3 DEF LaidOut, Layout, Gone, Lost, Nodes, Boxes, BoxPlace
    <3>2. QED
      BY <3>1 DEF Present, Nowhere, Nodes, Boxes
  <2>5. k \in BoxesGone(phase')
    <3>1. CASE phase = "commit-authorized"
      BY <1>5, <2>2, <2>4, <3>1 DEF Erased, BoxesGone
    <3>2. CASE phase = "commit-home-removed"
      BY <1>5, <2>2, <2>4, <3>2 DEF Erased, BoxesGone
    <3>3. QED
      BY <2>1, <3>1, <3>2
  <2>6. backup \in {"staged", "other"}
    BY <2>1 DEF IInv, CommitInv
  <2>7. CommitInv'
    BY <1>2, <2>2, <2>5, <2>6 DEF CommitInv
  <2>8. QED
    BY <1>1, <1>2, <1>3, <2>7 DEF IInv, RestInv, PromotionInv, TrialInv
<1>6. QED
  BY <1>4, <1>5

\* Where an operation ends nothing is on its way, and nothing can be lost any more.
LEMMA EndStep ==
    ASSUME IInv, NEW action \in {"rolled-back", "committed"},
           RecordAction(action) \/ RemoveJournal(action)
    PROVE  IInv'
<1> USE PhaseKinds, SameLayout
<1>1. TypeOK'
  BY TypeStep DEF IInv, Next, Work
<1>c. \/ /\ phase = "rollback-trial-preserved" /\ phase \in RollingBack
         /\ system = "rollback" /\ action = "rolled-back"
      \/ /\ phase = "commit-old-removed" /\ phase \in Committing
         /\ system = "commit" /\ action = "committed"
  BY DEF RecordAction, RemoveJournal, Ending, RollingBack, Committing
<1>u. UNCHANGED <<at, content, refused>> /\ backup' \in {backup, action} /\ backup \in {"staged", action}
  BY DEF RecordAction, RemoveJournal
<1>2. RefusedOnlyWhenDisturbed'
  BY <1>u DEF IInv, RefusedOnlyWhenDisturbed, Disturbed, Present
<1>3. CASE RecordAction(action)
  <2>1. UNCHANGED <<phase, system>> /\ backup' = action
    BY <1>3 DEF RecordAction
  <2>2. CASE phase \in RollingBack
    <3>1. TrialInv'
      BY <1>c, <1>u, <2>1, <2>2 DEF IInv, TrialInv
    <3>2. QED
      BY <1>1, <1>2, <2>1, <2>2, <3>1 DEF IInv, RestInv, PromotionInv, CommitInv
  <2>3. CASE phase \in Committing
    <3>1. CommitInv'
      BY <1>c, <1>u, <2>1, <2>3 DEF IInv, CommitInv
    <3>2. QED
      BY <1>1, <1>2, <2>1, <2>3, <3>1 DEF IInv, RestInv, PromotionInv, TrialInv
  <2>4. QED
    BY <1>c, <2>2, <2>3
<1>4. CASE RemoveJournal(action)
  <2>1. phase' = "none" /\ system' = "recovery" /\ backup = action /\ backup' = action
    BY <1>4 DEF RemoveJournal
  <2>2. CASE phase \in RollingBack
    <3>1. LaidOut(16, {})
      BY <1>c, <2>2, MovesMadeRange DEF IInv, TrialInv
    <3>2. RolledBack'
      BY <1>c, <1>u, <2>1, <2>2, <3>1 DEF RolledBack
    <3>3. QED
      BY <1>1, <1>2, <2>1, <3>2 DEF IInv, RestInv, PromotionInv, TrialInv, CommitInv
  <2>3. CASE phase \in Committing
    <3>1. BoxesGone(phase) = {3}
      BY <1>c, <2>3 DEF BoxesGone
    <3>2. \E i \in 9..10, lost \in Lost :
             LaidOut(i, Gone(i, 3) \union lost) /\ (i = 10 => MayChangeMind)
      BY <1>c, <2>3, <3>1 DEF IInv, CommitInv
    <3>3. Committed'
      BY <1>c, <1>u, <2>1, <2>3, <3>2 DEF Committed
    <3>4. QED
      BY <1>1, <1>2, <2>1, <3>3 DEF IInv, RestInv, PromotionInv, TrialInv, CommitInv
  <2>4. QED
    BY <1>c, <2>2, <2>3
<1>5. QED
  BY <1>3, <1>4

\* The power, Recovery and the desktop.
LEMMA RecoveryStep ==
    ASSUME IInv, Promoted \/ Crash \/ BootRecovery \/ UNCHANGED vars
    PROVE  IInv'
<1> USE PhaseKinds, SameLayout
<1>1. TypeOK'
  BY TypeStep DEF IInv, Next, Work
<1>u. /\ UNCHANGED <<phase, at, content, backup, refused>>
      /\ system' = system \/ system' = "recovery"
  BY DEF Promoted, Crash, BootRecovery, vars
<1>2. RefusedOnlyWhenDisturbed'
  BY <1>u DEF IInv, RefusedOnlyWhenDisturbed, Disturbed, Present
<1>3. CASE phase = "none"
  <2>1. Preparing => Preparing'
    BY <1>u DEF Preparing
  <2>2. RolledBack => RolledBack'
    BY <1>u DEF RolledBack
  <2>3. Committed => Committed'
    BY <1>u DEF Committed
  <2>4. QED
    BY <1>1, <1>u, <1>2, <1>3, <2>1, <2>2, <2>3
       DEF IInv, RestInv, PromotionInv, TrialInv, CommitInv
<1>4. CASE phase \in Promoting
  <2>1. PromotionInv'
    BY <1>u, <1>4 DEF IInv, PromotionInv
  <2>2. QED
    BY <1>1, <1>u, <1>2, <1>4, <2>1 DEF IInv, RestInv, TrialInv, CommitInv
<1>5. CASE phase \in {"promoted"} \union RollingBack
  <2>1. TrialInv'
    BY <1>u, <1>5 DEF IInv, TrialInv
  <2>2. QED
    BY <1>1, <1>u, <1>2, <1>5, <2>1 DEF IInv, RestInv, PromotionInv, CommitInv
<1>6. CASE phase \in Committing
  <2>1. CommitInv'
    BY <1>u, <1>6 DEF IInv, CommitInv
  <2>2. QED
    BY <1>1, <1>u, <1>2, <1>6, <2>1 DEF IInv, RestInv, PromotionInv, TrialInv
<1>7. QED
  BY <1>3, <1>4, <1>5, <1>6 DEF IInv, TypeOK

\* The health gate lets the desktop start on a whole trial only.
LEMMA BootStep == ASSUME IInv, BootDesktop PROVE IInv'
<1> USE PhaseKinds, SameLayout
<1>1. TypeOK'
  BY TypeStep DEF IInv, Next
<1>u. /\ UNCHANGED <<phase, at, content, backup, refused>>
      /\ system = "recovery" /\ system' = "desktop" /\ Healthy
  BY DEF BootDesktop
<1>2. RefusedOnlyWhenDisturbed'
  BY <1>u DEF IInv, RefusedOnlyWhenDisturbed, Disturbed, Present
<1>3. CASE phase = "none"
  <2>1. Preparing => Preparing'
    BY <1>u DEF Preparing
  <2>2. RolledBack => RolledBack'
    BY <1>u DEF RolledBack
  <2>3. Committed => Committed'
    BY <1>u DEF Committed
  <2>4. QED
    BY <1>1, <1>u, <1>2, <1>3, <2>1, <2>2, <2>3
       DEF IInv, RestInv, PromotionInv, TrialInv, CommitInv
<1>4. CASE phase = "promoted"
  <2>1. PICK i \in 9..10 : LaidOut(i, {}) \/ LaidOut(i, {"staging"})
    BY <1>4, MovesMadeRange DEF IInv, TrialInv
  <2>2. Exists(ActiveAgent)
    BY <1>u, <1>4 DEF Healthy, TrialPaths
  <2>3. i # 10
    BY <2>1, <2>2, Paths DEF Exists, Lost
  <2>4. i = 9 /\ 9 \in MovesMade(phase')
    BY <1>u, <1>4, <2>1, <2>3, MovesMadeRange
  <2>5. TrialInv'
    BY <1>u, <1>4, <2>1, <2>4 DEF IInv, TrialInv
  <2>6. QED
    BY <1>1, <1>u, <1>2, <1>4, <2>5 DEF IInv, RestInv, PromotionInv, CommitInv
<1>5. QED
  BY <1>u, <1>3, <1>4 DEF Healthy

\* What happens while the desktop is up.
LEMMA DesktopStep == ASSUME IInv, Trial \/ Backup \/ LoseStaging PROVE IInv'
<1> USE PhaseKinds, SameLayout
<1>1. TypeOK'
  BY TypeStep DEF IInv, Next
<1>u. UNCHANGED <<phase, system, refused>> /\ system = "desktop"
  BY DEF Trial, Backup, LoseStaging
<1>c. phase = "none" \/ phase = "promoted"
  BY <1>u DEF IInv, TypeOK, PromotionInv, TrialInv, CommitInv
<1>2. ASSUME phase = "promoted"
      PROVE  /\ LaidOut(9, {}) \/ LaidOut(9, {"staging"})
             /\ content["newAgent"] # "partial" /\ backup \in {"staged", "other"}
             /\ 9 \in MovesMade(phase)
  BY <1>2, <1>u, MovesMadeRange DEF IInv, TrialInv
<1>3. CASE Trial
  <2>1. content'["newAgent"] = "edited"
    BY <1>3 DEF Trial, IInv, TypeOK, Trees
  <2>2. phase = "promoted" /\ UNCHANGED <<at, backup>>
    BY <1>3 DEF Trial
  <2>3. TrialInv'
    BY <1>u, <1>2, <2>1, <2>2 DEF TrialInv
  <2>4. RefusedOnlyWhenDisturbed'
    BY <1>u, <1>2, <2>2 DEF IInv, RefusedOnlyWhenDisturbed, Disturbed, Present
  <2>5. QED
    BY <1>1, <1>u, <2>2, <2>3, <2>4 DEF IInv, RestInv, PromotionInv, CommitInv
<1>4. CASE Backup
  <2>u. UNCHANGED <<at, content>> /\ backup' = "other"
    BY <1>4 DEF Backup
  <2>1. RefusedOnlyWhenDisturbed'
    BY <2>u DEF RefusedOnlyWhenDisturbed, Disturbed
  <2>2. CASE phase = "none"
    <3>1. Preparing => Preparing'
      BY <1>u, <2>u DEF Preparing
    <3>2. RolledBack => RolledBack'
      BY <1>u, <2>u DEF RolledBack
    <3>3. Committed => Committed'
      BY <1>u, <2>u DEF Committed
    <3>4. QED
      BY <1>1, <1>u, <2>1, <2>2, <3>1, <3>2, <3>3
         DEF IInv, RestInv, PromotionInv, TrialInv, CommitInv
  <2>3. CASE phase = "promoted"
    <3>1. TrialInv'
      BY <1>u, <1>2, <2>u, <2>3 DEF TrialInv
    <3>2. QED
      BY <1>1, <1>u, <2>1, <2>3, <3>1 DEF IInv, RestInv, PromotionInv, CommitInv
  <2>4. QED
    BY <1>c, <2>2, <2>3
<1>5. CASE LoseStaging
  <2>u. /\ phase = "promoted" /\ UNCHANGED <<content, backup>>
        /\ at' = [at EXCEPT !["staging"] = Nowhere]
    BY <1>5 DEF LoseStaging
  <2>1. LaidOut(9, {"staging"})'
    <3>1. PICK gone \in Lost : at = [n \in Nodes |-> IF n \in gone THEN Nowhere ELSE Layout(9)[n]]
      BY <1>2, <2>u DEF LaidOut, Lost
    <3>2. at' = [n \in Nodes |-> IF n \in {"staging"} THEN Nowhere ELSE Layout(9)[n]]
      BY <2>u, <3>1 DEF Lost
    <3>3. QED
      BY <3>2 DEF LaidOut, Layout
  <2>2. TrialInv'
    BY <1>u, <1>2, <2>u, <2>1 DEF TrialInv
  <2>3. at'["staging"] = Nowhere
    BY <2>1 DEF LaidOut, Nodes
  <2>4. RefusedOnlyWhenDisturbed'
    BY <2>3 DEF RefusedOnlyWhenDisturbed, Disturbed, Present
  <2>5. QED
    BY <1>1, <1>u, <2>u, <2>2, <2>4 DEF IInv, RestInv, PromotionInv, CommitInv
<1>6. QED
  BY <1>3, <1>4, <1>5

\* No step of the transaction, of the power or of the desktop breaks the invariant.
LEMMA NextHolds == IInv /\ [Next]_vars => IInv'
<1> SUFFICES ASSUME IInv, [Next]_vars PROVE IInv'
  OBVIOUS
<1>1. CASE MakeCopyBox \/ BeginCopy \/ FinishCopy \/ Journal
  BY <1>1, PrepareStep
<1>2. CASE \E m \in Current : PrepareBox(m) \/ Rename(m) \/ Checkpoint(m)
  BY <1>2, CurrentStep
<1>3. CASE Authorize \/ Erased
  BY <1>3, CommitStep
<1>4. CASE \E box \in Boxes : Erase(box) \/ EraseInterrupted(box)
  BY <1>4, EraseStep
<1>5. CASE \E action \in {"rolled-back", "committed"} :
             RecordAction(action) \/ RemoveJournal(action)
  BY <1>5, EndStep
<1>6. CASE Refuse
  BY <1>6, RefuseStep
<1>7. CASE \E op \in Operations : Start(op)
  BY <1>7, StartStep
<1>8. CASE Promoted \/ Crash \/ BootRecovery \/ UNCHANGED vars
  BY <1>8, RecoveryStep
<1>9. CASE BootDesktop
  BY <1>9, BootStep
<1>10. CASE Trial \/ Backup \/ LoseStaging
  BY <1>10, DesktopStep
<1>11. QED
  BY <1>1, <1>2, <1>3, <1>4, <1>5, <1>6, <1>7, <1>8, <1>9, <1>10 DEF Next, Work

\* Whatever fails and however often, the directories are always where the journal's
\* phase and a number of moves say (promote, rollback and commit of
\* echo_restore_transaction.py).
THEOREM Invariance == Spec => []IInv
<1>1. QED
  BY InitHolds, NextHolds, PTL DEF Spec

-----------------------------------------------------------------------------
(* What the invariant says of the directories, the trees and the desktop. *)

\* A layout puts no two directories in one place, and each one in a directory
\* that is there, if what is gone leaves nothing behind.
LEMMA LayoutIntact ==
    ASSUME NEW i \in 0..16, NEW gone \in SUBSET Nodes, LaidOut(i, gone),
           "staging" \in gone => i \in 9..11,
           "oldHome" \notin gone /\ i \in 4..13 => "rollbackHomeBox" \notin gone,
           "oldAgent" \notin gone /\ i \in 8..10 => "rollbackAgentBox" \notin gone,
           "newAgent" \notin gone /\ i # 9 => "newAgentBox" \notin gone,
           "newHome" \notin gone, "oldHome" \in gone => i \in 9..10
    PROVE  /\ \A m, n \in Nodes : m # n /\ at[m] = at[n] => at[m] = Nowhere
           /\ \A n \in Nodes : Present(n) => at[n][1] \in {"home", "lib"} \/ Present(at[n][1])
<1> USE DEF Nodes, Trees, Boxes, Nowhere, ActiveHome, RollbackHome, ActiveAgent,
        RollbackAgent, NewAgent, RejectedAgent
<1>1. \A m, n \in Nodes : m # n /\ at[m] = at[n] => at[m] = Nowhere
  <2>1. \A m, n \in Nodes : m # n /\ Layout(i)[m] = Layout(i)[n] => Layout(i)[m] = Nowhere
    <3>1. CASE i < 5
      BY <3>1 DEF Layout, BoxPlace
    <3>2. CASE i \in 5..9
      BY <3>2 DEF Layout, BoxPlace
    <3>3. CASE i > 9
      BY <3>3 DEF Layout, BoxPlace
    <3>4. QED
      BY <3>1, <3>2, <3>3
  <2>2. \A n \in Nodes : at[n] = Nowhere \/ at[n] = Layout(i)[n]
    BY DEF LaidOut
  <2>3. QED
    BY <2>1, <2>2
<1>2. \A n \in Nodes : at[n] = IF n \in gone THEN Nowhere ELSE Layout(i)[n]
  BY DEF LaidOut
<1>3. ASSUME NEW n \in Nodes, Present(n)
      PROVE  at[n][1] \in {"home", "lib"} \/ Present(at[n][1])
  <2>1. n \notin gone /\ at[n] = Layout(i)[n]
    BY <1>2, <1>3 DEF Present
  <2>2. /\ Layout(i)["newHome"] # Nowhere /\ Layout(i)["oldHome"] # Nowhere
        /\ Layout(i)["staging"] # Nowhere
        /\ i \in 4..13 => Layout(i)["rollbackHomeBox"] # Nowhere
        /\ i \in 8..10 => Layout(i)["rollbackAgentBox"] # Nowhere
        /\ i \in 2..16 => Layout(i)["newAgentBox"] # Nowhere
    BY DEF Layout, BoxPlace
  <2>3. \A k \in Nodes : k \notin gone /\ Layout(i)[k] # Nowhere => Present(k)
    BY <1>2 DEF Present
  <2>4. CASE n \in Boxes
    <3>1. Layout(i)[n] \in {Nowhere, RejectedAgent, <<"home", "rollback">>,
                            <<"lib", "rollback">>, <<"lib", "new">>}
      BY <2>4 DEF Layout, BoxPlace
    <3>2. QED
      BY <1>3, <2>1, <3>1 DEF Present
  <2>5. CASE n = "newHome"
    <3>1. Layout(i)[n] = IF i \in 5..12 THEN ActiveHome ELSE <<"staging", "home">>
      BY <2>5 DEF Layout
    <3>2. i \notin 5..12 => Present("staging")
      BY <2>2, <2>3
    <3>3. QED
      BY <2>1, <3>1, <3>2
  <2>6. CASE n = "staging"
    <3>1. Layout(i)[n] = IF i \in 6..11 THEN <<"newHome", "staging">>
                         ELSE <<"oldHome", "staging">>
      BY <2>6 DEF Layout
    <3>2. Present("newHome") /\ (i \notin 6..11 => Present("oldHome"))
      BY <2>2, <2>3
    <3>3. QED
      BY <2>1, <3>1, <3>2
  <2>7. CASE n = "oldHome"
    <3>1. Layout(i)[n] = IF i \in 4..13 THEN RollbackHome ELSE ActiveHome
      BY <2>7 DEF Layout
    <3>2. i \in 4..13 => Present("rollbackHomeBox")
      BY <2>1, <2>2, <2>3, <2>7
    <3>3. QED
      BY <2>1, <3>1, <3>2
  <2>8. CASE n = "oldAgent"
    <3>1. Layout(i)[n] = IF i \in 8..10 THEN RollbackAgent ELSE ActiveAgent
      BY <2>8 DEF Layout
    <3>2. i \in 8..10 => Present("rollbackAgentBox")
      BY <2>1, <2>2, <2>3, <2>8
    <3>3. QED
      BY <2>1, <3>1, <3>2
  <2>9. CASE n = "newAgent"
    <3>1. Layout(i)[n] = IF i < 2 THEN Nowhere
                         ELSE IF i = 9 THEN ActiveAgent ELSE NewAgent
      BY <2>9 DEF Layout
    <3>2. i \in 2..16 /\ i # 9 => Present("newAgentBox")
      BY <2>1, <2>2, <2>3, <2>9
    <3>3. QED
      BY <1>3, <2>1, <3>1, <3>2 DEF Present
  <2>10. QED
    BY <2>4, <2>5, <2>6, <2>7, <2>8, <2>9
<1>4. QED
  BY <1>1, <1>3

\* Where the directories can be at all.
LEMMA SomeLayout ==
    ASSUME IInv
    PROVE  \/ \E i \in 0..16 : LaidOut(i, {})
           \/ \E i \in 9..11 : LaidOut(i, {"staging"})
           \/ \E i \in 9..10, lost \in Lost, k \in 0..3 : LaidOut(i, Gone(i, k) \union lost)
<1>1. CASE phase = "none"
  <2>1. Preparing => \E i \in 0..16 : LaidOut(i, {})
    BY DEF Preparing
  <2>2. RolledBack => \E i \in 0..16 : LaidOut(i, {})
    <3>1. 16 \in 0..16
      OBVIOUS
    <3>2. QED
      BY <3>1 DEF RolledBack
  <2>3. Committed =>
          \E i \in 9..10, lost \in Lost, k \in 0..3 : LaidOut(i, Gone(i, k) \union lost)
    <3>1. Committed => \E i \in 9..10, lost \in Lost : LaidOut(i, Gone(i, 3) \union lost)
      BY DEF Committed
    <3>2. 3 \in 0..3
      OBVIOUS
    <3>3. QED
      BY <3>1, <3>2
  <2>4. Preparing \/ RolledBack \/ Committed
    BY <1>1 DEF IInv, RestInv
  <2>5. QED
    BY <2>1, <2>2, <2>3, <2>4
<1>2. CASE phase \in Promoting
  BY <1>2, MovesMadeRange DEF IInv, PromotionInv
<1>3. CASE phase \in {"promoted"} \union RollingBack
  <2>1. PICK i \in MovesMade(phase) : LaidOut(i, {}) \/ (i < 12 /\ LaidOut(i, {"staging"}))
    BY <1>3 DEF IInv, TrialInv
  <2>2. i \in 9..16
    BY <1>3, <2>1, MovesMadeRange
  <2>3. QED
    BY <2>1, <2>2
<1>4. CASE phase \in Committing
  <2>1. BoxesGone(phase) \subseteq 0..3
    BY <1>4 DEF BoxesGone, Committing
  <2>2. QED
    BY <1>4, <2>1 DEF IInv, CommitInv
<1>5. QED
  BY <1>1, <1>2, <1>3, <1>4, PhaseKinds DEF IInv, TypeOK

\* No rename overwrites a directory and no removal leaves an orphan: _rename() and
\* rmtree() in any interleaving of power failures, boots and user actions.
THEOREM IntactHolds == Spec => []Intact
<1>1. IInv => Intact
  <2> SUFFICES ASSUME IInv PROVE Intact
    OBVIOUS
  <2>1. CASE \E i \in 0..16 : LaidOut(i, {})
    BY <2>1, LayoutIntact DEF IInv, Intact
  <2>2. CASE \E i \in 9..11 : LaidOut(i, {"staging"})
    <3>1. {"staging"} \in SUBSET Nodes
      BY DEF Nodes
    <3>2. QED
      BY <2>2, <3>1, LayoutIntact DEF IInv, Intact
  <2>3. CASE \E i \in 9..10, lost \in Lost, k \in 0..3 : LaidOut(i, Gone(i, k) \union lost)
    <3>1. PICK i \in 9..10, lost \in Lost, k \in 0..3 : LaidOut(i, Gone(i, k) \union lost)
      BY <2>3
    <3> DEFINE gone == Gone(i, k) \union lost
    <3>2. /\ gone \in SUBSET Nodes /\ "newHome" \notin gone
          /\ "oldHome" \notin gone => "rollbackHomeBox" \notin gone
          /\ "oldAgent" \notin gone => "rollbackAgentBox" \notin gone
          /\ "newAgent" \notin gone /\ i # 9 => "newAgentBox" \notin gone
      BY <3>1 DEF Gone, Lost, Nodes, Trees, Boxes
    <3>3. LaidOut(i, gone) /\ i \in 0..16 /\ i \in 9..11
      BY <3>1
    <3> HIDE DEF gone
    <3>4. QED
      BY <3>1, <3>2, <3>3, LayoutIntact DEF IInv, Intact
  <2>4. QED
    BY <2>1, <2>2, <2>3, SomeLayout
<1>2. QED
  BY <1>1, Invariance, PTL

\* Every operation the journal's phase admits can go on, unless a backup, a lost
\* staging directory or a half-made copy is in its way: the checks of _rename(),
\* _matches() and _update_backup_action() refuse nothing the transaction did.
THEOREM RefusedHolds == Spec => []RefusedOnlyWhenDisturbed
<1>1. IInv => RefusedOnlyWhenDisturbed
  BY DEF IInv
<1>2. QED
  BY <1>1, Invariance, PTL

\* Moves lead somewhere, and only containers are made or removed.
LEMMA MovesKeep ==
    ASSUME TypeOK, NEW m \in Current, PrepareBox(m) \/ Rename(m) \/ Checkpoint(m)
    PROVE  /\ \A n \in Trees \union {"staging"} : Present(n) => at'[n] # Nowhere
           /\ UNCHANGED content
<1>1. m.dst # Nowhere /\ m.box \in Boxes \union {"none"}
  <2>1. CASE m \in PromotionMoves
    BY <2>1 DEF PromotionMoves, Move, Boxes, ActiveHome, RollbackHome, ActiveAgent,
       RollbackAgent, NewAgent, RestoreRoot, StagedHome, Nowhere
  <2>2. CASE m \in RollbackMoves
    BY <2>2 DEF RollbackMoves, Move, Boxes, ActiveHome, RollbackHome, ActiveAgent,
       RollbackAgent, NewAgent, RejectedAgent, RestoreRoot, StagedHome, Nowhere
  <2>3. QED
    BY <2>1, <2>2 DEF Current
<1>2. CASE PrepareBox(m)
  BY <1>1, <1>2 DEF PrepareBox, TypeOK, Present, Nodes, Trees, Boxes
<1>3. CASE Rename(m)
  BY <1>1, <1>3 DEF Rename, TypeOK, Present
<1>4. CASE Checkpoint(m)
  BY <1>4 DEF Checkpoint, Present
<1>5. QED
  BY <1>2, <1>3, <1>4

\* "Commit is the sole deletion authorization": the old home and the old agent are
\* neither removed nor damaged before commit() has journaled its decision.
THEOREM OldKeptHolds == Spec => OldKept
<1>1. ASSUME TypeOK, [Next]_vars, NEW t \in {"oldHome", "oldAgent"}, phase \notin Committing
      PROVE  (Present(t) => at'[t] # Nowhere) /\ content'[t] = content[t]
  <2>1. ASSUME NEW m \in Current, PrepareBox(m) \/ Rename(m) \/ Checkpoint(m)
        PROVE  (Present(t) => at'[t] # Nowhere) /\ content'[t] = content[t]
    BY <1>1, <2>1, MovesKeep DEF Trees
  <2>2. \A box \in Boxes : ~Erase(box) /\ ~EraseInterrupted(box)
    BY <1>1 DEF Erase, EraseInterrupted, Erasable, Committing
  <2>3. CASE MakeCopyBox \/ BeginCopy \/ FinishCopy
    BY <1>1, <2>3 DEF MakeCopyBox, BeginCopy, FinishCopy, TypeOK, Present, Trees
  <2>4. CASE Trial \/ LoseStaging
    BY <1>1, <2>4 DEF Trial, LoseStaging, TypeOK, Present, Trees
  <2>5. ASSUME UNCHANGED <<at, content>>
        PROVE  (Present(t) => at'[t] # Nowhere) /\ content'[t] = content[t]
    BY <2>5 DEF Present
  <2>6. CASE \/ Journal \/ Promoted \/ Authorize \/ Erased \/ Refuse \/ Crash
             \/ BootDesktop \/ BootRecovery \/ Backup \/ UNCHANGED vars
             \/ \E action \in {"rolled-back", "committed"} :
                  RecordAction(action) \/ RemoveJournal(action)
             \/ \E op \in Operations : Start(op)
    BY <2>5, <2>6 DEF Journal, Promoted, Authorize, Erased, Refuse, Crash, BootDesktop,
       BootRecovery, Backup, vars, RecordAction, RemoveJournal, Start
  <2>7. QED
    BY <1>1, <2>1, <2>2, <2>3, <2>4, <2>6 DEF Next, Work
<1>2. TypeOK /\ [Next]_vars =>
        [\A t \in {"oldHome", "oldAgent"} :
         /\ Present(t) /\ at'[t] = Nowhere => phase \in Committing
         /\ content'[t] # content[t] => phase \in Committing]_<<at, content>>
  BY <1>1
<1>3. IInv => TypeOK
  BY DEF IInv
<1>4. QED
  BY <1>2, <1>3, Invariance, PTL DEF Spec, OldKept

\* commit() removes the old trees only, unless it follows a rollback that was cut
\* short in its first move (run restore_change_of_mind).
THEOREM OnlyOldDeletedHolds ==
    ASSUME MayChangeMind = FALSE
    PROVE  Spec => OnlyOldDeleted
<1>1. ASSUME IInv, [Next]_vars, NEW t \in {"newHome", "newAgent"}, Present(t)
      PROVE  at'[t] # Nowhere
  <2>1. ASSUME NEW m \in Current, PrepareBox(m) \/ Rename(m) \/ Checkpoint(m)
        PROVE  at'[t] # Nowhere
    BY <1>1, <2>1, MovesKeep DEF Trees, IInv
  <2>2. ASSUME NEW box \in Boxes, Erase(box) PROVE at'[t] # Nowhere
    <3>1. CommitInv /\ Present(box) /\ Erasable(box)
      BY <1>1, <2>2 DEF IInv, Erase
    <3>2. PICK i \in 9..10, lost \in Lost, k \in 0..2 :
             /\ LaidOut(i, Gone(i, k) \union lost)
             /\ i = 10 => MayChangeMind
             /\ box = NextBox(k)
      BY <3>1, CommitNext
    <3>3. i = 9
      BY <3>2
    <3>4. /\ Gone(i, k + 1) = Gone(i, k) \union Under(box)
          /\ i = 9 => "newAgent" \notin Under(box)
      BY <3>2, UnderBox
    <3>5. t \notin Under(box)
      BY <3>3, <3>4 DEF Gone
    <3>6. QED
      BY <1>1, <2>2, <3>5 DEF Erase, Present
  <2>3. CASE MakeCopyBox \/ BeginCopy
    BY <1>1, <2>3 DEF MakeCopyBox, BeginCopy, IInv, TypeOK, Present, Nodes, Trees, NewAgent,
       Nowhere
  <2>4. CASE LoseStaging
    BY <1>1, <2>4 DEF LoseStaging, IInv, TypeOK, Present
  <2>5. CASE \/ FinishCopy \/ Journal \/ Promoted \/ Authorize \/ Erased \/ Refuse \/ Crash
             \/ BootDesktop \/ BootRecovery \/ Trial \/ Backup \/ UNCHANGED vars
             \/ \E box \in Boxes : EraseInterrupted(box)
             \/ \E action \in {"rolled-back", "committed"} :
                  RecordAction(action) \/ RemoveJournal(action)
             \/ \E op \in Operations : Start(op)
    <3>1. at' = at
      BY <2>5 DEF FinishCopy, Journal, Promoted, Authorize, Erased, Refuse, Crash, BootDesktop,
         BootRecovery, Trial, Backup, vars, EraseInterrupted, RecordAction, RemoveJournal, Start
    <3>2. QED
      BY <1>1, <3>1 DEF Present
  <2>6. QED
    BY <1>1, <2>1, <2>2, <2>3, <2>4, <2>5 DEF Next, Work
<1>2. IInv /\ [Next]_vars =>
        [\A t \in {"newHome", "newAgent"} : Present(t) => at'[t] # Nowhere]_at
  BY <1>1
<1>3. QED
  BY <1>2, Invariance, PTL DEF Spec, OnlyOldDeleted

\* The trial's trees are active when a commit has ended.
LEMMA CommittedAt ==
    ASSUME NEW lost \in Lost, LaidOut(9, Gone(9, 3) \union lost)
    PROVE  /\ at["newHome"] = ActiveHome /\ at["newAgent"] = ActiveAgent
           /\ \A n \in Boxes \union {"oldHome", "oldAgent"} : at[n] = Nowhere
           /\ NodeAt(ActiveHome) = "newHome" /\ NodeAt(ActiveAgent) = "newAgent"
<1>1. Gone(9, 3) = Boxes \union {"oldHome", "oldAgent"}
  BY DEF Gone, Boxes
<1>2. \A n \in Boxes \union {"oldHome", "oldAgent"} : at[n] = Nowhere
  BY <1>1 DEF LaidOut, Nodes, Trees
<1>3. at["newHome"] = ActiveHome /\ at["newAgent"] = ActiveAgent
  BY <1>1 DEF LaidOut, Layout, Nodes, Trees, Boxes, Lost
<1>4. at["staging"] \in {Nowhere, <<"newHome", "staging">>}
  BY <1>1 DEF LaidOut, Layout, Nodes, Trees, Boxes
<1>5. NodeAt(ActiveHome) = "newHome"
  BY <1>2, <1>3, <1>4, NodeAtIs DEF ActiveHome, ActiveAgent, Nowhere, Nodes, Trees, Boxes
<1>6. NodeAt(ActiveAgent) = "newAgent"
  BY <1>2, <1>3, <1>4, NodeAtIs DEF ActiveHome, ActiveAgent, Nowhere, Nodes, Trees, Boxes
<1>7. QED
  BY <1>2, <1>3, <1>5, <1>6

\* The health gate lets the desktop start only on a home and an agent that belong
\* together, and on the promoted pair only with the old pair retained.
THEOREM BootPairHolds ==
    ASSUME MayChangeMind = FALSE
    PROVE  Spec => []BootPair
<1>1. IInv => BootPair
  <2> SUFFICES ASSUME IInv, system = "desktop" PROVE BootPair
    BY DEF BootPair
  <2>1. phase = "none" \/ phase = "promoted"
    BY DEF IInv, TypeOK, PromotionInv, TrialInv, CommitInv, Phases
  <2>2. CASE phase = "promoted"
    <3>1. LaidOut(9, {}) \/ LaidOut(9, {"staging"})
      BY <2>2, MovesMadeRange DEF IInv, TrialInv
    <3>2. /\ NodeAt(ActiveHome) = "newHome" /\ NodeAt(ActiveAgent) = "newAgent"
          /\ NodeAt(RollbackHome) = "oldHome" /\ NodeAt(RollbackAgent) = "oldAgent"
      BY <3>1, Paths DEF Lost
    <3>3. QED
      BY <3>2 DEF BootPair
  <2>3. CASE phase = "none" /\ (Preparing \/ RolledBack)
    <3>1. \E i \in 0..2 \union {16} : LaidOut(i, {})
      BY <2>3 DEF Preparing, RolledBack
    <3>2. NodeAt(ActiveHome) = "oldHome" /\ NodeAt(ActiveAgent) = "oldAgent"
      BY <3>1, Paths DEF Lost
    <3>3. QED
      BY <3>2 DEF BootPair
  <2>4. CASE phase = "none" /\ Committed
    <3>1. \E lost \in Lost : LaidOut(9, Gone(9, 3) \union lost)
      BY <2>4 DEF Committed
    <3>2. NodeAt(ActiveHome) = "newHome" /\ NodeAt(ActiveAgent) = "newAgent"
      BY <3>1, CommittedAt
    <3>3. QED
      BY <2>4, <3>2 DEF BootPair
  <2>5. QED
    BY <2>1, <2>2, <2>3, <2>4 DEF IInv, RestInv
<1>2. QED
  BY <1>1, Invariance, PTL

\* Where rollback() and commit() end, whatever interrupted them on the way.
THEOREM OutcomeHolds ==
    ASSUME MayChangeMind = FALSE
    PROVE  Spec => []Outcome
<1>1. IInv => Outcome
  <2> SUFFICES ASSUME IInv, phase = "none" PROVE Outcome
    BY DEF Outcome
  <2>1. CASE backup = "rolled-back"
    <3>1. LaidOut(16, {})
      BY <2>1 DEF IInv, RestInv, Preparing, RolledBack, Committed
    <3>2. /\ at["oldHome"] = ActiveHome /\ at["oldAgent"] = ActiveAgent
          /\ at["staging"] = <<"oldHome", "staging">>
          /\ at["newHome"] = <<"staging", "home">>
          /\ at["newAgent"] = NewAgent /\ at["newAgentBox"] = RejectedAgent
      BY <3>1, Places
    <3>3. NodeAt(ActiveHome) = "oldHome"
      BY <3>1, Paths DEF Lost
    <3>4. QED
      BY <2>1, <3>2, <3>3 DEF Outcome, RestoreRoot
  <2>2. CASE backup = "committed"
    <3>a. Committed
      BY <2>2 DEF IInv, RestInv, Preparing, RolledBack
    <3>b. PICK i \in 9..10, lost \in Lost :
             LaidOut(i, Gone(i, 3) \union lost) /\ (i = 10 => MayChangeMind)
      BY <3>a DEF Committed
    <3>c. i = 9
      BY <3>b
    <3>1. \E gone \in Lost : LaidOut(9, Gone(9, 3) \union gone)
      BY <3>b, <3>c
    <3>2. /\ at["newHome"] = ActiveHome /\ at["newAgent"] = ActiveAgent
          /\ \A n \in Boxes \union {"oldHome", "oldAgent"} : ~Present(n)
      BY <3>1, CommittedAt DEF Present
    <3>3. QED
      BY <2>2, <3>2 DEF Outcome
  <2>3. QED
    BY <2>1, <2>2 DEF Outcome
<1>2. QED
  BY <1>1, Invariance, PTL

\* Nothing outside the transaction has disturbed it, and a copy found before the
\* journal is whole.
Calm ==
    /\ ~refused /\ backup # "other" /\ Present("staging")
    /\ phase = "none" /\ backup = "staged" /\ content["newAgent"] # "planned" =>
         system = "copy"

\* Left to itself, the transaction can always be taken up again: "every intermediate
\* topology is resumable" (docstring of echo_restore_transaction.py); a backup in
\* the trial breaks it (run restore_backup_in_trial).
THEOREM ResumableHolds ==
    ASSUME MayBackup = FALSE, MayLoseStaging = FALSE, MayInterruptCopy = FALSE
    PROVE  Spec => []Resumable
<1>1. Init => Calm
  BY DEF Init, Calm, Present, Nowhere, Nodes, Trees
<1>2. ASSUME IInv, IInv', Calm, [Next]_vars PROVE Calm'
  <2>1. ~Refuse
    <3>1. ASSUME Refuse PROVE FALSE
      <4>1. Disturbed /\ UNCHANGED <<phase, content>>
        BY <1>2, <3>1 DEF Refuse, IInv, RefusedOnlyWhenDisturbed, Disturbed, Present
      <4>2. content["newAgent"] = "partial"
        BY <1>2, <4>1 DEF Calm, Disturbed
      <4>3. phase \notin Promoting \union {"promoted"} \union RollingBack
        BY <1>2, <4>2 DEF IInv, PromotionInv, TrialInv, Trees
      <4>4. ~ \E m \in Current : Stuck(m)
        BY <4>3, CurrentMove
      <4>5. ~(system = "promote" /\ phase = "none")
        BY <1>2, <4>2 DEF IInv, RestInv, Preparing, RolledBack, Committed, Calm
      <4>6. PICK action \in {"rolled-back", "committed"} :
               Ending(action) /\ backup \notin {"staged", action}
        BY <3>1, <4>4, <4>5 DEF Refuse
      <4>7. phase = "commit-old-removed" /\ action = "committed"
        BY <4>3, <4>6 DEF Ending, RollingBack
      <4>8. QED
        BY <1>2, <4>6, <4>7 DEF IInv, CommitInv, Committing, Calm
    <3>2. QED
      BY <3>1
  <2>2. ~refused' /\ ~Backup /\ ~LoseStaging
    <3>1. CASE Work
      BY <1>2, <2>1, <3>1 DEF Work, MakeCopyBox, BeginCopy, FinishCopy, Journal, Promoted,
         PrepareBox, Rename, Checkpoint, Authorize, Erased, Erase, RecordAction, RemoveJournal,
         Calm, Backup, LoseStaging
    <3>2. CASE ~Work
      BY <1>2, <3>2 DEF Next, Start, EraseInterrupted, Crash, BootDesktop, BootRecovery, Trial,
         Backup, LoseStaging, Calm, vars
    <3>3. QED
      BY <3>1, <3>2
  <2>3. backup' # "other"
    <3>1. CASE \E action \in {"rolled-back", "committed"} : RecordAction(action)
      BY <3>1 DEF RecordAction
    <3>2. CASE Work /\ ~ \E action \in {"rolled-back", "committed"} : RecordAction(action)
      BY <1>2, <3>2 DEF Work, MakeCopyBox, BeginCopy, FinishCopy, Journal, Promoted,
         PrepareBox, Rename, Checkpoint, Authorize, Erased, Erase, RemoveJournal, Refuse, Calm
    <3>3. CASE ~Work
      BY <1>2, <2>2, <3>3 DEF Next, Start, EraseInterrupted, Crash, BootDesktop, BootRecovery,
         Trial, Calm, vars
    <3>4. QED
      BY <3>1, <3>2, <3>3
  <2>4. Present("staging")'
    <3>1. ASSUME NEW m \in Current, PrepareBox(m) \/ Rename(m) \/ Checkpoint(m)
          PROVE  at'["staging"] # Nowhere
      BY <1>2, <3>1, MovesKeep DEF IInv, Calm
    <3>2. ASSUME NEW box \in Boxes, Erase(box) PROVE at'["staging"] # Nowhere
      <4>1. CommitInv /\ Present(box) /\ Erasable(box)
        BY <1>2, <3>2 DEF IInv, Erase
      <4>2. PICK i \in 9..10, lost \in Lost, k \in 0..2 :
               LaidOut(i, Gone(i, k) \union lost) /\ box = NextBox(k)
        BY <4>1, CommitNext
      <4>3. "staging" \notin Under(box)
        BY <4>2, UnderBox
      <4>4. QED
        BY <1>2, <3>2, <4>3 DEF Erase, Present, Calm
    <3>3. CASE MakeCopyBox \/ BeginCopy
      BY <1>2, <3>3 DEF MakeCopyBox, BeginCopy, IInv, TypeOK, Calm, Present, Nodes, Trees, Boxes
    <3>4. CASE \/ FinishCopy \/ Journal \/ Promoted \/ Authorize \/ Erased \/ Crash
               \/ BootDesktop \/ BootRecovery \/ Trial \/ UNCHANGED vars
               \/ \E box \in Boxes : EraseInterrupted(box)
               \/ \E action \in {"rolled-back", "committed"} :
                    RecordAction(action) \/ RemoveJournal(action)
               \/ \E op \in Operations : Start(op)
      <4>1. at' = at
        BY <3>4 DEF FinishCopy, Journal, Promoted, Authorize, Erased, Crash, BootDesktop,
           BootRecovery, Trial, vars, EraseInterrupted, RecordAction, RemoveJournal, Start
      <4>2. QED
        BY <1>2, <4>1 DEF Calm, Present
    <3>5. at'["staging"] # Nowhere
      BY <1>2, <2>1, <2>2, <3>1, <3>2, <3>3, <3>4 DEF Next, Work, Calm, Present
    <3>6. QED
      BY <3>5 DEF Present, Nodes
  <2>5. ASSUME phase' = "none", backup' = "staged", content'["newAgent"] # "planned"
        PROVE  system' = "copy"
    <3>1. \A action \in {"rolled-back", "committed"} :
            ~RecordAction(action) /\ ~RemoveJournal(action)
      BY <2>5 DEF RecordAction, RemoveJournal
    <3>2. \A m \in Current : ~Checkpoint(m)
      BY <2>5 DEF Checkpoint, Current, PromotionMoves, RollbackMoves, Move
    <3>3. CASE \E m \in Current : PrepareBox(m) \/ Rename(m)
      <4>1. phase' # "none"
        BY <3>3, CurrentMove, PhaseKinds DEF PrepareBox, Rename
      <4>2. QED
        BY <2>5, <4>1
    <3>4. CASE BeginCopy \/ FinishCopy
      BY <1>2, <2>5, <3>4 DEF BeginCopy, FinishCopy, IInv, TypeOK, Trees
    <3>5. CASE Journal \/ Authorize \/ Erased \/ Trial
      BY <2>5, <3>5 DEF Journal, Authorize, Erased, Trial
    <3>6. CASE \E box \in Boxes : Erase(box) \/ EraseInterrupted(box)
      BY <2>5, <3>6 DEF Erase, EraseInterrupted, Erasable
    <3>7. CASE \/ MakeCopyBox \/ Promoted \/ Crash \/ BootDesktop \/ BootRecovery
               \/ UNCHANGED vars \/ \E op \in Operations : Start(op)
      <4>1. phase = "none" /\ backup = "staged" /\ content["newAgent"] # "planned"
        BY <2>5, <3>7 DEF MakeCopyBox, Promoted, Crash, BootDesktop, BootRecovery, vars, Start
      <4>2. system = "copy"
        BY <1>2, <4>1 DEF Calm
      <4>3. QED
        BY <3>7, <4>2 DEF MakeCopyBox, Promoted, Crash, BootDesktop, BootRecovery, vars, Start,
           Operations
    <3>8. QED
      BY <1>2, <2>1, <2>2, <3>1, <3>2, <3>3, <3>4, <3>5, <3>6, <3>7 DEF Next, Work
  <2>6. QED
    BY <2>2, <2>3, <2>4, <2>5 DEF Calm
<1>3. Calm => Resumable
  BY DEF Calm, Resumable
<1>4. QED
  BY <1>1, <1>2, <1>3, Invariance, PTL DEF Spec

=============================================================================
