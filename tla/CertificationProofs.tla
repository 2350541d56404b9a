------------------------- MODULE CertificationProofs -------------------------
(***************************************************************************)
(* Type correctness of the certification, that no script of any            *)
(* jurisdiction completes a gate from an unsafe page, that what is         *)
(* unfinished stays on the worklist, and that what is complete stays so,   *)
(* for every number of certifiers and of starts.                           *)
(***************************************************************************)
EXTENDS Certification, WellFoundedInduction, TLAPS

\* What a script may answer to a page: a status of the list, and "complete"
\* only for a page with a review screen and with neither a challenge, a login
\* nor a final submit.
SafeAnswer(page, answer) ==
  /\ answer \in Statuses \cup {Raised}
  /\ answer = "complete" =>
       "review" \in page /\ page \cap {"challenge", "login", "submit"} = {}

\* The statuses a script may want for its gate.
Wanted == {Login, Applicant, "trusted_access_required"}

\* A gate that a certifier completed was completed from a safe page.
SafeResult(result) ==
  result.status = "complete" /\ result.by = "run" => result.seen = {"review"}

SafeFile(file) == \A c \in DOMAIN file : SafeResult(file[c])

-----------------------------------------------------------------------------
(* What the scripts answer.                                                  *)

\* The order of the tests makes the classification safe.
LEMMA ClassifiedIsSafe ==
  ASSUME NEW page PROVE SafeAnswer(page, classify_review_signals(page))
BY DEF SafeAnswer, classify_review_signals, Statuses

\* A script's own tests come before it and never say "complete".  Leaving out
\* signs the classification does not ask for changes nothing.
LEMMA StopIsSafe ==
  ASSUME NEW page, NEW walls, NEW wanted \in Wanted, NEW ignored \in SUBSET {"gate", "denied"}
  PROVE  /\ SafeAnswer(page, StopsAt(page, walls, wanted))
         /\ SafeAnswer(page, StopsAt(page \ ignored, walls, wanted))
<1>1. \A p : SafeAnswer(p, StopsAt(p, walls, wanted))
  <2> SUFFICES ASSUME NEW p PROVE SafeAnswer(p, StopsAt(p, walls, wanted)) OBVIOUS
  <2>1. SafeAnswer(p, classify_review_signals(p)) BY ClassifiedIsSafe
  <2>2. SafeAnswer(p, wanted) BY DEF SafeAnswer, Wanted, Statuses, Login, Applicant
  <2>3. SafeAnswer(p, "trusted_access_required") BY DEF SafeAnswer, Statuses
  <2> QED BY <2>1, <2>2, <2>3 DEF StopsAt
<1>2. \A answer : SafeAnswer(page \ ignored, answer) => SafeAnswer(page, answer)
  BY DEF SafeAnswer
<1> QED BY <1>1, <1>2

\* An unreachable portal is no answer.
LEMMA DirectIsSafe ==
  ASSUME NEW page, NEW answer, SafeAnswer(page, answer)
  PROVE  SafeAnswer(page, Direct(page, answer))
BY DEF SafeAnswer, Direct, Raised

\* So no script completes a gate from an unsafe page, whatever the portal
\* shows.  Texas has no script: its page is classified as it is.
LEMMA ScriptsAreSafe ==
  ASSUME NEW page, NEW s
  PROVE  SafeAnswer(page, STATE_SCRIPT_RUNNERS(s, page))
<1> DEFINE Safe(answer) == SafeAnswer(page, answer)
<1> HIDE DEF Safe
<1>1. Safe(classify_review_signals(page)) BY ClassifiedIsSafe DEF Safe
<1>2. \A answer : Safe(answer) => Safe(Direct(page, answer)) BY DirectIsSafe DEF Safe
<1>3. \A walls : \A wanted \in {Login, Applicant, "trusted_access_required"} :
        /\ Safe(StopsAt(page, walls, wanted))
        /\ Safe(StopsAt(page \ {"gate"}, walls, wanted))
        /\ Safe(StopsAt(page \ {"denied"}, walls, wanted))
  BY StopIsSafe DEF Safe, Wanted
<1>4. Safe(script_ca_bizfile(page))
  <2>1. Safe(Login) BY DEF Safe, SafeAnswer, Login, Statuses
  <2> QED BY <1>1, <1>2, <2>1 DEF script_ca_bizfile
<1>5. Safe(script_de_ecorp_document_upload(page))
  <2>1. Safe("requires_registered_agent_intermediary") BY DEF Safe, SafeAnswer, Statuses
  <2> QED BY <1>2, <2>1 DEF script_de_ecorp_document_upload
<1>6. /\ Safe(script_co_business_filing(page))
      /\ Safe(script_ct_business_services(page))
      /\ Safe(script_ok_sos_wizard(page))
      /\ Safe(script_al_sos_online_services(page))
      /\ Safe(script_ar_sos_corpfilings(page))
      /\ Safe(script_ak_cbpl_create_entity(page))
      /\ Safe(script_az_ecorp(page))
      /\ Safe(script_fl_sunbiz_efile(page))
      /\ Safe(script_ga_ecorp(page))
      /\ Safe(script_hi_bizex(page))
      /\ Safe(script_ia_fast_track_filing(page))
      /\ Safe(script_id_sosbiz(page))
  BY <1>2, <1>3
  DEF script_co_business_filing, script_ct_business_services,
      script_ok_sos_wizard, script_al_sos_online_services,
      script_ar_sos_corpfilings, script_ak_cbpl_create_entity, script_az_ecorp,
      script_fl_sunbiz_efile, script_ga_ecorp, script_hi_bizex,
      script_ia_fast_track_filing, script_id_sosbiz
<1>7. /\ Safe(script_in_inbiz(page))
      /\ Safe(script_il_corporatellc(page))
      /\ Safe(script_ks_eforms(page))
      /\ Safe(script_ky_fasttrack(page))
      /\ Safe(script_la_geauxbiz(page))
      /\ Safe(script_ma_corpweb(page))
      /\ Safe(script_md_business_express(page))
      /\ Safe(script_me_aro(page))
      /\ Safe(script_mi_mibusiness_registry(page))
      /\ Safe(script_mn_mbls(page))
      /\ Safe(script_mo_bsd(page))
      /\ Safe(script_ms_corp_portal(page))
  BY <1>2, <1>3
  DEF script_in_inbiz, script_il_corporatellc, script_ks_eforms,
      script_ky_fasttrack, script_la_geauxbiz, script_ma_corpweb,
      script_md_business_express, script_me_aro, script_mi_mibusiness_registry,
      script_mn_mbls, script_mo_bsd, script_ms_corp_portal
<1>8. /\ Safe(script_mt_biz_sosmt(page))
      /\ Safe(script_nc_sosnc_online_filing(page))
      /\ Safe(script_nd_firststop(page))
      /\ Safe(script_ne_corp_filing(page))
      /\ Safe(script_nh_quickstart(page))
      /\ Safe(script_nj_business_formation(page))
      /\ Safe(script_nm_enterprise(page))
      /\ Safe(script_nv_silverflume(page))
      /\ Safe(script_ny_business_express(page))
      /\ Safe(script_oh_obc(page))
      /\ Safe(script_or_cbr_manager(page))
      /\ Safe(script_pa_file_dos(page))
  BY <1>2, <1>3
  DEF script_mt_biz_sosmt, script_nc_sosnc_online_filing, script_nd_firststop,
      script_ne_corp_filing, script_nh_quickstart,
      script_nj_business_formation, script_nm_enterprise,
      script_nv_silverflume, script_ny_business_express, script_oh_obc,
      script_or_cbr_manager, script_pa_file_dos
<1>9. /\ Safe(script_ri_business_sos(page))
      /\ Safe(script_sc_business_filings(page))
      /\ Safe(script_sd_sosenterprise(page))
      /\ Safe(script_tn_tnbear(page))
      /\ Safe(script_ut_business_registration(page))
      /\ Safe(script_va_cis_scc(page))
      /\ Safe(script_vt_bizfilings(page))
      /\ Safe(script_wa_ccfs(page))
      /\ Safe(script_wv_onestop(page))
      /\ Safe(script_wi_wdfi(page))
      /\ Safe(script_wy_wyobiz(page))
      /\ Safe(script_dc_corponline(page))
  BY <1>2, <1>3
  DEF script_ri_business_sos, script_sc_business_filings,
      script_sd_sosenterprise, script_tn_tnbear,
      script_ut_business_registration, script_va_cis_scc, script_vt_bizfilings,
      script_wa_ccfs, script_wv_onestop, script_wi_wdfi, script_wy_wyobiz,
      script_dc_corponline
<1> QED
  BY <1>1, <1>2, <1>4, <1>5, <1>6, <1>7, <1>8, <1>9 DEF STATE_SCRIPT_RUNNERS, Safe

\* So what a visit records is a result, and a safe one.
LEMMA VisitIsSafe ==
  ASSUME NEW visit \in Visits[state], state \in States, visit.status # Raised
  PROVE  IsResult(visit) /\ SafeResult(visit)
<1>1. PICK page \in Pages : visit = browser_certify(state, page) BY DEF Visits
<1>2. SafeAnswer(page, STATE_SCRIPT_RUNNERS(state, page)) BY ScriptsAreSafe
<1> HIDE DEF Pages
<1>3. visit = [status |-> STATE_SCRIPT_RUNNERS(state, page), by |-> "run",
               seen |-> IF STATE_SCRIPT_RUNNERS(state, page) # "complete" THEN {}
                        ELSE page \cap {"challenge", "login", "review", "submit"}]
  BY <1>1 DEF browser_certify
<1>4. page \cap {"challenge", "login", "review", "submit"} \subseteq Signs BY DEF Signs
<1> QED BY <1>2, <1>3, <1>4 DEF SafeAnswer, IsResult, SafeResult

\* So is what a dry run records, which completes nothing.
LEMMA DryRunIsSafe ==
  ASSUME NEW item PROVE IsResult(dry_run_certify(item)) /\ SafeResult(dry_run_certify(item))
BY DEF dry_run_certify, IsResult, SafeResult, Statuses

-----------------------------------------------------------------------------
\* A certifier's step changes its own entry of run and no other.
LEMMA OwnEntry ==
  ASSUME DOMAIN run = Runs, NEW r \in Runs, NEW entry, run' = [run EXCEPT ![r] = entry]
  PROVE  /\ DOMAIN run' = Runs
         /\ run'[r] = entry
         /\ \A q \in Runs \ {r} : run'[q] = run[q]
OBVIOUS

\* What a certifier is doing.  TypeOK does not say that there are no other
\* certifiers, nor that an entry with a file loaded has nothing but that file,
\* the gate and its result.
WellFormed(entry) ==
  \/ entry = Idle
  \/ /\ entry.phase \in {"planned", "certified"}
     /\ entry.gate \in Certifiable
     /\ entry.phase = "certified" => IsResult(entry.result)
  \/ /\ DOMAIN entry = {"phase", "payload", "gate", "result"}
     /\ entry.phase \in {"loaded", "writing"}
     /\ entry.gate \in Certifiable
     /\ IsResult(entry.result)
     /\ IsFile(entry.payload)

RunShape == DOMAIN run = Runs /\ \A r \in Runs : WellFormed(run[r])

\* No file, and the one of the repository, are files.
LEMMA FileFacts ==
  /\ IsFile(NoFile) /\ SafeFile(NoFile) /\ NoFile # Torn
  /\ IsFile(HandCertified) /\ SafeFile(HandCertified) /\ HandCertified # Torn
  /\ Certifiable \subseteq {Codes[k] : k \in DOMAIN Codes}
BY DEF IsFile, SafeFile, NoFile, HandCertified, ByHand, IsResult, SafeResult, Torn,
       Statuses, Signs, Certifiable, Codes

TypeInv == TypeOK /\ RunShape

\* The steps of one certifier.
CertifierStep(r) ==
  \/ run_certifications(r) \/ certify_dry(r) \/ certify_in_browser(r)
  \/ write_gate_result_load(r) \/ write_gate_result_open(r)
  \/ write_gate_result(r) \/ Die(r)

\* Of the gates before a jurisdiction one is the first.
LEMMA FirstOfMany ==
  ASSUME NEW S \in SUBSET Nat, S # {}
  PROVE  \E k \in S : \A l \in S : k <= l
<1>1. PICK k \in S : \A l \in S : ~(<<l, k>> \in OpToRel(<, Nat))
  BY NatLessThanWellFounded, WFMin, Zenon
<1>2. \A l \in S : l < k => <<l, k>> \in OpToRel(<, Nat) BY DEF OpToRel
<1>3. \A l \in S : ~(l < k) BY <1>1, <1>2, Zenon
<1>4. k \in Nat /\ \A l \in S : l \in Nat OBVIOUS
<1> QED BY <1>3, <1>4

\* The next gate is an unfinished one, unless there is none.
LEMMA NextGateIsOpen ==
  \/ /\ next_certification_gate = "none"
     /\ \A k \in DOMAIN Codes :
          certification_gates[Codes[k]] \notin INCOMPLETE_GATE_STATUSES
  \/ \E k \in DOMAIN Codes :
       /\ next_certification_gate = Codes[k]
       /\ certification_gates[Codes[k]] \in INCOMPLETE_GATE_STATUSES
<1> DEFINE open == {k \in DOMAIN Codes :
                      certification_gates[Codes[k]] \in INCOMPLETE_GATE_STATUSES}
           first == CHOOSE k \in open : \A l \in open : k <= l
<1> HIDE DEF open, first
<1>1. next_certification_gate = IF open = {} THEN "none" ELSE Codes[first]
  BY DEF next_certification_gate, open, first
<1>2. open # {} => first \in open
  <2> SUFFICES ASSUME open # {} PROVE \E k \in open : \A l \in open : k <= l BY DEF first
  <2>1. open \in SUBSET Nat BY DEF open, Codes
  <2> QED BY <2>1, FirstOfMany
<1> QED BY <1>1, <1>2 DEF open

\* A gate the certifier is started for is one it handles, and is unfinished.
LEMMA TargetFacts ==
  ASSUME target_states
  PROVE  /\ next_certification_gate \in Certifiable
         /\ certification_gates[next_certification_gate] \in INCOMPLETE_GATE_STATUSES
BY NextGateIsOpen DEF target_states, Certifiable

\* The file a certifier writes: its result over what it had read.
LEMMA WrittenFile ==
  ASSUME NEW file, IsFile(file), NEW code \in Certifiable, NEW result, IsResult(result),
         NEW written,
         written = [c \in DOMAIN file \cup {code} |-> IF c = code THEN result ELSE file[c]]
  PROVE  IsFile(written) /\ written # Torn
<1>1. IsFile(written) BY FileFacts DEF IsFile
<1>2. code \in DOMAIN written /\ code # "unreadable" BY DEF Certifiable
<1> QED BY <1>1, <1>2 DEF Torn

\* A well-formed entry is what TypeOK asks of it.
LEMMA WellFormedType ==
  ASSUME NEW entry, WellFormed(entry)
  PROVE  \/ entry = Idle
         \/ /\ entry.phase \in {"planned", "certified", "loaded", "writing"}
            /\ entry.gate \in Certifiable
            /\ entry.phase # "planned" => IsResult(entry.result)
            /\ entry.phase \in {"loaded", "writing"} => IsFile(entry.payload)
BY DEF WellFormed

\* A certifier's own steps keep to the types.
LEMMA CertifierKeepsType ==
  ASSUME TypeInv, NEW r \in Runs, CertifierStep(r)
  PROVE  TypeInv'
<1>0. ASSUME NEW entry, WellFormed(entry), run' = [run EXCEPT ![r] = entry],
             UNCHANGED <<state, records, readiness, entries>>,
             gatesFile' = Torn \/ IsFile(gatesFile'), starts' \in 0..MaxStarts,
             disturbed' \in BOOLEAN
      PROVE  TypeInv'
  <2>1. DOMAIN run' = Runs /\ \A q \in Runs : WellFormed(run'[q])
    BY <1>0, OwnEntry DEF TypeInv, RunShape
  <2> QED BY <1>0, <2>1, WellFormedType DEF TypeInv, TypeOK, RunShape
<1>1. CASE run_certifications(r)
  <2> DEFINE entry == [phase |-> "planned", trusted |-> TrustedLane,
                       gate |-> next_certification_gate]
  <2>1. WellFormed(entry) BY <1>1, TargetFacts DEF run_certifications, WellFormed
  <2>2. starts' \in 0..MaxStarts
    BY <1>1, BoundsAssumption DEF run_certifications, TypeInv, TypeOK
  <2> QED BY <1>0, <1>1, <2>1, <2>2 DEF run_certifications, TypeInv, TypeOK
<1>2. ASSUME NEW result, IsResult(result), Has(r, result), run[r].phase = "planned",
             UNCHANGED <<state, records, readiness, gatesFile, starts, entries, disturbed>>
      PROVE  TypeInv'
  <2> DEFINE entry == [phase |-> "certified", gate |-> run[r].gate, result |-> result]
  <2>1. WellFormed(entry) BY <1>2 DEF TypeInv, RunShape, WellFormed, Idle
  <2> QED BY <1>0, <1>2, <2>1 DEF Has, TypeInv, TypeOK
<1>3. CASE certify_dry(r) BY <1>2, <1>3, DryRunIsSafe DEF certify_dry
<1>4. ASSUME run' = [run EXCEPT ![r] = Idle],
             UNCHANGED <<state, records, readiness, starts, entries>>,
             gatesFile' = Torn \/ IsFile(gatesFile'), disturbed' \in BOOLEAN
      PROVE  TypeInv'
  <2>1. WellFormed(Idle) BY DEF WellFormed
  <2> QED BY <1>0, <1>4, <2>1 DEF TypeInv, TypeOK
<1>5. CASE certify_in_browser(r)
  <2>1. PICK visit \in Visits[state] :
          IF visit.status = Raised THEN run' = [run EXCEPT ![r] = Idle] ELSE Has(r, visit)
    BY <1>5 DEF certify_in_browser
  <2>2. state \in States BY DEF TypeInv, TypeOK
  <2>3. CASE visit.status = Raised
    BY <1>4, <1>5, <2>1, <2>3 DEF certify_in_browser, TypeInv, TypeOK
  <2>4. CASE visit.status # Raised
    BY <1>2, <1>5, <2>1, <2>2, <2>4, VisitIsSafe DEF certify_in_browser
  <2> QED BY <2>3, <2>4
<1>6. CASE write_gate_result_load(r)
  <2> DEFINE entry == [phase |-> "loaded", payload |-> load_certification_gate_overrides,
                       gate |-> run[r].gate, result |-> run[r].result]
  <2>1. IsFile(load_certification_gate_overrides)
    BY FileFacts DEF load_certification_gate_overrides, TypeInv, TypeOK
  <2>2. WellFormed(entry)
    BY <1>6, <2>1 DEF write_gate_result_load, WellFormed, TypeInv, RunShape, Idle
  <2> QED BY <1>0, <1>6, <2>2 DEF write_gate_result_load, TypeInv, TypeOK
<1>7. CASE write_gate_result_open(r)
  <2> DEFINE entry == [run[r] EXCEPT !.phase = "writing"]
  <2>1. WellFormed(entry)
    BY <1>7 DEF write_gate_result_open, WellFormed, TypeInv, RunShape, Idle
  <2>2. run' = [run EXCEPT ![r] = entry] BY <1>7 DEF write_gate_result_open
  <2> QED BY <1>0, <1>7, <2>1, <2>2 DEF write_gate_result_open, TypeInv, TypeOK
<1>8. CASE write_gate_result(r)
  <2>1. IsFile(run[r].payload) /\ run[r].gate \in Certifiable /\ IsResult(run[r].result)
    BY <1>8 DEF write_gate_result, WellFormed, TypeInv, RunShape, Idle
  <2>2. IsFile(gatesFile') BY <1>8, <2>1, WrittenFile DEF write_gate_result
  <2> QED BY <1>4, <1>8, <2>2 DEF write_gate_result, TypeInv, TypeOK
<1>9. CASE Die(r) BY <1>4, <1>9 DEF Die, TypeInv, TypeOK
<1> QED BY <1>1, <1>3, <1>5, <1>6, <1>7, <1>8, <1>9 DEF CertifierStep

\* So do a rebuilt matrix and a new certification of the portal's entry.
LEMMA MatrixKeepsType ==
  ASSUME TypeInv,
         \/ write_matrix
         \/ \E signs \in SUBSET {"challenge", "entry", "protected"} : certify_state(signs)
  PROVE  TypeInv'
<1>1. UNCHANGED <<state, gatesFile, run, starts, disturbed>>
  BY DEF write_matrix, certify_state
<1>2. records' \in BOOLEAN /\ entries' \in 0..MaxEntries
  BY BoundsAssumption DEF write_matrix, certify_state, TypeInv, TypeOK
<1>3. readiness' \in {Ready, Observed, Assisted, "not_ready",
                     "research_ready_certification_needed"}
  BY DEF write_matrix, certify_state, build_matrix, EntryReadiness, _readiness_from_signals
<1> QED BY <1>1, <1>2, <1>3 DEF TypeInv, TypeOK, RunShape

\* So every state has the types, and each certifier's entry its shape.
LEMMA TypeInvariant == Spec => []TypeInv
<1>1. Init => TypeInv
  <2>1. Init => /\ readiness \in {Ready, Observed, Assisted, "not_ready",
                                 "research_ready_certification_needed"}
                /\ gatesFile = Torn \/ IsFile(gatesFile)
    BY FileFacts DEF Init, build_matrix
  <2>2. Init => RunShape /\ \A r \in Runs : run[r] = Idle
    BY DEF Init, RunShape, WellFormed
  <2>3. Init => starts \in 0..MaxStarts /\ entries \in 0..MaxEntries
    BY BoundsAssumption DEF Init
  <2> QED BY <2>1, <2>2, <2>3 DEF Init, TypeInv, TypeOK
<1>2. TypeInv /\ [Next]_vars => TypeInv'
  <2>1. TypeInv /\ UNCHANGED vars => TypeInv' BY DEF vars, TypeInv, TypeOK, RunShape
  <2> QED BY <2>1, CertifierKeepsType, MatrixKeepsType DEF Next, CertifierStep
<1> QED BY <1>1, <1>2, PTL DEF Spec

\* Every variable of the certification keeps to its set of values.
THEOREM TypeCorrect == Spec => []TypeOK
<1>1. TypeInv => TypeOK BY DEF TypeInv
<1> QED BY <1>1, TypeInvariant, PTL

-----------------------------------------------------------------------------
\* The results a certifier holds, and those on file, are safe.
SafeEntry(entry) ==
  /\ entry.phase \in {"certified", "loaded", "writing"} => SafeResult(entry.result)
  /\ entry.phase \in {"loaded", "writing"} => SafeFile(entry.payload)

SafeInv ==
  /\ gatesFile = Torn \/ SafeFile(gatesFile)
  /\ \A r \in Runs : SafeEntry(run[r])

\* A certifier's own steps record safe results only.
LEMMA CertifierIsSafe ==
  ASSUME TypeInv, SafeInv, NEW r \in Runs, CertifierStep(r)
  PROVE  SafeInv'
<1>0. ASSUME NEW entry, SafeEntry(entry), run' = [run EXCEPT ![r] = entry],
             gatesFile' = Torn \/ SafeFile(gatesFile')
      PROVE  SafeInv'
  <2>1. \A q \in Runs : SafeEntry(run'[q])
    BY <1>0, OwnEntry DEF SafeInv, TypeInv, RunShape
  <2> QED BY <1>0, <2>1 DEF SafeInv, SafeEntry
<1>1. CASE run_certifications(r)
  <2> DEFINE entry == [phase |-> "planned", trusted |-> TrustedLane,
                       gate |-> next_certification_gate]
  <2>1. SafeEntry(entry) BY DEF SafeEntry
  <2> QED BY <1>0, <1>1, <2>1 DEF run_certifications, SafeInv
<1>2. ASSUME NEW result, SafeResult(result), Has(r, result), UNCHANGED gatesFile
      PROVE  SafeInv'
  <2> DEFINE entry == [phase |-> "certified", gate |-> run[r].gate, result |-> result]
  <2>1. SafeEntry(entry) BY <1>2 DEF SafeEntry
  <2> QED BY <1>0, <1>2, <2>1 DEF Has, SafeInv
<1>3. CASE certify_dry(r) BY <1>2, <1>3, DryRunIsSafe DEF certify_dry
<1>4. ASSUME run' = [run EXCEPT ![r] = Idle], gatesFile' = Torn \/ SafeFile(gatesFile')
      PROVE  SafeInv'
  <2>1. SafeEntry(Idle) BY DEF SafeEntry, Idle
  <2> QED BY <1>0, <1>4, <2>1
<1>5. CASE certify_in_browser(r)
  <2>1. PICK visit \in Visits[state] :
          IF visit.status = Raised THEN run' = [run EXCEPT ![r] = Idle] ELSE Has(r, visit)
    BY <1>5 DEF certify_in_browser
  <2>2. state \in States BY DEF TypeInv, TypeOK
  <2>3. CASE visit.status = Raised BY <1>4, <1>5, <2>1, <2>3 DEF certify_in_browser, SafeInv
  <2>4. CASE visit.status # Raised
    BY <1>2, <1>5, <2>1, <2>2, <2>4, VisitIsSafe DEF certify_in_browser
  <2> QED BY <2>3, <2>4
<1>6. CASE write_gate_result_load(r)
  <2> DEFINE entry == [phase |-> "loaded", payload |-> load_certification_gate_overrides,
                       gate |-> run[r].gate, result |-> run[r].result]
  <2>1. SafeFile(load_certification_gate_overrides)
    BY FileFacts DEF load_certification_gate_overrides, SafeInv
  <2>2. SafeEntry(entry) BY <1>6, <2>1 DEF write_gate_result_load, SafeInv, SafeEntry
  <2> QED BY <1>0, <1>6, <2>2 DEF write_gate_result_load, SafeInv
<1>7. CASE write_gate_result_open(r)
  <2> DEFINE entry == [run[r] EXCEPT !.phase = "writing"]
  <2>1. SafeEntry(entry)
    BY <1>7 DEF write_gate_result_open, SafeInv, SafeEntry, TypeInv, RunShape, WellFormed, Idle
  <2>2. run' = [run EXCEPT ![r] = entry] BY <1>7 DEF write_gate_result_open
  <2> QED BY <1>0, <1>7, <2>1, <2>2 DEF write_gate_result_open
<1>8. CASE write_gate_result(r)
  <2>1. SafeFile(gatesFile') BY <1>8 DEF write_gate_result, SafeInv, SafeEntry, SafeFile
  <2> QED BY <1>4, <1>8, <2>1 DEF write_gate_result
<1>9. CASE Die(r) BY <1>4, <1>9 DEF Die, SafeInv
<1> QED BY <1>1, <1>3, <1>5, <1>6, <1>7, <1>8, <1>9 DEF CertifierStep

\* Whatever the portals show, no gate is recorded complete from a page without
\* a review screen, behind a challenge or a login, or with a final submit: for
\* every script, every page and any number of certifiers.
THEOREM CompletedFromSafePages == Spec => []CompleteIsSafe
<1>1. Init => SafeInv BY FileFacts DEF Init, SafeInv, SafeEntry, Idle
<1>2. TypeInv /\ SafeInv /\ [Next]_vars => SafeInv'
  <2> SUFFICES ASSUME TypeInv, SafeInv, [Next]_vars PROVE SafeInv' OBVIOUS
  <2>1. CASE UNCHANGED <<gatesFile, run>> BY <2>1 DEF SafeInv
  <2>2. write_matrix \/ UNCHANGED vars => UNCHANGED <<gatesFile, run>>
    BY DEF write_matrix, vars
  <2>3. \A signs : certify_state(signs) => UNCHANGED <<gatesFile, run>> BY DEF certify_state
  <2> QED BY <2>1, <2>2, <2>3, CertifierIsSafe DEF Next, CertifierStep
<1>3. SafeInv => CompleteIsSafe
  BY FileFacts DEF SafeInv, CompleteIsSafe, load_certification_gate_overrides, SafeFile, SafeResult
<1> QED BY <1>1, <1>2, <1>3, TypeInvariant, PTL DEF Spec

-----------------------------------------------------------------------------
\* The statuses of the gates, computed or from the file, are on the worklist's
\* list, complete, absent, or a dry run's: so what is unfinished is listed.
THEOREM UnfinishedStaysListed == Spec => []UnfinishedIsListed
<1>1. TypeInv => UnfinishedIsListed
  <2> SUFFICES ASSUME TypeInv, NEW c \in DOMAIN certification_gates,
                      certification_gates[c] \notin {"complete", "absent",
                                                    "pending_browser_certification"}
               PROVE  next_certification_gate # "none"
    BY DEF UnfinishedIsListed
  <2> DEFINE file == load_certification_gate_overrides
  <2>1. /\ c \in DOMAIN MatrixGates
        /\ certification_gates[c] = IF c \in DOMAIN file THEN file[c].status ELSE MatrixGates[c]
    BY DEF certification_gates, apply_gate_overrides
  <2>2. c \in DOMAIN file => file[c].status \in Statuses
    BY FileFacts DEF load_certification_gate_overrides, TypeInv, TypeOK, IsFile, IsResult
  <2>3. MatrixGates[c] \in {"complete", "pending", "needs_repair", "required", "absent"}
    BY <2>1 DEF MatrixGates, CompleteIf
  <2>4. certification_gates[c] \in INCOMPLETE_GATE_STATUSES
    BY <2>1, <2>2, <2>3 DEF Statuses, INCOMPLETE_GATE_STATUSES
  <2>5. \E k \in DOMAIN Codes : c = Codes[k] BY <2>1 DEF MatrixGates, Codes
  <2>6. \A k \in DOMAIN Codes : Codes[k] # "none" BY DEF Codes
  <2> QED BY <2>4, <2>5, <2>6, NextGateIsOpen
<1> QED BY <1>1, TypeInvariant, PTL

-----------------------------------------------------------------------------
\* As long as no two certifiers overlap: one works, and alone; the file is torn
\* while that one writes it and at no other time; what it has loaded is the
\* file; and the gate it works for was not complete on file.
Undisturbed ==
  /\ \A p, q \in Runs : run[p] # Idle /\ run[q] # Idle => p = q
  /\ gatesFile = Torn <=> \E r \in Runs : run[r].phase = "writing"
  /\ \A r \in Runs :
       /\ run[r].phase = "loaded" => run[r].payload = gatesFile
       /\ run[r] # Idle /\ run[r].gate \in DOMAIN Recorded =>
            Recorded[run[r].gate].status # "complete"

Alone == ~disturbed => Undisturbed

\* What is recorded while at most one certifier works.
LEMMA RecordedByOne ==
  ASSUME NEW r \in Runs, \A q \in Runs \ {r} : run[q] = Idle,
         gatesFile = Torn <=> run[r].phase = "writing"
  PROVE  Recorded = IF run[r].phase = "writing" THEN run[r].payload ELSE gatesFile
<1>1. \A q \in Runs : run[q].phase = "writing" => q = r BY DEF Idle
<1>2. CASE run[r].phase = "writing"
  <2> DEFINE w == CHOOSE q \in Runs : run[q].phase = "writing"
  <2>1. w \in Runs /\ run[w].phase = "writing" BY <1>2
  <2>2. w = r BY <1>1, <2>1
  <2> QED BY <1>2, <2>2 DEF Recorded
<1>3. CASE run[r].phase # "writing" BY <1>3 DEF Recorded
<1> QED BY <1>2, <1>3

\* The same after a step, and what is left to show for it.
LEMMA AloneAfterwards ==
  ASSUME NEW r \in Runs, DOMAIN run = Runs, NEW entry, run' = [run EXCEPT ![r] = entry],
         \A q \in Runs \ {r} : run[q] = Idle,
         gatesFile' = Torn <=> entry.phase = "writing",
         entry.phase = "loaded" => entry.payload = gatesFile'
  PROVE  LET recorded == IF entry.phase = "writing" THEN entry.payload ELSE gatesFile'
         IN  /\ Recorded' = recorded
             /\ (entry # Idle /\ entry.gate \in DOMAIN recorded =>
                    recorded[entry.gate].status # "complete") => Undisturbed'
<1> DEFINE recorded == IF entry.phase = "writing" THEN entry.payload ELSE gatesFile'
<1>1. run'[r] = entry /\ \A q \in Runs \ {r} : run'[q] = Idle BY OwnEntry
<1>2. \A q \in Runs : run'[q].phase = "writing" => q = r BY <1>1 DEF Idle
<1>3. Recorded' = recorded
  <2>1. CASE entry.phase = "writing"
    <3> DEFINE w == CHOOSE q \in Runs : run'[q].phase = "writing"
    <3>1. w \in Runs /\ run'[w].phase = "writing" BY <1>1, <2>1
    <3>2. w = r BY <1>2, <3>1
    <3> QED BY <1>1, <2>1, <3>2 DEF Recorded
  <2>2. CASE entry.phase # "writing" BY <2>2 DEF Recorded
  <2> QED BY <2>1, <2>2
<1>4. ASSUME entry # Idle /\ entry.gate \in DOMAIN recorded =>
               recorded[entry.gate].status # "complete"
      PROVE  Undisturbed'
  <2>1. \A p, q \in Runs : run'[p] # Idle /\ run'[q] # Idle => p = q BY <1>1
  <2>2. gatesFile' = Torn <=> \E q \in Runs : run'[q].phase = "writing" BY <1>1, <1>2
  <2>3. \A q \in Runs \ {r} : run'[q].phase # "loaded" BY <1>1 DEF Idle
  <2> HIDE DEF recorded
  <2> QED BY <1>1, <1>3, <1>4, <2>1, <2>2, <2>3 DEF Undisturbed
<1> QED BY <1>3, <1>4

\* What the action property asks of a step.
CompleteKept ==
  \A c \in DOMAIN Recorded :
    Recorded[c].status = "complete" => c \in DOMAIN Recorded' /\ Recorded'[c] = Recorded[c]

\* A gate on the worklist is not complete on file.
LEMMA TargetIsIncomplete ==
  ASSUME target_states, gatesFile # Torn, next_certification_gate \in DOMAIN gatesFile
  PROVE  gatesFile[next_certification_gate].status # "complete"
<1>1. /\ next_certification_gate \in DOMAIN MatrixGates
      /\ certification_gates[next_certification_gate] \in INCOMPLETE_GATE_STATUSES
  BY TargetFacts DEF Certifiable, MatrixGates
<1>2. certification_gates[next_certification_gate] = gatesFile[next_certification_gate].status
  BY <1>1 DEF certification_gates, apply_gate_overrides, load_certification_gate_overrides
<1> QED BY <1>1, <1>2 DEF INCOMPLETE_GATE_STATUSES

\* A certifier that works alone takes no complete gate away, at whichever step
\* it is.
LEMMA CertifierKeepsComplete ==
  ASSUME TypeInv, Undisturbed, NEW r \in Runs, CertifierStep(r), ~disturbed'
  PROVE  Undisturbed' /\ CompleteKept
<1>1. \A q \in Runs \ {r} : run[q] = Idle
  <2>1. CASE run[r] # Idle BY <2>1 DEF Undisturbed
  <2>2. CASE run[r] = Idle
    <3>1. run[r].phase = "idle" BY <2>2 DEF Idle
    <3>2. run_certifications(r)
      BY <2>2, <3>1
      DEF CertifierStep, certify_dry, certify_in_browser, write_gate_result_load,
          write_gate_result_open, write_gate_result, Die
    <3> QED BY <3>2 DEF run_certifications
  <2> QED BY <2>1, <2>2
<1>2. gatesFile = Torn <=> run[r].phase = "writing" BY <1>1 DEF Undisturbed, Idle
<1>3. Recorded = IF run[r].phase = "writing" THEN run[r].payload ELSE gatesFile
  BY <1>1, <1>2, RecordedByOne
<1>4. DOMAIN run = Runs BY DEF TypeInv, RunShape
<1>5. ASSUME NEW entry, run' = [run EXCEPT ![r] = entry],
             gatesFile' = Torn <=> entry.phase = "writing",
             entry.phase = "loaded" => entry.payload = gatesFile',
             Recorded = IF entry.phase = "writing" THEN entry.payload ELSE gatesFile',
             entry # Idle /\ entry.gate \in DOMAIN Recorded =>
               Recorded[entry.gate].status # "complete"
      PROVE  Undisturbed' /\ CompleteKept
  <2>1. Recorded' = Recorded /\ Undisturbed' BY <1>1, <1>4, <1>5, AloneAfterwards
  <2> QED BY <2>1 DEF CompleteKept
<1>6. run[r] # Idle /\ run[r].gate \in DOMAIN Recorded =>
        Recorded[run[r].gate].status # "complete"
  BY DEF Undisturbed
<1>7. CASE run_certifications(r)
  <2> DEFINE entry == [phase |-> "planned", trusted |-> TrustedLane,
                       gate |-> next_certification_gate]
  <2>1. gatesFile # Torn BY <1>2, <1>7 DEF run_certifications, Idle
  <2> QED BY <1>2, <1>3, <1>5, <1>7, <2>1, TargetIsIncomplete DEF run_certifications
<1>8. ASSUME NEW result, Has(r, result), run[r].phase = "planned", UNCHANGED gatesFile
      PROVE  Undisturbed' /\ CompleteKept
  <2> DEFINE entry == [phase |-> "certified", gate |-> run[r].gate, result |-> result]
  <2>1. entry.phase = "certified" /\ entry.gate = run[r].gate OBVIOUS
  <2>2. run' = [run EXCEPT ![r] = entry] BY <1>8 DEF Has
  <2>3. gatesFile' # Torn /\ Recorded = gatesFile' /\ run[r] # Idle
    BY <1>2, <1>3, <1>8 DEF Idle
  <2> HIDE DEF entry
  <2> QED BY <1>5, <1>6, <2>1, <2>2, <2>3
<1>9. CASE certify_dry(r) BY <1>8, <1>9 DEF certify_dry
<1>10. ASSUME run' = [run EXCEPT ![r] = Idle], run[r].phase # "writing", UNCHANGED gatesFile
       PROVE  Undisturbed' /\ CompleteKept
  BY <1>2, <1>3, <1>5, <1>10 DEF Idle
<1>11. CASE certify_in_browser(r) BY <1>8, <1>10, <1>11 DEF certify_in_browser
<1>12. CASE write_gate_result_load(r)
  <2> DEFINE entry == [phase |-> "loaded", payload |-> load_certification_gate_overrides,
                       gate |-> run[r].gate, result |-> run[r].result]
  <2>1. gatesFile # Torn /\ run[r] # Idle BY <1>2, <1>12 DEF write_gate_result_load, Idle
  <2> QED
    BY <1>2, <1>3, <1>5, <1>6, <1>12, <2>1
    DEF write_gate_result_load, load_certification_gate_overrides
<1>13. CASE write_gate_result_open(r)
  <2> DEFINE entry == [run[r] EXCEPT !.phase = "writing"]
  <2>1. run[r].phase = "loaded" /\ run[r] # Idle BY <1>13 DEF write_gate_result_open, Idle
  <2>2. DOMAIN run[r] = {"phase", "payload", "gate", "result"}
    BY <2>1 DEF TypeInv, RunShape, WellFormed
  <2>3. entry.phase = "writing" /\ entry.payload = run[r].payload /\ entry.gate = run[r].gate
    BY <2>2
  <2>4. run[r].payload = gatesFile BY <2>1 DEF Undisturbed
  <2>5. run' = [run EXCEPT ![r] = entry] /\ gatesFile' = Torn
    BY <1>13 DEF write_gate_result_open
  <2>6. Recorded = entry.payload BY <1>3, <2>1, <2>3, <2>4
  <2> HIDE DEF entry
  <2>7. gatesFile' = Torn <=> entry.phase = "writing" BY <2>3, <2>5
  <2>8. entry.phase # "loaded" BY <2>3
  <2>9. entry.gate \in DOMAIN Recorded => Recorded[entry.gate].status # "complete"
    BY <1>6, <2>1, <2>3
  <2> QED BY <1>5, <2>3, <2>5, <2>6, <2>7, <2>8, <2>9
<1>14. CASE write_gate_result(r)
  <2> DEFINE file == run[r].payload
  <2>1. run[r].phase = "writing" /\ run[r] # Idle BY <1>14 DEF write_gate_result, Idle
  <2>2. IsFile(file) /\ run[r].gate \in Certifiable /\ IsResult(run[r].result)
    BY <2>1 DEF TypeInv, RunShape, WellFormed
  <2>3. /\ gatesFile' = [c \in DOMAIN file \cup {run[r].gate} |->
                           IF c = run[r].gate THEN run[r].result ELSE file[c]]
        /\ run' = [run EXCEPT ![r] = Idle]
    BY <1>14 DEF write_gate_result
  <2>4. gatesFile' # Torn BY <2>2, <2>3, WrittenFile
  <2>5. Recorded' = gatesFile' /\ Undisturbed'
    BY <1>1, <1>4, <2>3, <2>4, AloneAfterwards DEF Idle
  <2>6. Recorded = file BY <1>3, <2>1
  <2> HIDE DEF file
  <2> QED BY <1>6, <2>1, <2>3, <2>5, <2>6 DEF CompleteKept
<1>15. CASE Die(r)
  <2>1. run[r].phase # "writing" BY <1>15 DEF Die
  <2> QED BY <1>10, <1>15, <2>1 DEF Die
<1> QED BY <1>7, <1>9, <1>11, <1>12, <1>13, <1>14, <1>15 DEF CertifierStep

\* A gate certified complete stays so, whatever is certified after it and
\* however the matrix changes, as long as no two certifiers overlap and none
\* dies while it writes the file.
THEOREM CompletedIsKept == Spec => CompletedStays
<1>1. Init => Alone
  <2>1. Init => gatesFile # Torn BY FileFacts DEF Init
  <2>2. Init => \A r \in Runs : run[r] = Idle BY DEF Init
  <2> QED BY <2>1, <2>2 DEF Alone, Undisturbed, Idle
<1>2. TypeInv /\ Alone /\ [Next]_vars => Alone' /\ (~disturbed' => CompleteKept)
  <2> SUFFICES ASSUME TypeInv, Alone, [Next]_vars, ~disturbed'
               PROVE  Undisturbed' /\ CompleteKept
    BY DEF Alone
  <2>1. ~disturbed
    BY DEF Next, vars, write_matrix, certify_state, run_certifications, certify_dry,
           certify_in_browser, write_gate_result_load, write_gate_result_open,
           write_gate_result, Die
  <2>2. Undisturbed BY <2>1 DEF Alone
  <2>3. CASE UNCHANGED <<gatesFile, run>>
    <3>1. Recorded' = Recorded BY <2>3 DEF Recorded
    <3> QED BY <2>2, <2>3, <3>1 DEF Undisturbed, CompleteKept
  <2>4. write_matrix \/ UNCHANGED vars => UNCHANGED <<gatesFile, run>>
    BY DEF write_matrix, vars
  <2>5. \A signs : certify_state(signs) => UNCHANGED <<gatesFile, run>> BY DEF certify_state
  <2> QED BY <2>2, <2>3, <2>4, <2>5, CertifierKeepsComplete DEF Next, CertifierStep
<1> QED BY <1>1, <1>2, TypeInvariant, PTL DEF Spec, CompletedStays, CompleteKept
=============================================================================
