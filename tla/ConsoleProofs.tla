---------------------------- MODULE ConsoleProofs ----------------------------
(***************************************************************************)
(* Proofs about the pages of the consoles: forms that mail codes, the      *)
(* wallet, tabs and their session, sheets, settings.  Each page has its    *)
(* types and its inductive invariants; the theorems at the end are about   *)
(* Console, in which one of them is the page looked at.                    *)
(***************************************************************************)
EXTENDS Console, FiniteSetTheorems, WellFoundedInduction, TLAPS

-----------------------------------------------------------------------------
(* Forms that mail codes: types                                            *)

MailAddress == Emails \cup {""}
MailEntry == [email : MailAddress, code : Nat, wait : 0..Ticks, loading : BOOLEAN, shown : Nat]
Mail == [purpose : Purposes, to : Emails, code : Nat]
Letter == [pc : {"sent", "back", "verified"}, from : People, op : {"ask", "prove"}, email : Emails,
           code : Nat, answer : {"ok", "refused", "broken", "garbled"}, data : Nat]
MailTally == [codes : Nat, typed : Nat, requests : Nat, faults : Nat]

\* Types of the forms, the codes and the requests.
MailTypes ==
    /\ desk \in [People -> Forms]
    /\ entry \in [People -> MailEntry]
    /\ account \in [People -> MailAddress]
    /\ proof \in [People -> Nat]
    /\ password \in Nat \ {0}
    /\ codes \in [Purposes -> [Emails -> Nat]]
    /\ mails \subseteq Mail
    /\ letter \in [Letters -> Letter \cup {NoLetter}]
    /\ written \in MailTally
    /\ takenAt \in [Emails -> Nat]

\* The values of the fields of an entry, and what changing them leaves of it.
LEMMA EntryFields ==
    ASSUME NEW r \in MailEntry
    PROVE  /\ r.email \in MailAddress /\ r.code \in Nat /\ r.wait \in 0..Ticks
           /\ r.loading \in BOOLEAN /\ r.shown \in Nat
           /\ \A e \in MailAddress : [r EXCEPT !.email = e] \in MailEntry
           /\ \A e \in MailAddress, c \in Nat : [r EXCEPT !.code = c, !.email = e] \in MailEntry
           /\ \A w \in 0..Ticks : [r EXCEPT !.wait = w] \in MailEntry
           /\ \A b \in BOOLEAN : [r EXCEPT !.loading = b] \in MailEntry
           /\ \A b \in BOOLEAN, w \in 0..Ticks : [r EXCEPT !.loading = b, !.wait = w] \in MailEntry
           /\ \A b \in BOOLEAN, n \in Nat : [r EXCEPT !.loading = b, !.shown = n] \in MailEntry
  BY DEF MailEntry

\* The same of a request, and of the counters.
LEMMA LetterFields ==
    ASSUME NEW r \in Letter
    PROVE  /\ r.pc \in {"sent", "back", "verified"} /\ r.from \in People /\ r.op \in {"ask", "prove"}
           /\ r.email \in Emails /\ r.code \in Nat /\ r.data \in Nat
           /\ r.answer \in {"ok", "refused", "broken", "garbled"}
           /\ [r EXCEPT !.pc = "verified"] \in Letter
           /\ \A a \in {"ok", "refused", "broken", "garbled"} : [r EXCEPT !.pc = "back", !.answer = a] \in Letter
           /\ \A n \in Nat : [r EXCEPT !.pc = "back", !.data = n] \in Letter
  BY DEF Letter
LEMMA TallyFields ==
    ASSUME NEW w \in MailTally
    PROVE  /\ w.codes \in Nat /\ w.requests \in Nat /\ w.typed \in Nat /\ w.faults \in Nat
           /\ [w EXCEPT !.requests = @ + 1] \in MailTally /\ [w EXCEPT !.typed = @ + 1] \in MailTally
           /\ [w EXCEPT !.faults = @ + 1] \in MailTally
           /\ \A n \in Nat : /\ [w EXCEPT !.codes = n] \in MailTally
                              /\ [w EXCEPT !.codes = n, !.faults = w.faults + 1] \in MailTally
  <1>1. /\ w.codes \in Nat /\ w.requests \in Nat /\ w.typed \in Nat /\ w.faults \in Nat
        /\ w.requests + 1 \in Nat /\ w.typed + 1 \in Nat /\ w.faults + 1 \in Nat
    BY DEF MailTally
  <1>. QED BY <1>1 DEF MailTally

LEMMA MailTypesInit ==
    ASSUME MailInit
    PROVE  MailTypes
  <1>1. desk \in [People -> Forms]
    BY SeatsAssumption DEF MailInit
  <1>2. entry \in [People -> MailEntry]
    <2>1. [email |-> "", code |-> 0, wait |-> 0, loading |-> FALSE, shown |-> 0] \in MailEntry
      BY CountdownAssumption DEF MailEntry, MailAddress
    <2>. QED BY <2>1 DEF MailInit
  <1>3. account \in [People -> MailAddress]
    BY DEF MailInit, MailAddress
  <1>4. codes \in [Purposes -> [Emails -> Nat]]
    BY DEF MailInit
  <1>5. written \in MailTally
    BY DEF MailInit, MailTally
  <1>6. letter \in [Letters -> Letter \cup {NoLetter}]
    <2>1. letter = [l \in Letters |-> NoLetter]
      BY DEF MailInit
    <2>. QED BY <2>1
  <1>7. /\ proof \in [People -> Nat] /\ password \in Nat \ {0} /\ mails \subseteq Mail
        /\ takenAt \in [Emails -> Nat]
    <2>1. /\ proof = [p \in People |-> 0] /\ password = 1 /\ mails = {}
          /\ takenAt = [e \in Emails |-> 0]
      BY DEF MailInit
    <2>. QED BY <2>1
  <1>. QED BY <1>1, <1>2, <1>3, <1>4, <1>5, <1>6, <1>7 DEF MailTypes

\* A request is written to an idle lane.
MailSent(en, p, op) == [pc |-> "sent", from |-> p, op |-> op, email |-> en.email,
                    code |-> en.code, answer |-> "ok", data |-> 0]
LEMMA Posted ==
    ASSUME MailTypes, NEW p \in People, NEW op \in {"ask", "prove"}, entry[p].email # "", Write(p, op)
    PROVE  /\ \E l \in Letters : letter[l].pc = "idle" /\ letter' = [letter EXCEPT ![l] = MailSent(entry[p], p, op)]
           /\ MailSent(entry[p], p, op) \in Letter
           /\ letter' \in [Letters -> Letter \cup {NoLetter}]
           /\ written' \in MailTally
           /\ written'.codes = written.codes
  <1>1. PICK l \in Letters : letter[l].pc = "idle" /\ letter' = [letter EXCEPT ![l] = MailSent(entry[p], p, op)]
    BY DEF Write, MailSent
  <1>2. entry[p].email \in Emails /\ entry[p].code \in Nat
    BY EntryFields DEF MailTypes, MailAddress
  <1>3. MailSent(entry[p], p, op) \in Letter
    BY <1>2 DEF Letter, MailSent
  <1>4. written' \in MailTally /\ written'.codes = written.codes
    <2>1. written \in MailTally /\ written' = [written EXCEPT !.requests = @ + 1]
      BY DEF Write, MailTypes
    <2>2. written'.codes = written.codes
      BY <2>1 DEF MailTally
    <2>. QED BY <2>1, <2>2, TallyFields
  <1>5. letter' \in [Letters -> Letter \cup {NoLetter}]
    BY <1>1, <1>3 DEF MailTypes
  <1>. QED BY <1>1, <1>3, <1>4, <1>5

\* A request that is under way is a request.
LEMMA UnderWay ==
    ASSUME MailTypes, NEW l \in Letters, letter[l].pc # "idle"
    PROVE  letter[l] \in Letter
  <1>1. letter[l] \in Letter \cup {NoLetter}
    BY DEF MailTypes
  <1>. QED BY <1>1 DEF NoLetter

\* Its answer.
LEMMA RepliedType ==
    ASSUME MailTypes, NEW l \in Letters, letter[l].pc # "idle",
           NEW a \in {"ok", "refused", "broken", "garbled"}, Replied(l, a)
    PROVE  /\ letter' \in [Letters -> Letter \cup {NoLetter}]
           /\ \A k \in Letters \ {l} : letter'[k] = letter[k]
           /\ letter'[l] = [letter[l] EXCEPT !.pc = "back", !.answer = a]
  <1>1. letter[l] \in Letter
    BY UnderWay
  <1>2. letter' = [letter EXCEPT ![l] = [letter[l] EXCEPT !.pc = "back", !.answer = a]]
    BY DEF Replied, MailTypes
  <1>3. [letter[l] EXCEPT !.pc = "back", !.answer = a] \in Letter
    BY <1>1, LetterFields
  <1>. QED BY <1>2, <1>3 DEF MailTypes

LEMMA MailTypesStep ==
    ASSUME MailTypes, MailStep
    PROVE  MailTypes'
  <1>1. ASSUME NEW p \in People, TypeAddress(p) PROVE MailTypes'
    <2>3. PICK e \in Emails : entry' = [entry EXCEPT ![p].email = e]
      BY <1>1 DEF TypeAddress, MailTypes
    <2>4. [entry[p] EXCEPT !.email = e] \in MailEntry
      <3>1. entry[p] \in MailEntry /\ e \in MailAddress
        BY DEF MailTypes, MailAddress
      <3>. QED BY <3>1, EntryFields
    <2>1. entry' \in [People -> MailEntry]
      BY <2>3, <2>4 DEF MailTypes
    <2>2. written' \in MailTally
      BY <1>1, TallyFields DEF TypeAddress, MailTypes
    <2>. QED BY <1>1, <2>1, <2>2 DEF TypeAddress, MailTypes
  <1>2. ASSUME NEW p \in People, CopyCode(p) PROVE MailTypes'
    <2>1. PICK m \in mails :
            entry' = [entry EXCEPT ![p].code = m.code, ![p].email = IF m.purpose = "r" THEN m.to ELSE @]
      BY <1>2 DEF CopyCode, MailTypes
    <2>2. entry[p] \in MailEntry /\ m.code \in Nat /\ m.to \in Emails
      BY DEF Mail, MailTypes
    <2>3. entry' = [entry EXCEPT ![p] = [entry[p] EXCEPT !.code = m.code,
                                             !.email = IF m.purpose = "r" THEN m.to ELSE entry[p].email]]
      BY <2>1, <2>2 DEF MailEntry, MailTypes
    <2>5. (IF m.purpose = "r" THEN m.to ELSE entry[p].email) \in MailAddress
      BY <2>2, EntryFields DEF MailAddress
    <2>6. [entry[p] EXCEPT !.code = m.code, !.email = IF m.purpose = "r" THEN m.to ELSE entry[p].email] \in MailEntry
      BY <2>2, <2>5, EntryFields
    <2>4. entry' \in [People -> MailEntry]
      BY <2>3, <2>6 DEF MailTypes
    <2>. QED BY <1>2, <2>4 DEF CopyCode, MailTypes
  <1>3. ASSUME NEW p \in People, AskCode(p) PROVE MailTypes'
    <2>1. entry[p] \in MailEntry
      BY DEF MailTypes
    <2>2. entry' = [entry EXCEPT ![p] = [entry[p] EXCEPT !.loading = TRUE,
                                             !.wait = IF desk[p] = "register" THEN entry[p].wait ELSE Ticks]]
      BY <1>3, <2>1 DEF AskCode, MailEntry, MailTypes
    <2>5. (IF desk[p] = "register" THEN entry[p].wait ELSE Ticks) \in 0..Ticks
      <3>1. entry[p].wait \in 0..Ticks /\ Ticks \in 0..Ticks
        <4>1. entry[p].wait \in 0..Ticks
          BY <2>1, EntryFields
        <4>. QED BY <4>1, CountdownAssumption
      <3>. QED BY <3>1
    <2>6. [entry[p] EXCEPT !.loading = TRUE,
                           !.wait = IF desk[p] = "register" THEN entry[p].wait ELSE Ticks] \in MailEntry
      BY <2>1, <2>5, EntryFields DEF MailTypes
    <2>3. entry' \in [People -> MailEntry]
      BY <2>2, <2>6 DEF MailTypes
    <2>4. letter' \in [Letters -> Letter \cup {NoLetter}] /\ written' \in MailTally
      <3>1. Write(p, "ask") /\ entry[p].email # ""
        BY <1>3 DEF AskCode, MailTypes
      <3>. QED BY <3>1, Posted
    <2>. QED BY <1>3, <2>3, <2>4 DEF AskCode, MailTypes
  <1>4. ASSUME NEW p \in People, AskNothing(p) PROVE MailTypes'
    <2>2. entry[p] \in MailEntry /\ Ticks \in 0..Ticks
      BY CountdownAssumption DEF MailTypes
    <2>3. [entry[p] EXCEPT !.wait = Ticks] \in MailEntry
      BY <2>2, EntryFields DEF MailTypes
    <2>1. entry' \in [People -> MailEntry]
      BY <1>4, <2>3 DEF AskNothing, MailTypes
    <2>. QED BY <1>4, <2>1 DEF AskNothing, MailTypes
  <1>5. ASSUME NEW p \in People, Tick(p) PROVE MailTypes'
    <2>1. entry[p] \in MailEntry /\ entry[p].wait - 1 \in 0..Ticks
      <3>1. entry[p] \in MailEntry
        BY DEF MailTypes
      <3>2. entry[p].wait \in 0..Ticks /\ entry[p].wait > 0
        BY <1>5, <3>1, EntryFields DEF Tick
      <3>. QED BY <3>1, <3>2, CountdownAssumption
    <2>3. [entry[p] EXCEPT !.wait = entry[p].wait - 1] \in MailEntry
      BY <2>1, EntryFields DEF MailTypes
    <2>2. entry' \in [People -> MailEntry]
      BY <1>5, <2>3 DEF Tick, MailTypes
    <2>. QED BY <1>5, <2>2 DEF Tick, MailTypes
  <1>6. ASSUME NEW p \in People, Submits(p) PROVE MailTypes'
    <2>1. entry[p] \in MailEntry /\ (entry[p].loading \/ desk[p] \in {"bind", "personal"}) \in BOOLEAN
      BY DEF MailTypes
    <2>2. entry' \in [People -> MailEntry]
      BY <1>6, <2>1, EntryFields DEF Submits, MailTypes
    <2>3. letter' \in [Letters -> Letter \cup {NoLetter}] /\ written' \in MailTally
      <3>1. Write(p, "prove") /\ entry[p].email # ""
        BY <1>6 DEF Submits, MailTypes
      <3>. QED BY <3>1, Posted
    <2>. QED BY <1>6, <2>2, <2>3 DEF Submits, MailTypes
  <1>7. CASE Expire
    <2>1. written' \in MailTally
      BY <1>7, TallyFields DEF Expire, CountFault, MailTypes
    <2>3. PICK pu \in Purposes, e \in Emails : codes' = [codes EXCEPT ![pu][e] = 0]
      BY <1>7 DEF Expire, MailTypes
    <2>4. [codes[pu] EXCEPT ![e] = 0] \in [Emails -> Nat]
      BY DEF MailTypes
    <2>2. codes' \in [Purposes -> [Emails -> Nat]]
      BY <2>3, <2>4 DEF MailTypes
    <2>. QED BY <1>7, <2>1, <2>2 DEF Expire, MailTypes
  <1>8. ASSUME NEW l \in Letters, ServeAsk(l) PROVE MailTypes'
    <2>1. letter[l] \in Letter /\ letter[l].pc # "idle" /\ letter[l].email \in Emails
      BY <1>8, UnderWay, LetterFields DEF ServeAsk, MailTypes
    <2>2. letter' \in [Letters -> Letter \cup {NoLetter}]
      <3>1. CASE MakeCode(l)
        BY <3>1, <2>1, RepliedType DEF MakeCode, MailTypes
      <3>2. CASE Replied(l, "refused")
        BY <3>2, <2>1, RepliedType DEF MailTypes
      <3>. QED BY <1>8, <3>1, <3>2 DEF ServeAsk, MailTypes
    <2>. DEFINE n == written.codes + 1
                pu == PurposeOf(letter[l].from)
    <2>3. n \in Nat /\ pu \in Purposes /\ written.faults \in Nat
      <3>1. written.codes \in Nat /\ written.faults \in Nat
        BY TallyFields DEF MailTypes
      <3>. QED BY <3>1 DEF PurposeOf, Purposes, MailTypes
    <2>4. codes' \in [Purposes -> [Emails -> Nat]]
      <3>1. [codes[pu] EXCEPT ![letter[l].email] = n] \in [Emails -> Nat]
        BY <2>1, <2>3 DEF MailTypes
      <3>2. codes' = codes \/ codes' = [codes EXCEPT ![pu] = [codes[pu] EXCEPT ![letter[l].email] = n]]
        BY <1>8 DEF ServeAsk, MakeCode, MailTypes
      <3>. HIDE DEF pu, n
      <3>. QED BY <2>3, <3>1, <3>2 DEF MailTypes
    <2>5. written' \in MailTally
      <3>1. [written EXCEPT !.codes = n] \in MailTally /\ [written EXCEPT !.codes = n, !.faults = written.faults + 1] \in MailTally
        BY <2>3, TallyFields DEF MailTypes
      <3>. QED BY <1>8, <3>1 DEF ServeAsk, MakeCode, MailTypes
    <2>6. [purpose |-> PurposeOf(letter[l].from), to |-> letter[l].email, code |-> written.codes + 1] \in Mail
      BY <2>1, <2>3 DEF Mail, MailTypes
    <2>7. mails' \subseteq Mail
      BY <1>8, <2>6 DEF ServeAsk, MakeCode, MailTypes
    <2>. QED BY <1>8, <2>2, <2>4, <2>5, <2>7 DEF ServeAsk, MailTypes
  <1>9. ASSUME NEW l \in Letters, ServeProof(l) PROVE MailTypes'
    <2>1. letter[l] \in Letter /\ letter[l].pc # "idle" /\ letter[l].email \in Emails /\ letter[l].code \in Nat
      BY <1>9, UnderWay, LetterFields DEF ServeProof, MailTypes
    <2>2. letter' \in [Letters -> Letter \cup {NoLetter}]
      BY <1>9, <2>1, RepliedType DEF ServeProof, MailTypes
    <2>3. account' \in [People -> MailAddress] /\ proof' \in [People -> Nat] /\ takenAt' \in [Emails -> Nat]
      <3>1. written.codes \in Nat
        BY TallyFields DEF MailTypes
      <3>2. CASE Grant(letter[l].from, letter[l].email, letter[l].code)
        BY <2>1, <3>1, <3>2 DEF Grant, MailTypes, MailAddress
      <3>3. CASE UNCHANGED <<account, proof, takenAt>>
        BY <3>3 DEF MailTypes
      <3>. QED BY <1>9, <3>2, <3>3 DEF ServeProof, MailTypes
    <2>. QED BY <1>9, <2>2, <2>3 DEF ServeProof, MailTypes
  <1>10. ASSUME NEW l \in Letters, VerifyReset(l) PROVE MailTypes'
    <2>1. letter[l] \in Letter
      BY <1>10, UnderWay DEF VerifyReset, MailTypes
    <2>2. letter' \in [Letters -> Letter \cup {NoLetter}]
      BY <1>10, <2>1, LetterFields DEF VerifyReset, MailTypes
    <2>. QED BY <1>10, <2>2 DEF VerifyReset, MailTypes
  <1>11. ASSUME NEW l \in Letters, StorePassword(l) PROVE MailTypes'
    <2>1. letter[l] \in Letter /\ letter[l].email \in Emails
      BY <1>11, UnderWay, LetterFields DEF StorePassword, MailTypes
    <2>2. letter' = [letter EXCEPT ![l] = [letter[l] EXCEPT !.pc = "back", !.data = password + 1]]
      BY <1>11 DEF StorePassword, MailTypes
    <2>3. [letter[l] EXCEPT !.pc = "back", !.data = password + 1] \in Letter
      <3>1. password + 1 \in Nat
        BY DEF MailTypes
      <3>. QED BY <2>1, <3>1, LetterFields DEF MailTypes
    <2>4. codes' \in [Purposes -> [Emails -> Nat]]
      BY <1>11, <2>1 DEF StorePassword, Purposes, MailTypes
    <2>5. letter' \in [Letters -> Letter \cup {NoLetter}]
      BY <2>2, <2>3 DEF MailTypes
    <2>6. password' \in Nat \ {0}
      BY <1>11 DEF StorePassword, MailTypes
    <2>. QED BY <1>11, <2>4, <2>5, <2>6 DEF StorePassword, MailTypes
  <1>12. ASSUME NEW l \in Letters, LetterLost(l) PROVE MailTypes'
    <2>1. letter' \in [Letters -> Letter \cup {NoLetter}]
      BY <1>12, RepliedType DEF LetterLost, MailTypes
    <2>2. written' \in MailTally
      BY <1>12, TallyFields DEF LetterLost, CountFault, MailTypes
    <2>. QED BY <1>12, <2>1, <2>2 DEF LetterLost, MailTypes
  <1>13. ASSUME NEW l \in Letters, CodeAnswered(l) PROVE MailTypes'
    <2>. DEFINE p == letter[l].from
                a == letter[l].answer
                w == CASE desk[p] = "register" /\ a = "ok" -> Ticks
                       [] desk[p] = "forgot" /\ a = "refused" -> 0
                       [] OTHER -> entry[p].wait
    <2>1. letter[l] \in Letter /\ p \in People /\ entry[p] \in MailEntry
      BY <1>13, UnderWay, LetterFields DEF CodeAnswered, MailTypes
    <2>2. w \in 0..Ticks
      <3>1. entry[p].wait \in 0..Ticks /\ 0 \in 0..Ticks /\ Ticks \in 0..Ticks
        <4>1. entry[p].wait \in 0..Ticks
          BY <2>1, EntryFields
        <4>. QED BY <4>1, CountdownAssumption
      <3>. HIDE DEF p, a
      <3>. QED BY <3>1 DEF MailTypes
    <2>3. entry' = [entry EXCEPT ![p] = [entry[p] EXCEPT !.loading = entry[p].loading /\ StaysLoading(p, a), !.wait = w]]
      BY <1>13, <2>1 DEF CodeAnswered, MailEntry, MailTypes
    <2>4. (entry[p].loading /\ StaysLoading(p, a)) \in BOOLEAN
      BY DEF MailTypes
    <2>. HIDE DEF w
    <2>5. entry' \in [People -> MailEntry]
      BY <2>1, <2>2, <2>3, <2>4, EntryFields DEF MailTypes
    <2>6. letter' \in [Letters -> Letter \cup {NoLetter}]
      BY <1>13 DEF CodeAnswered, MailTypes
    <2>. QED BY <1>13, <2>5, <2>6 DEF CodeAnswered, MailTypes
  <1>14. ASSUME NEW l \in Letters, ProofAnswered(l) PROVE MailTypes'
    <2>. DEFINE p == letter[l].from
                a == letter[l].answer
                n == IF desk[p] = "forgot" /\ a = "ok" THEN letter[l].data ELSE entry[p].shown
                b == entry[p].loading /\ (desk[p] \in {"register", "forgot"} \/ a = "broken")
    <2>1. letter[l] \in Letter /\ p \in People /\ entry[p] \in MailEntry
      BY <1>14, UnderWay, LetterFields DEF ProofAnswered, MailTypes
    <2>2. n \in Nat /\ b \in BOOLEAN
      BY <2>1, EntryFields, LetterFields DEF MailTypes
    <2>3. entry' = [entry EXCEPT ![p] = [entry[p] EXCEPT !.loading = b, !.shown = n]]
      BY <1>14, <2>1 DEF ProofAnswered, MailEntry, MailTypes
    <2>. HIDE DEF n, b
    <2>5. entry' \in [People -> MailEntry]
      BY <2>1, <2>2, <2>3, EntryFields DEF MailTypes
    <2>6. letter' \in [Letters -> Letter \cup {NoLetter}]
      BY <1>14 DEF ProofAnswered, MailTypes
    <2>. QED BY <1>14, <2>5, <2>6 DEF ProofAnswered, MailTypes
  <1>. QED BY <1>1, <1>2, <1>3, <1>4, <1>5, <1>6, <1>7, <1>8, <1>9, <1>10, <1>11, <1>12, <1>13, <1>14 DEF MailStep
-----------------------------------------------------------------------------
(* Codes, mails and addresses                                              *)

Brought(c, pu) == \E m \in mails : m.code = c /\ m.purpose = pu
Crowded(p) == <<"crowded", p>> \in noted

\* A code is made for one purpose and one address, and later ones are greater.
CodesNumbered ==
    /\ \A pu \in Purposes, e \in Emails : codes[pu][e] <= written.codes
    /\ \A m \in mails :
          /\ 0 < m.code /\ m.code <= written.codes
          /\ \A pu \in Purposes, e \in Emails : codes[pu][e] = m.code => m.purpose = pu /\ m.to = e
\* Nobody has a code that no mail brought, one of the purpose of the form.
CodesBrought ==
    /\ \A p \in People : entry[p].code # 0 => Brought(entry[p].code, PurposeOf(p))
    /\ \A l \in Letters : letter[l].pc # "idle" /\ letter[l].op = "prove"
                             => Brought(letter[l].code, PurposeOf(letter[l].from))
CrowdForAll == \A p, q \in People : Crowded(p) => Crowded(q)
\* No code to prove an address is made while somebody has it.
NoneSinceTaken ==
    \A p \in People :
        account[p] # "" /\ ~Crowded(p) => /\ codes["v"][account[p]] <= takenAt[account[p]]
                                          /\ proof[p] <= takenAt[account[p]]
MailCodes ==
    /\ CodesNumbered
    /\ CodesBrought
    /\ CrowdForAll
    /\ NoneSinceTaken
    /\ AddressProven

LEMMA MailCodesInit ==
    ASSUME MailInit
    PROVE  MailCodes
  <1>1. /\ codes = [pu \in Purposes |-> [e \in Emails |-> 0]] /\ written.codes = 0 /\ mails = {}
        /\ noted = {} /\ takenAt = [e \in Emails |-> 0] /\ proof = [p \in People |-> 0]
        /\ \A l \in Letters : letter[l].pc = "idle"
        /\ \A p \in People : entry[p].code = 0
    BY DEF MailInit, NoLetter
  <1>2. \A p \in People : account[p] # "" => account[p] \in Emails
    BY MailTypesInit DEF MailTypes, MailAddress
  <1>3. CodesNumbered
    BY <1>1 DEF CodesNumbered
  <1>4. CodesBrought
    BY <1>1 DEF CodesBrought
  <1>5. CrowdForAll
    BY <1>1 DEF CrowdForAll, Crowded
  <1>6. NoneSinceTaken
    <2>1. ASSUME NEW p \in People, account[p] # ""
          PROVE  codes["v"][account[p]] = 0 /\ takenAt[account[p]] = 0 /\ proof[p] = 0
      BY <1>1, <1>2, <2>1 DEF Purposes
    <2>2. 0 <= 0
      OBVIOUS
    <2>. QED BY <2>1, <2>2 DEF NoneSinceTaken
  <1>7. AddressProven
    BY <1>1 DEF AddressProven
  <1>. QED BY <1>3, <1>4, <1>5, <1>6, <1>7 DEF MailCodes

\* A step that makes no code and gives no address, whatever codes it drops.
LEMMA CodesKept ==
    ASSUME MailTypes, MailTypes', MailCodes,
           UNCHANGED <<desk, account, proof, mails, takenAt>>,
           written'.codes = written.codes,
           \A pu \in Purposes, e \in Emails : codes'[pu][e] = codes[pu][e] \/ codes'[pu][e] = 0,
           \A p \in People : Crowded(p)' = Crowded(p),
           \A p \in People : entry'[p].code = entry[p].code \/ Brought(entry'[p].code, PurposeOf(p)),
           \A l \in Letters : letter'[l].pc # "idle" /\ letter'[l].op = "prove" =>
              \/ letter[l].pc # "idle" /\ letter[l].op = "prove" /\ letter'[l].code = letter[l].code
                    /\ letter'[l].from = letter[l].from
              \/ Brought(letter'[l].code, PurposeOf(letter'[l].from))
    PROVE  MailCodes'
  <1>1. \A pu \in Purposes, e \in Emails : codes[pu][e] \in Nat /\ codes'[pu][e] \in Nat
    BY DEF MailTypes
  <1>2. \A m \in mails : m.code \in Nat
    BY DEF MailTypes, Mail
  <1>3. written.codes \in Nat
    BY TallyFields DEF MailTypes
  <1>4. CodesNumbered'
    BY <1>1, <1>2, <1>3 DEF MailCodes, CodesNumbered
  <1>5. CodesBrought'
    <2>1. \A c, pu : Brought(c, pu)' = Brought(c, pu)
      BY DEF Brought
    <2>2. \A p : PurposeOf(p)' = PurposeOf(p)
      BY DEF PurposeOf
    <2>. QED BY <2>1, <2>2 DEF MailCodes, CodesBrought
  <1>6. CrowdForAll'
    BY DEF MailCodes, CrowdForAll
  <1>7. NoneSinceTaken'
    <2>1. ASSUME NEW p \in People, account[p] # "", ~Crowded(p)
          PROVE  codes'["v"][account[p]] <= takenAt[account[p]] /\ proof[p] <= takenAt[account[p]]
      <3>1. account[p] \in Emails /\ "v" \in Purposes
        BY <2>1 DEF MailTypes, MailAddress, Purposes
      <3>2. takenAt[account[p]] \in Nat
        BY <3>1 DEF MailTypes
      <3>3. codes["v"][account[p]] <= takenAt[account[p]] /\ proof[p] <= takenAt[account[p]]
        BY <2>1 DEF MailCodes, NoneSinceTaken
      <3>. QED BY <1>1, <3>1, <3>2, <3>3
    <2>. QED BY <2>1 DEF NoneSinceTaken
  <1>8. AddressProven'
    BY DEF MailCodes, AddressProven
  <1>. QED BY <1>4, <1>5, <1>6, <1>7, <1>8 DEF MailCodes

\* An address somebody has, and that does not count as taken, is one of several.
LEMMA CrowdOf ==
    ASSUME NEW e, NEW p \in People, account[p] = e, ~IsEmailAlreadyTaken(e)
    PROVE  Cardinality(Holders(e)) > 1
  <1>1. IsFiniteSet(Holders(e))
    BY PeopleAssumption, FS_Subset DEF Holders
  <1>2. Holders(e) # {}
    BY DEF Holders
  <1>3. Cardinality(Holders(e)) \in Nat /\ Cardinality(Holders(e)) # 0
    BY <1>1, <1>2, FS_CardinalityType, FS_EmptySet
  <1>4. Cardinality(Holders(e)) # 1
    BY DEF IsEmailAlreadyTaken
  <1>. QED BY <1>3, <1>4

LEMMA ServeAskCodes ==
    ASSUME MailTypes, MailTypes', MailCodes, NEW l \in Letters, ServeAsk(l)
    PROVE  MailCodes'
  <1>. DEFINE e == letter[l].email
              pu == PurposeOf(letter[l].from)
              n == written.codes + 1
              r0 == [purpose |-> pu, to |-> e, code |-> n]
  <1>1. letter[l].pc = "sent" /\ letter[l].op = "ask" /\ letter[l] \in Letter /\ e \in Emails /\ pu \in Purposes
    BY UnderWay, LetterFields DEF ServeAsk, PurposeOf, Purposes
  <1>2. /\ \A k \in Letters \ {l} : letter'[k] = letter[k]
        /\ letter'[l].op = "ask"
    <2>1. PICK a \in {"ok", "refused", "broken", "garbled"} : Replied(l, a)
      BY DEF ServeAsk, MakeCode
    <2>2. /\ \A k \in Letters \ {l} : letter'[k] = letter[k]
          /\ letter'[l] = [letter[l] EXCEPT !.pc = "back", !.answer = a]
      BY <1>1, <2>1, RepliedType
    <2>. QED BY <1>1, <2>2 DEF Letter
  <1>3. UNCHANGED <<desk, entry, account, proof, password, takenAt>>
    BY DEF ServeAsk
  <1>4. \A p : PurposeOf(p)' = PurposeOf(p)
    BY <1>3 DEF PurposeOf
  <1>5. CASE UNCHANGED <<codes, mails, written, noted>>
    <2>1. \A p \in People : Crowded(p)' = Crowded(p)
      BY <1>5 DEF Crowded
    <2>. QED BY <1>2, <1>3, <1>5, <2>1, CodesKept
  <1>6. CASE MakeCode(l) /\ IsEmailAlreadyTaken(e) = (pu = "r")
    <2>1. /\ codes' = [codes EXCEPT ![pu][e] = n]
          /\ noted' = noted \cup {<<"crowded", p>> : p \in IF Cardinality(Holders(e)) > 1 THEN People ELSE {}}
          /\ mails' = mails \cup {r0} \/ mails' = mails
      BY <1>6 DEF MakeCode
    <2>2. written.codes \in Nat /\ written'.codes = n
      <3>1. written \in MailTally
        BY DEF MailTypes
      <3>2. written' = [written EXCEPT !.codes = n] \/ written' = [written EXCEPT !.codes = n, !.faults = written.faults + 1]
        BY <1>6 DEF MakeCode
      <3>. QED BY <3>1, <3>2 DEF MailTally
    <2>3. codes'[pu][e] = n /\ \A qu \in Purposes, f \in Emails : (qu # pu \/ f # e) => codes'[qu][f] = codes[qu][f]
      BY <1>1, <2>1 DEF MailTypes
    <2>4. \A qu \in Purposes, f \in Emails : codes[qu][f] \in Nat /\ codes[qu][f] <= written.codes
      BY DEF MailTypes, MailCodes, CodesNumbered
    <2>5. r0.purpose = pu /\ r0.to = e /\ r0.code = n
      OBVIOUS
    <2>6. \A m \in mails : /\ m.code \in Nat /\ 0 < m.code /\ m.code <= written.codes
                           /\ \A qu \in Purposes, f \in Emails : codes[qu][f] = m.code => m.purpose = qu /\ m.to = f
      BY DEF MailTypes, Mail, MailCodes, CodesNumbered
    <2>. HIDE DEF e, pu, r0
    <2>7. CodesNumbered'
      <3>1. ASSUME NEW qu \in Purposes, NEW f \in Emails PROVE codes'[qu][f] <= n
        BY <2>2, <2>3, <2>4
      <3>2. ASSUME NEW m \in mails'
            PROVE  /\ 0 < m.code /\ m.code <= n
                   /\ \A qu \in Purposes, f \in Emails : codes'[qu][f] = m.code => m.purpose = qu /\ m.to = f
        <4>1. CASE m = r0
          <5>1. ASSUME NEW qu \in Purposes, NEW f \in Emails, codes'[qu][f] = n PROVE qu = pu /\ f = e
            BY <2>2, <2>3, <2>4, <5>1
          <5>. QED BY <2>2, <2>5, <4>1, <5>1
        <4>2. CASE m \in mails
          <5>1. m.code \in Nat /\ 0 < m.code /\ m.code <= written.codes
            BY <2>6, <4>2
          <5>2. ASSUME NEW qu \in Purposes, NEW f \in Emails, codes'[qu][f] = m.code
                PROVE  m.purpose = qu /\ m.to = f
            <6>1. qu # pu \/ f # e
              BY <2>2, <2>3, <5>1, <5>2
            <6>. QED BY <2>3, <2>6, <4>2, <5>2, <6>1
          <5>. QED BY <2>2, <5>1, <5>2
        <4>. QED BY <2>1, <4>1, <4>2
      <3>. QED BY <2>2, <3>1, <3>2 DEF CodesNumbered
    <2>8. CodesBrought'
      <3>1. \A c, qu : Brought(c, qu) => Brought(c, qu)'
        BY <2>1 DEF Brought
      <3>2. \A p \in People : entry'[p].code # 0 => Brought(entry'[p].code, PurposeOf(p))
        BY <1>3 DEF MailCodes, CodesBrought
      <3>3. \A k \in Letters : letter'[k].pc # "idle" /\ letter'[k].op = "prove"
                             => Brought(letter'[k].code, PurposeOf(letter'[k].from))
        BY <1>2 DEF MailCodes, CodesBrought
      <3>. QED BY <1>4, <3>1, <3>2, <3>3 DEF CodesBrought
    <2>9. CrowdForAll'
      BY <2>1 DEF MailCodes, CrowdForAll, Crowded
    <2>10. NoneSinceTaken'
      <3>1. ASSUME NEW p \in People, account[p] # "", ~Crowded(p)'
            PROVE  codes'["v"][account[p]] <= takenAt[account[p]] /\ proof[p] <= takenAt[account[p]]
        <4>1. ~Crowded(p) /\ ~ Cardinality(Holders(e)) > 1
          BY <2>1, <3>1 DEF Crowded
        <4>2. codes["v"][account[p]] <= takenAt[account[p]] /\ proof[p] <= takenAt[account[p]]
          BY <3>1, <4>1 DEF MailCodes, NoneSinceTaken
        <4>3. account[p] = e => pu = "r"
          <5>1. SUFFICES ASSUME account[p] = e, pu # "r" PROVE FALSE
            OBVIOUS
          <5>2. ~IsEmailAlreadyTaken(e)
            BY <1>6, <5>1
          <5>. QED BY <4>1, <5>1, <5>2, CrowdOf
        <4>4. account[p] \in Emails /\ "v" \in Purposes
          BY <3>1 DEF MailTypes, MailAddress, Purposes
        <4>5. codes'["v"][account[p]] = codes["v"][account[p]]
          BY <2>3, <4>3, <4>4
        <4>. QED BY <4>2, <4>5
      <3>. QED BY <1>3, <3>1 DEF NoneSinceTaken
    <2>11. AddressProven'
      BY <1>3, <2>1 DEF MailCodes, AddressProven
    <2>. QED BY <2>7, <2>8, <2>9, <2>10, <2>11 DEF MailCodes
  <1>. QED BY <1>5, <1>6 DEF ServeAsk

LEMMA ServeProofCodes ==
    ASSUME MailTypes, MailTypes', MailCodes, NEW l \in Letters, ServeProof(l)
    PROVE  MailCodes'
  <1>. DEFINE e == letter[l].email
              c == letter[l].code
              p == letter[l].from
  <1>1. /\ letter[l].pc = "sent" /\ letter[l].op = "prove" /\ desk[p] # "forgot"
        /\ letter[l] \in Letter /\ e \in Emails /\ p \in People /\ c \in Nat
    BY UnderWay, LetterFields DEF ServeProof
  <1>2. /\ \A k \in Letters \ {l} : letter'[k] = letter[k]
        /\ letter'[l].op = "prove" /\ letter'[l].code = c /\ letter'[l].from = p
    <2>1. PICK a \in {"ok", "refused", "broken", "garbled"} : Replied(l, a)
      BY DEF ServeProof
    <2>2. /\ \A k \in Letters \ {l} : letter'[k] = letter[k]
          /\ letter'[l] = [letter[l] EXCEPT !.pc = "back", !.answer = a]
      BY <1>1, <2>1, RepliedType
    <2>. QED BY <1>1, <2>2 DEF Letter
  <1>3. UNCHANGED <<desk, entry, password, codes, mails, written, noted>>
    BY DEF ServeProof
  <1>4. \A k \in Letters : letter'[k].pc # "idle" /\ letter'[k].op = "prove" =>
              /\ letter[k].pc # "idle" /\ letter[k].op = "prove" /\ letter'[k].code = letter[k].code
              /\ letter'[k].from = letter[k].from
    BY <1>1, <1>2
  <1>5. \A q \in People : Crowded(q)' = Crowded(q)
    BY <1>3 DEF Crowded
  <1>6. CASE UNCHANGED <<account, proof, takenAt>>
    BY <1>3, <1>4, <1>5, <1>6, CodesKept
  <1>7. CASE VerifyCodeWithKey(e, c, "v") /\ Grant(p, e, c)
    <2>1. account' = [account EXCEPT ![p] = e] /\ proof' = [proof EXCEPT ![p] = c]
          /\ takenAt' = [takenAt EXCEPT ![e] = IF Holders(e) = {} THEN written.codes ELSE @]
      BY <1>7 DEF Grant
    <2>2. codes["v"][e] = c /\ "v" \in Purposes
      BY <1>7 DEF VerifyCodeWithKey, Purposes
    <2>3. CodesNumbered'
      BY <1>3 DEF MailCodes, CodesNumbered
    <2>4. CodesBrought'
      <3>1. \A d, pu : Brought(d, pu)' = Brought(d, pu)
        BY <1>3 DEF Brought
      <3>2. \A q : PurposeOf(q)' = PurposeOf(q)
        BY <1>3 DEF PurposeOf
      <3>. QED BY <1>3, <1>4, <3>1, <3>2 DEF MailCodes, CodesBrought
    <2>5. CrowdForAll'
      BY <1>5 DEF MailCodes, CrowdForAll
    <2>6. AddressProven'
      <3>1. Brought(c, "v")
        BY <1>1 DEF MailCodes, CodesBrought, PurposeOf
      <3>2. PICK m \in mails : m.code = c /\ m.purpose = "v"
        BY <3>1 DEF Brought
      <3>3. m.to = e
        BY <1>1, <2>2, <3>2 DEF MailCodes, CodesNumbered
      <3>4. m = [purpose |-> "v", to |-> e, code |-> c]
        BY <3>2, <3>3 DEF MailTypes, Mail
      <3>5. account'[p] = e /\ proof'[p] = c
        BY <1>1, <2>1 DEF MailTypes
      <3>6. \A q \in People \ {p} : account'[q] = account[q] /\ proof'[q] = proof[q]
        BY <2>1 DEF MailTypes
      <3>. HIDE DEF p, e, c
      <3>. QED BY <1>1, <1>3, <3>2, <3>4, <3>5, <3>6 DEF MailCodes, AddressProven
    <2>7. NoneSinceTaken'
      <3>. DEFINE t == IF Holders(e) = {} THEN written.codes ELSE takenAt[e]
      <3>1. takenAt'[e] = t /\ \A f \in Emails \ {e} : takenAt'[f] = takenAt[f]
        BY <1>1, <2>1 DEF MailTypes
      <3>2. written.codes \in Nat /\ c \in Nat /\ takenAt[e] \in Nat /\ c <= written.codes
        <4>1. written.codes \in Nat
          BY TallyFields DEF MailTypes
        <4>2. takenAt[e] \in Nat
          BY <1>1 DEF MailTypes
        <4>3. codes["v"][e] <= written.codes
          BY <1>1, <2>2 DEF MailCodes, CodesNumbered
        <4>. QED BY <1>1, <2>2, <4>1, <4>2, <4>3
      <3>3. ASSUME NEW q \in People, ~Crowded(q), Holders(e) # {} PROVE c <= takenAt[e]
        <4>1. PICK h \in People : account[h] = e
          BY <3>3 DEF Holders
        <4>2. ~Crowded(h) /\ e # ""
          BY <1>1, <3>3, PeopleAssumption DEF MailCodes, CrowdForAll
        <4>. QED BY <2>2, <4>1, <4>2 DEF MailCodes, NoneSinceTaken
      <3>4. ASSUME NEW q \in People, account'[q] # "", ~Crowded(q)
            PROVE  codes["v"][account'[q]] <= takenAt'[account'[q]] /\ proof'[q] <= takenAt'[account'[q]]
        <4>1. CASE q = p
          <5>1. account'[q] = e /\ proof'[q] = c
            BY <1>1, <2>1, <4>1 DEF MailTypes
          <5>2. c <= t
            BY <3>2, <3>3, <3>4
          <5>. QED BY <2>2, <3>1, <5>1, <5>2
        <4>2. CASE q # p
          <5>1. account'[q] = account[q] /\ proof'[q] = proof[q]
            BY <2>1, <4>2 DEF MailTypes
          <5>2. codes["v"][account[q]] <= takenAt[account[q]] /\ proof[q] <= takenAt[account[q]]
            BY <3>4, <5>1 DEF MailCodes, NoneSinceTaken
          <5>3. account[q] \in Emails
            BY <3>4, <5>1 DEF MailTypes, MailAddress
          <5>4. account[q] = e => Holders(e) # {}
            BY DEF Holders
          <5>. QED BY <3>1, <5>1, <5>2, <5>3, <5>4
        <4>. QED BY <4>1, <4>2
      <3>. QED BY <1>3, <1>5, <3>4 DEF NoneSinceTaken
    <2>. QED BY <2>3, <2>4, <2>5, <2>6, <2>7 DEF MailCodes
  <1>. QED BY <1>6, <1>7 DEF ServeProof

LEMMA MailCodesStep ==
    ASSUME MailTypes, MailTypes', MailCodes, MailStep
    PROVE  MailCodes'
  <1>. DEFINE Same == /\ UNCHANGED <<desk, account, proof, mails, takenAt>>
                      /\ written'.codes = written.codes
                      /\ \A pu \in Purposes, e \in Emails : codes'[pu][e] = codes[pu][e] \/ codes'[pu][e] = 0
                      /\ \A p \in People : Crowded(p)' = Crowded(p)
              FieldsSame == \A p \in People : entry'[p].code = entry[p].code \/ Brought(entry'[p].code, PurposeOf(p))
              PostsSame == \A l \in Letters : letter'[l].pc # "idle" /\ letter'[l].op = "prove" =>
                          \/ letter[l].pc # "idle" /\ letter[l].op = "prove" /\ letter'[l].code = letter[l].code
                                /\ letter'[l].from = letter[l].from
                          \/ Brought(letter'[l].code, PurposeOf(letter'[l].from))
  <1>0. ASSUME Same, FieldsSame, PostsSame PROVE MailCodes'
    BY <1>0, CodesKept
  <1>1. ASSUME NEW p \in People, TypeAddress(p) PROVE MailCodes'
    <2>1. Same
      BY <1>1 DEF TypeAddress, MailTypes, MailTally, Crowded
    <2>2. FieldsSame
      BY <1>1 DEF TypeAddress, MailTypes, MailEntry
    <2>3. PostsSame
      BY <1>1 DEF TypeAddress
    <2>. QED BY <1>0, <2>1, <2>2, <2>3
  <1>2. ASSUME NEW p \in People, CopyCode(p) PROVE MailCodes'
    <2>1. Same
      BY <1>2 DEF CopyCode, Crowded
    <2>2. FieldsSame
      <3>1. PICK m \in mails : /\ m.purpose = PurposeOf(p)
                               /\ entry' = [entry EXCEPT ![p].code = m.code,
                                                         ![p].email = IF m.purpose = "r" THEN m.to ELSE @]
        BY <1>2 DEF CopyCode
      <3>2. \A q \in People \ {p} : entry'[q] = entry[q]
        BY <3>1 DEF MailTypes
      <3>3. entry'[p].code = m.code
        BY <3>1 DEF MailTypes, MailEntry
      <3>. QED BY <3>1, <3>2, <3>3 DEF Brought
    <2>3. PostsSame
      BY <1>2 DEF CopyCode
    <2>. QED BY <1>0, <2>1, <2>2, <2>3
  <1>3. ASSUME NEW p \in People, AskCode(p) PROVE MailCodes'
    <2>0. Write(p, "ask") /\ entry[p].email # ""
      BY <1>3 DEF AskCode
    <2>1. Same
      <3>1. written'.codes = written.codes
        BY <2>0, Posted
      <3>2. \A q \in People : Crowded(q)' = Crowded(q)
        <4>1. noted' = noted \/ noted' = noted \cup {<<"doubled", p>>}
          BY <1>3 DEF AskCode
        <4>2. \A q \in People : <<"crowded", q>> # <<"doubled", p>>
          OBVIOUS
        <4>. QED BY <4>1, <4>2 DEF Crowded
      <3>. QED BY <1>3, <3>1, <3>2 DEF AskCode
    <2>2. FieldsSame
      BY <1>3 DEF AskCode, MailTypes, MailEntry
    <2>3. PostsSame
      <3>1. PICK l \in Letters : letter' = [letter EXCEPT ![l] = MailSent(entry[p], p, "ask")]
        BY <2>0, Posted
      <3>2. letter'[l].op = "ask" /\ \A k \in Letters \ {l} : letter'[k] = letter[k]
        BY <3>1 DEF MailTypes, MailSent
      <3>. QED BY <3>2
    <2>. QED BY <1>0, <2>1, <2>2, <2>3
  <1>4. ASSUME NEW p \in People, AskNothing(p) PROVE MailCodes'
    <2>1. Same
      BY <1>4 DEF AskNothing, Crowded
    <2>2. FieldsSame
      BY <1>4 DEF AskNothing, MailTypes, MailEntry
    <2>3. PostsSame
      BY <1>4 DEF AskNothing
    <2>. QED BY <1>0, <2>1, <2>2, <2>3
  <1>5. ASSUME NEW p \in People, Tick(p) PROVE MailCodes'
    <2>1. Same
      BY <1>5 DEF Tick, Crowded
    <2>2. FieldsSame
      BY <1>5 DEF Tick, MailTypes, MailEntry
    <2>3. PostsSame
      BY <1>5 DEF Tick
    <2>. QED BY <1>0, <2>1, <2>2, <2>3
  <1>6. ASSUME NEW p \in People, Submits(p) PROVE MailCodes'
    <2>0. Write(p, "prove") /\ entry[p].email # "" /\ entry[p].code # 0
      BY <1>6 DEF Submits
    <2>1. Same
      <3>1. written'.codes = written.codes
        BY <2>0, Posted
      <3>2. \A q \in People : Crowded(q)' = Crowded(q)
        <4>1. noted' = noted \/ noted' = noted \cup {<<"twice", p>>}
          BY <1>6 DEF Submits
        <4>2. \A q \in People : <<"crowded", q>> # <<"twice", p>>
          OBVIOUS
        <4>. QED BY <4>1, <4>2 DEF Crowded
      <3>. QED BY <1>6, <3>1, <3>2 DEF Submits
    <2>2. FieldsSame
      BY <1>6 DEF Submits, MailTypes, MailEntry
    <2>3. PostsSame
      <3>1. PICK l \in Letters : letter' = [letter EXCEPT ![l] = MailSent(entry[p], p, "prove")]
        BY <2>0, Posted
      <3>2. /\ letter'[l].code = entry[p].code /\ letter'[l].from = p
            /\ \A k \in Letters \ {l} : letter'[k] = letter[k]
        BY <3>1 DEF MailTypes, MailSent
      <3>3. Brought(entry[p].code, PurposeOf(p))
        BY <2>0 DEF MailCodes, CodesBrought
      <3>. QED BY <3>2, <3>3
    <2>. QED BY <1>0, <2>1, <2>2, <2>3
  <1>7. ASSUME Expire PROVE MailCodes'
    <2>1. Same
      <3>1. written'.codes = written.codes
        BY <1>7 DEF Expire, CountFault, MailTypes, MailTally
      <3>2. \A pu \in Purposes, e \in Emails : codes'[pu][e] = codes[pu][e] \/ codes'[pu][e] = 0
        BY <1>7 DEF Expire, MailTypes
      <3>. QED BY <1>7, <3>1, <3>2 DEF Expire, Crowded
    <2>2. FieldsSame /\ PostsSame
      BY <1>7 DEF Expire
    <2>. QED BY <1>0, <2>1, <2>2
  <1>8. ASSUME NEW l \in Letters, VerifyReset(l) PROVE MailCodes'
    <2>0. letter[l] \in Letter /\ letter[l].pc = "sent"
      BY <1>8, UnderWay DEF VerifyReset
    <2>1. Same
      BY <1>8 DEF VerifyReset, Crowded
    <2>2. FieldsSame
      BY <1>8 DEF VerifyReset
    <2>3. PostsSame
      BY <1>8, <2>0 DEF VerifyReset, MailTypes, Letter
    <2>. QED BY <1>0, <2>1, <2>2, <2>3
  <1>9. ASSUME NEW l \in Letters, StorePassword(l) PROVE MailCodes'
    <2>0. letter[l] \in Letter /\ letter[l].pc = "verified"
      BY <1>9, UnderWay DEF StorePassword
    <2>1. Same
      BY <1>9 DEF StorePassword, MailTypes, Crowded
    <2>2. FieldsSame
      BY <1>9 DEF StorePassword
    <2>3. PostsSame
      <3>1. letter' = [letter EXCEPT ![l] = [letter[l] EXCEPT !.pc = "back", !.data = password + 1]]
        BY <1>9 DEF StorePassword, MailTypes
      <3>. QED BY <2>0, <3>1 DEF MailTypes, Letter
    <2>. QED BY <1>0, <2>1, <2>2, <2>3
  <1>10. ASSUME NEW l \in Letters, LetterLost(l) PROVE MailCodes'
    <2>0. letter[l] \in Letter /\ letter[l].pc # "idle" /\ Replied(l, "broken")
      BY <1>10, UnderWay DEF LetterLost
    <2>1. Same
      <3>1. written'.codes = written.codes
        BY <1>10 DEF LetterLost, CountFault, MailTypes, MailTally
      <3>. QED BY <1>10, <3>1 DEF LetterLost, Crowded
    <2>2. FieldsSame
      BY <1>10 DEF LetterLost
    <2>3. PostsSame
      <3>1. /\ \A k \in Letters \ {l} : letter'[k] = letter[k]
            /\ letter'[l] = [letter[l] EXCEPT !.pc = "back", !.answer = "broken"]
        BY <2>0, RepliedType
      <3>2. letter'[l].op = letter[l].op /\ letter'[l].code = letter[l].code /\ letter'[l].from = letter[l].from
        BY <2>0, <3>1 DEF Letter
      <3>. QED BY <2>0, <3>1, <3>2
    <2>. QED BY <1>0, <2>1, <2>2, <2>3
  <1>11. ASSUME NEW l \in Letters, CodeAnswered(l) \/ ProofAnswered(l) PROVE MailCodes'
    <2>1. Same
      BY <1>11 DEF CodeAnswered, ProofAnswered, Crowded
    <2>2. FieldsSame
      <3>1. \A e \in MailEntry : \A a, b, n : /\ [e EXCEPT !.loading = a, !.wait = b].code = e.code
                                             /\ [e EXCEPT !.loading = a, !.shown = n].code = e.code
        BY DEF MailEntry
      <3>2. \A p \in People : entry[p] \in MailEntry /\ entry \in [People -> MailEntry]
        BY DEF MailTypes
      <3>3. CASE CodeAnswered(l)
        <4>1. PICK a, b : entry' = [entry EXCEPT ![letter[l].from].loading = a, ![letter[l].from].wait = b]
          BY <3>3 DEF CodeAnswered
        <4>. QED BY <3>1, <3>2, <4>1
      <3>4. CASE ProofAnswered(l)
        <4>1. PICK a, n : entry' = [entry EXCEPT ![letter[l].from].loading = a, ![letter[l].from].shown = n]
          BY <3>4 DEF ProofAnswered
        <4>. QED BY <3>1, <3>2, <4>1
      <3>. QED BY <1>11, <3>3, <3>4
    <2>3. PostsSame
      BY <1>11 DEF CodeAnswered, ProofAnswered, MailTypes, NoLetter
    <2>. QED BY <1>0, <2>1, <2>2, <2>3
  <1>. QED BY <1>1, <1>2, <1>3, <1>4, <1>5, <1>6, <1>7, <1>8, <1>9, <1>10, <1>11, ServeAskCodes, ServeProofCodes DEF MailStep

LEMMA MailCodesShared ==
    ASSUME MailCodes
    PROVE  AddressProven /\ SharedOnlyByRace
  BY DEF MailCodes, NoneSinceTaken, SharedOnlyByRace, Crowded
-----------------------------------------------------------------------------
(* Buttons and passwords                                                   *)

Posts(p, l) == letter[l].pc # "idle" /\ letter[l].from = p
Asks(p, l) == Posts(p, l) /\ letter[l].op = "ask"
Proves(p, l) == Posts(p, l) /\ letter[l].op = "prove"
Noted(w, p) == <<w, p>> \in noted

\* But for the admin console's, a form has one request for a code under way, and
\* its button is disabled until the answer; the form that binds has one of any kind.
AsksOnce ==
    \A p \in People : desk[p] # "personal" =>
        /\ \A l \in Letters : Asks(p, l) => entry[p].loading
        /\ \A l, k \in Letters : Asks(p, l) /\ Asks(p, k) => l = k
BindsOnce ==
    \A p \in People : desk[p] = "bind" =>
        /\ \A l \in Letters : Posts(p, l) => entry[p].loading
        /\ \A l, k \in Letters : Posts(p, l) /\ Posts(p, k) => l = k
BrokenNoted ==
    \A l \in Letters : letter[l].pc # "idle" /\ letter[l].answer = "broken" => Noted("broken", letter[l].from)
\* A button is disabled while something is under way, or since something broke.
DisabledForAReason ==
    \A p \in People : entry[p].loading =>
        \/ \E l \in Letters : Asks(p, l)
        \/ desk[p] \in {"bind", "personal"} /\ ((\E l \in Letters : Proves(p, l)) \/ Noted("broken", p))
MailButtons == OneCodeAsked /\ AsksOnce /\ BindsOnce /\ BrokenNoted /\ DisabledForAReason

OneForgot == \A p, q \in People : desk[p] = "forgot" /\ desk[q] = "forgot" => p = q
ShownWhereForgotten == \A p \in People : desk[p] # "forgot" => entry[p].shown = 0
VerifiedIsReset == \A l \in Letters : letter[l].pc = "verified" => letter[l].op = "prove" /\ desk[letter[l].from] = "forgot"
\* Without a second click, the one reset under way answers with the password it
\* set, and none is under way once that is shown.
ResetOnce ==
    \A p \in People : desk[p] = "forgot" /\ ~Noted("twice", p) =>
        /\ \A l, k \in Letters : Proves(p, l) /\ Proves(p, k) => l = k
        /\ entry[p].shown # 0 => entry[p].shown = password /\ \A l \in Letters : ~Proves(p, l)
        /\ \A l \in Letters : Proves(p, l) /\ letter[l].pc = "back" /\ letter[l].answer = "ok"
                                => letter[l].data = password
MailPasswords == OneForgot /\ ShownWhereForgotten /\ VerifiedIsReset /\ ResetOnce

LEMMA MailFormsInit ==
    ASSUME MailInit
    PROVE  MailButtons /\ MailPasswords
  <1>1. /\ noted = {}
        /\ \A l \in Letters : letter[l].pc = "idle"
        /\ \A p \in People : entry[p].loading = FALSE /\ entry[p].shown = 0
    BY DEF MailInit, NoLetter
  <1>2. MailButtons
    BY <1>1 DEF MailButtons, OneCodeAsked, AsksOnce, BindsOnce, BrokenNoted, DisabledForAReason, Asks, Posts
  <1>3. OneForgot
    BY SeatsAssumption DEF MailInit, OneForgot
  <1>4. MailPasswords
    BY <1>1, <1>3 DEF MailPasswords, ShownWhereForgotten, VerifiedIsReset, ResetOnce, Proves, Posts
  <1>. QED BY <1>2, <1>4

\* A step that keeps every request under way, and every button as it was.
LEMMA ButtonsKept ==
    ASSUME MailButtons, UNCHANGED desk,
           \A p \in People : entry'[p].loading = entry[p].loading,
           \A l \in Letters : /\ letter'[l].pc = "idle" <=> letter[l].pc = "idle"
                              /\ letter[l].pc # "idle" => /\ letter'[l].from = letter[l].from
                                                          /\ letter'[l].op = letter[l].op
                                                          /\ letter'[l].answer = "broken" =>
                                                                \/ letter[l].answer = "broken"
                                                                \/ Noted("broken", letter[l].from)',
           \A p \in People : (Noted("broken", p) => Noted("broken", p)') /\ (Noted("doubled", p)' => Noted("doubled", p)),
           \A l \in Letters : letter[l].pc # "idle" => letter[l].from \in People
    PROVE  MailButtons'
  <1>1. \A p \in People, l \in Letters : /\ Posts(p, l)' <=> Posts(p, l)
                                         /\ Asks(p, l)' <=> Asks(p, l)
                                         /\ Proves(p, l)' <=> Proves(p, l)
    BY DEF Posts, Asks, Proves
  <1>2. OneCodeAsked'
    BY DEF MailButtons, OneCodeAsked, Noted
  <1>3. AsksOnce' /\ BindsOnce'
    BY <1>1 DEF MailButtons, AsksOnce, BindsOnce
  <1>4. BrokenNoted'
    BY DEF MailButtons, BrokenNoted
  <1>5. DisabledForAReason'
    BY <1>1 DEF MailButtons, DisabledForAReason
  <1>. QED BY <1>2, <1>3, <1>4, <1>5 DEF MailButtons

\* A step that sets and shows no password, and starts no reset.
LEMMA PasswordsKept ==
    ASSUME MailPasswords, UNCHANGED <<desk, password>>,
           \A p \in People : entry'[p].shown = entry[p].shown,
           \A l \in Letters : letter'[l].pc # "idle" /\ letter'[l].op = "prove" /\ desk[letter'[l].from] = "forgot" =>
              /\ letter[l].pc # "idle" /\ letter[l].op = "prove" /\ letter'[l].from = letter[l].from
              /\ letter'[l].pc = "back" /\ letter'[l].answer = "ok" =>
                    letter[l].pc = "back" /\ letter[l].answer = "ok" /\ letter'[l].data = letter[l].data,
           \A l \in Letters : letter'[l].pc = "verified" => letter'[l].op = "prove" /\ desk[letter'[l].from] = "forgot",
           \A p \in People : Noted("twice", p) => Noted("twice", p)'
    PROVE  MailPasswords'
  <1>1. OneForgot' /\ ShownWhereForgotten'
    BY DEF MailPasswords, OneForgot, ShownWhereForgotten
  <1>2. VerifiedIsReset'
    BY DEF VerifiedIsReset
  <1>3. ResetOnce'
    <2>1. ASSUME NEW p \in People, desk[p] = "forgot", ~Noted("twice", p)'
          PROVE  /\ \A l, k \in Letters : Proves(p, l)' /\ Proves(p, k)' => l = k
                 /\ entry[p].shown # 0 => entry[p].shown = password /\ \A l \in Letters : ~Proves(p, l)'
                 /\ \A l \in Letters : Proves(p, l)' /\ letter'[l].pc = "back" /\ letter'[l].answer = "ok"
                                         => letter'[l].data = password
      <3>1. \A l \in Letters : Proves(p, l)' => Proves(p, l)
        BY <2>1 DEF Proves, Posts
      <3>2. ~Noted("twice", p)
        BY <2>1
      <3>3. /\ \A l, k \in Letters : Proves(p, l) /\ Proves(p, k) => l = k
            /\ entry[p].shown # 0 => entry[p].shown = password /\ \A l \in Letters : ~Proves(p, l)
            /\ \A l \in Letters : Proves(p, l) /\ letter[l].pc = "back" /\ letter[l].answer = "ok"
                                    => letter[l].data = password
        BY <2>1, <3>2 DEF MailPasswords, ResetOnce
      <3>4. \A l \in Letters : Proves(p, l)' /\ letter'[l].pc = "back" /\ letter'[l].answer = "ok"
                                => letter[l].pc = "back" /\ letter[l].answer = "ok" /\ letter'[l].data = letter[l].data
        BY <2>1 DEF Proves, Posts
      <3>. QED BY <3>1, <3>3, <3>4
    <2>. QED BY <2>1 DEF ResetOnce
  <1>. QED BY <1>1, <1>2, <1>3 DEF MailPasswords

\* What the answer of the server changes of a request.
LEMMA StillPosted ==
    ASSUME MailTypes, NEW l \in Letters, letter[l].pc # "idle",
           NEW a \in {"ok", "refused", "broken", "garbled"}, Replied(l, a)
    PROVE  /\ \A k \in Letters \ {l} : letter'[k] = letter[k]
           /\ letter'[l].pc = "back" /\ letter'[l].answer = a
           /\ letter'[l].from = letter[l].from /\ letter'[l].op = letter[l].op /\ letter'[l].data = letter[l].data
           /\ letter[l].from \in People
  <1>1. letter[l] \in Letter
    BY UnderWay
  <1>2. /\ \A k \in Letters \ {l} : letter'[k] = letter[k]
        /\ letter'[l] = [letter[l] EXCEPT !.pc = "back", !.answer = a]
    BY RepliedType
  <1>. QED BY <1>1, <1>2 DEF Letter

\* Steps that touch the fields or the codes only.
LEMMA FieldsForms ==
    ASSUME MailTypes, MailButtons, MailPasswords,
           UNCHANGED <<desk, password, letter, noted>>,
           \A p \in People : entry'[p].loading = entry[p].loading /\ entry'[p].shown = entry[p].shown
    PROVE  MailButtons' /\ MailPasswords'
  <1>1. \A l \in Letters : letter[l].pc # "idle" => letter[l].from \in People
    BY UnderWay, LetterFields
  <1>2. \A w, p : Noted(w, p)' = Noted(w, p)
    BY DEF Noted
  <1>3. MailButtons'
    BY <1>1, <1>2, ButtonsKept
  <1>4. \A l \in Letters : letter[l].pc = "verified" => letter[l].op = "prove" /\ desk[letter[l].from] = "forgot"
    BY DEF MailPasswords, VerifiedIsReset
  <1>5. MailPasswords'
    BY <1>2, <1>4, PasswordsKept
  <1>. QED BY <1>3, <1>5

LEMMA AskCodeForms ==
    ASSUME MailTypes, MailTypes', MailButtons, MailPasswords, NEW p \in People, AskCode(p)
    PROVE  MailButtons' /\ MailPasswords'
  <1>1. PICK l \in Letters : letter[l].pc = "idle" /\ letter' = [letter EXCEPT ![l] = MailSent(entry[p], p, "ask")]
    <2>1. Write(p, "ask") /\ entry[p].email # ""
      BY DEF AskCode
    <2>. QED BY <2>1, Posted
  <1>2. /\ letter'[l].pc = "sent" /\ letter'[l].from = p /\ letter'[l].op = "ask" /\ letter'[l].answer = "ok"
        /\ \A k \in Letters \ {l} : letter'[k] = letter[k]
    BY <1>1 DEF MailTypes, MailSent
  <1>3. UNCHANGED <<desk, password>> /\ ~entry[p].loading
    BY DEF AskCode, ButtonOn
  <1>4. /\ entry'[p].loading = TRUE /\ \A q \in People \ {p} : entry'[q].loading = entry[q].loading
        /\ \A q \in People : entry'[q].shown = entry[q].shown
    BY DEF AskCode, MailTypes, MailEntry
  <1>5. /\ noted' = noted \/ noted' = noted \cup {<<"doubled", p>>}
        /\ ~InPost(p, {"ask"}) => noted' = noted
    BY DEF AskCode
  <1>6. \A q \in People : /\ Noted("broken", q)' = Noted("broken", q) /\ Noted("twice", q)' = Noted("twice", q)
                          /\ q # p => Noted("doubled", q)' = Noted("doubled", q)
    <2>1. \A q : <<"doubled", p>> # <<"broken", q>> /\ <<"doubled", p>> # <<"twice", q>>
                 /\ (q # p => <<"doubled", p>> # <<"doubled", q>>)
      OBVIOUS
    <2>. QED BY <1>5, <2>1 DEF Noted
  <1>7. \A q \in People, k \in Letters :
          /\ Asks(q, k)' <=> Asks(q, k) \/ (q = p /\ k = l)
          /\ Posts(q, k)' <=> Posts(q, k) \/ (q = p /\ k = l)
          /\ Proves(q, k)' <=> Proves(q, k)
    BY <1>1, <1>2 DEF Asks, Proves, Posts
  <1>8. OneCodeAsked'
    <2>1. desk[p] # "personal" => noted' = noted
      <3>1. desk[p] # "personal" => \A k \in Letters : ~Asks(p, k)
        BY <1>3 DEF MailButtons, AsksOnce
      <3>. QED BY <1>5, <3>1 DEF InPost, Asks, Posts
    <2>. QED BY <1>3, <1>6, <2>1 DEF MailButtons, OneCodeAsked, Noted
  <1>9. AsksOnce'
    BY <1>3, <1>4, <1>7 DEF MailButtons, AsksOnce
  <1>10. BindsOnce'
    BY <1>3, <1>4, <1>7 DEF MailButtons, BindsOnce
  <1>11. BrokenNoted'
    <2>1. \A k \in Letters : letter[k].pc # "idle" => letter[k].from \in People
      BY UnderWay, LetterFields
    <2>. QED BY <1>2, <1>6, <2>1 DEF MailButtons, BrokenNoted
  <1>12. DisabledForAReason'
    BY <1>3, <1>4, <1>6, <1>7 DEF MailButtons, DisabledForAReason
  <1>13. MailPasswords'
    <2>1. \A k \in Letters : letter'[k].pc = "verified" => letter'[k].op = "prove" /\ desk[letter'[k].from] = "forgot"
      BY <1>2 DEF MailPasswords, VerifiedIsReset
    <2>. QED BY <1>2, <1>3, <1>4, <1>6, <2>1, PasswordsKept
  <1>. QED BY <1>8, <1>9, <1>10, <1>11, <1>12, <1>13 DEF MailButtons

LEMMA SubmitsForms ==
    ASSUME MailTypes, MailTypes', MailButtons, MailPasswords, NEW p \in People, Submits(p)
    PROVE  MailButtons' /\ MailPasswords'
  <1>1. PICK l \in Letters : letter[l].pc = "idle" /\ letter' = [letter EXCEPT ![l] = MailSent(entry[p], p, "prove")]
    <2>1. Write(p, "prove") /\ entry[p].email # ""
      BY DEF Submits
    <2>. QED BY <2>1, Posted
  <1>2. /\ letter'[l].pc = "sent" /\ letter'[l].from = p /\ letter'[l].op = "prove" /\ letter'[l].answer = "ok"
        /\ \A k \in Letters \ {l} : letter'[k] = letter[k]
    BY <1>1 DEF MailTypes, MailSent
  <1>3. /\ UNCHANGED <<desk, password>>
        /\ desk[p] = "bind" => ~entry[p].loading
        /\ desk[p] = "forgot" => entry[p].shown = 0
    BY DEF Submits
  <1>4. /\ entry'[p].loading = (entry[p].loading \/ desk[p] \in {"bind", "personal"})
        /\ \A q \in People \ {p} : entry'[q].loading = entry[q].loading
        /\ \A q \in People : entry'[q].shown = entry[q].shown
    BY DEF Submits, MailTypes, MailEntry
  <1>5. /\ noted' = noted \/ noted' = noted \cup {<<"twice", p>>}
        /\ desk[p] = "forgot" /\ InPost(p, {"prove"}) => noted' = noted \cup {<<"twice", p>>}
    BY DEF Submits
  <1>6. \A q \in People : /\ Noted("broken", q)' = Noted("broken", q) /\ Noted("doubled", q)' = Noted("doubled", q)
                          /\ Noted("twice", q) => Noted("twice", q)'
    <2>1. \A q : <<"twice", p>> # <<"broken", q>> /\ <<"twice", p>> # <<"doubled", q>>
      OBVIOUS
    <2>. QED BY <1>5, <2>1 DEF Noted
  <1>7. \A q \in People, k \in Letters :
          /\ Asks(q, k)' <=> Asks(q, k)
          /\ Posts(q, k)' <=> Posts(q, k) \/ (q = p /\ k = l)
          /\ Proves(q, k)' <=> Proves(q, k) \/ (q = p /\ k = l)
    BY <1>1, <1>2 DEF Asks, Proves, Posts
  <1>8. OneCodeAsked'
    BY <1>3, <1>6 DEF MailButtons, OneCodeAsked, Noted
  <1>9. AsksOnce'
    BY <1>3, <1>4, <1>7 DEF MailButtons, AsksOnce
  <1>10. BindsOnce'
    BY <1>3, <1>4, <1>7 DEF MailButtons, BindsOnce
  <1>11. BrokenNoted'
    <2>1. \A k \in Letters : letter[k].pc # "idle" => letter[k].from \in People
      BY UnderWay, LetterFields
    <2>. QED BY <1>2, <1>6, <2>1 DEF MailButtons, BrokenNoted
  <1>12. DisabledForAReason'
    BY <1>3, <1>4, <1>6, <1>7 DEF MailButtons, DisabledForAReason
  <1>13. OneForgot' /\ ShownWhereForgotten'
    BY <1>3, <1>4 DEF MailPasswords, OneForgot, ShownWhereForgotten
  <1>14. VerifiedIsReset'
    BY <1>2, <1>3 DEF MailPasswords, VerifiedIsReset
  <1>15. ResetOnce'
    <2>1. ASSUME NEW q \in People, desk[q] = "forgot", ~Noted("twice", q)'
          PROVE  /\ \A j, k \in Letters : Proves(q, j)' /\ Proves(q, k)' => j = k
                 /\ entry'[q].shown # 0 => entry'[q].shown = password /\ \A k \in Letters : ~Proves(q, k)'
                 /\ \A k \in Letters : Proves(q, k)' /\ letter'[k].pc = "back" /\ letter'[k].answer = "ok"
                                         => letter'[k].data = password
      <3>1. ~Noted("twice", q)
        BY <1>6, <2>1
      <3>2. /\ \A j, k \in Letters : Proves(q, j) /\ Proves(q, k) => j = k
            /\ entry[q].shown # 0 => entry[q].shown = password /\ \A k \in Letters : ~Proves(q, k)
            /\ \A k \in Letters : Proves(q, k) /\ letter[k].pc = "back" /\ letter[k].answer = "ok"
                                    => letter[k].data = password
        BY <2>1, <3>1 DEF MailPasswords, ResetOnce
      <3>3. q = p => \A k \in Letters : ~Proves(p, k)
        <4>1. SUFFICES ASSUME q = p, NEW k \in Letters, Proves(p, k) PROVE FALSE
          OBVIOUS
        <4>2. InPost(p, {"prove"})
          BY <4>1 DEF Proves, Posts, InPost
        <4>. QED BY <1>5, <2>1, <4>1, <4>2 DEF Noted
      <3>. QED BY <1>2, <1>3, <1>4, <1>7, <2>1, <3>2, <3>3
    <2>. QED BY <1>3, <2>1 DEF ResetOnce
  <1>. QED BY <1>8, <1>9, <1>10, <1>11, <1>12, <1>13, <1>14, <1>15 DEF MailButtons, MailPasswords

\* Answers of the server that neither verify a reset nor set a password.
LEMMA RepliedForms ==
    ASSUME MailTypes, MailButtons, MailPasswords, NEW l \in Letters, letter[l].pc # "idle",
           NEW a \in {"ok", "refused", "broken", "garbled"}, Replied(l, a),
           UNCHANGED <<desk, entry, password>>,
           \A p \in People : /\ (Noted("broken", p) => Noted("broken", p)') /\ Noted("doubled", p)' = Noted("doubled", p)
                             /\ Noted("twice", p)' = Noted("twice", p),
           a = "broken" => Noted("broken", letter[l].from)',
           a = "ok" => letter[l].op = "ask" \/ desk[letter[l].from] # "forgot"
    PROVE  MailButtons' /\ MailPasswords'
  <1>1. /\ \A k \in Letters \ {l} : letter'[k] = letter[k]
        /\ letter'[l].pc = "back" /\ letter'[l].answer = a
        /\ letter'[l].from = letter[l].from /\ letter'[l].op = letter[l].op /\ letter'[l].data = letter[l].data
    BY StillPosted
  <1>2. \A k \in Letters : letter[k].pc # "idle" => letter[k].from \in People
    BY UnderWay, LetterFields
  <1>3. MailButtons'
    BY <1>1, <1>2, ButtonsKept
  <1>4. \A k \in Letters : letter'[k].pc = "verified" => letter'[k].op = "prove" /\ desk[letter'[k].from] = "forgot"
    BY <1>1 DEF MailPasswords, VerifiedIsReset
  <1>5. MailPasswords'
    BY <1>1, <1>4, PasswordsKept
  <1>. QED BY <1>3, <1>5

LEMMA VerifyResetForms ==
    ASSUME MailTypes, MailButtons, MailPasswords, NEW l \in Letters, VerifyReset(l)
    PROVE  MailButtons' /\ MailPasswords'
  <1>1. letter[l].pc = "sent" /\ letter[l].op = "prove" /\ desk[letter[l].from] = "forgot" /\ letter[l] \in Letter
    BY UnderWay DEF VerifyReset
  <1>2. /\ \A k \in Letters \ {l} : letter'[k] = letter[k]
        /\ letter'[l].from = letter[l].from /\ letter'[l].op = letter[l].op /\ letter'[l].pc \in {"verified", "back"}
        /\ letter'[l].pc = "back" => letter'[l].answer = "refused"
        /\ letter'[l].pc = "verified" => letter'[l].answer = letter[l].answer
    BY <1>1 DEF VerifyReset, MailTypes, Letter
  <1>3. UNCHANGED <<desk, entry, password, noted>>
    BY DEF VerifyReset
  <1>4. \A k \in Letters : letter[k].pc # "idle" => letter[k].from \in People
    BY UnderWay, LetterFields
  <1>5. \A w, p : Noted(w, p)' = Noted(w, p)
    BY <1>3 DEF Noted
  <1>6. MailButtons'
    BY <1>1, <1>2, <1>3, <1>4, <1>5, ButtonsKept
  <1>7. \A k \in Letters : letter'[k].pc = "verified" => letter'[k].op = "prove" /\ desk[letter'[k].from] = "forgot"
    BY <1>1, <1>2 DEF MailPasswords, VerifiedIsReset
  <1>8. MailPasswords'
    BY <1>1, <1>2, <1>3, <1>5, <1>7, PasswordsKept
  <1>. QED BY <1>6, <1>8

LEMMA StorePasswordForms ==
    ASSUME MailTypes, MailButtons, MailPasswords, NEW l \in Letters, StorePassword(l)
    PROVE  MailButtons' /\ MailPasswords'
  <1>1. letter[l].pc = "verified" /\ letter[l] \in Letter /\ letter[l].op = "prove" /\ desk[letter[l].from] = "forgot"
    BY UnderWay DEF StorePassword, MailPasswords, VerifiedIsReset
  <1>2. /\ \A k \in Letters \ {l} : letter'[k] = letter[k]
        /\ letter'[l].from = letter[l].from /\ letter'[l].op = letter[l].op /\ letter'[l].pc = "back"
        /\ letter'[l].answer = letter[l].answer /\ letter'[l].data = password + 1
    <2>1. letter' = [letter EXCEPT ![l] = [letter[l] EXCEPT !.pc = "back", !.data = password + 1]]
      BY DEF StorePassword, MailTypes
    <2>. QED BY <1>1, <2>1 DEF MailTypes, Letter
  <1>3. UNCHANGED <<desk, entry, noted>> /\ password' = password + 1
    BY DEF StorePassword
  <1>4. \A k \in Letters : letter[k].pc # "idle" => letter[k].from \in People
    BY UnderWay, LetterFields
  <1>5. \A w, p : Noted(w, p)' = Noted(w, p)
    BY <1>3 DEF Noted
  <1>6. MailButtons'
    BY <1>1, <1>2, <1>3, <1>4, <1>5, ButtonsKept
  <1>7. OneForgot' /\ ShownWhereForgotten'
    BY <1>3 DEF MailPasswords, OneForgot, ShownWhereForgotten
  <1>8. VerifiedIsReset'
    BY <1>1, <1>2, <1>3 DEF MailPasswords, VerifiedIsReset
  <1>9. ResetOnce'
    <2>1. ASSUME NEW q \in People, desk[q] = "forgot", ~Noted("twice", q)
          PROVE  /\ \A j, k \in Letters : Proves(q, j)' /\ Proves(q, k)' => j = k
                 /\ entry[q].shown # 0 => entry[q].shown = password' /\ \A k \in Letters : ~Proves(q, k)'
                 /\ \A k \in Letters : Proves(q, k)' /\ letter'[k].pc = "back" /\ letter'[k].answer = "ok"
                                         => letter'[k].data = password'
      <3>1. q = letter[l].from
        BY <1>1, <1>4, <2>1 DEF MailPasswords, OneForgot
      <3>2. \A k \in Letters : Proves(q, k)' <=> Proves(q, k)
        BY <1>1, <1>2 DEF Proves, Posts
      <3>3. /\ \A j, k \in Letters : Proves(q, j) /\ Proves(q, k) => j = k
            /\ entry[q].shown # 0 => \A k \in Letters : ~Proves(q, k)
        BY <2>1 DEF MailPasswords, ResetOnce
      <3>4. Proves(q, l)
        BY <1>1, <3>1 DEF Proves, Posts
      <3>. QED BY <1>2, <1>3, <3>2, <3>3, <3>4
    <2>. QED BY <1>3, <1>5, <2>1 DEF ResetOnce
  <1>. QED BY <1>6, <1>7, <1>8, <1>9 DEF MailPasswords

LEMMA CodeAnsweredForms ==
    ASSUME MailTypes, MailTypes', MailButtons, MailPasswords, NEW l \in Letters, CodeAnswered(l)
    PROVE  MailButtons' /\ MailPasswords'
  <1>. DEFINE p == letter[l].from
              a == letter[l].answer
  <1>1. letter[l].pc = "back" /\ letter[l].op = "ask" /\ letter[l] \in Letter /\ p \in People
    BY UnderWay, LetterFields DEF CodeAnswered
  <1>2. letter'[l].pc = "idle" /\ \A k \in Letters \ {l} : letter'[k] = letter[k]
    BY DEF CodeAnswered, MailTypes, NoLetter
  <1>3. UNCHANGED <<desk, password, noted>>
    BY DEF CodeAnswered
  <1>4. /\ entry'[p].loading = (entry[p].loading /\ StaysLoading(p, a))
        /\ \A q \in People \ {p} : entry'[q].loading = entry[q].loading
        /\ \A q \in People : entry'[q].shown = entry[q].shown
    BY <1>1 DEF CodeAnswered, MailTypes, MailEntry
  <1>5. \A w, q : Noted(w, q)' = Noted(w, q)
    BY <1>3 DEF Noted
  <1>. HIDE DEF p
  <1>6. \A q \in People, k \in Letters :
          /\ Asks(q, k)' <=> Asks(q, k) /\ k # l
          /\ Posts(q, k)' <=> Posts(q, k) /\ k # l
          /\ Proves(q, k)' <=> Proves(q, k)
    BY <1>1, <1>2 DEF Asks, Proves, Posts
  <1>7. Asks(p, l) /\ Posts(p, l) /\ \A q \in People : Posts(q, l) => q = p
    BY <1>1 DEF Asks, Posts, p
  <1>8. OneCodeAsked'
    BY <1>3 DEF MailButtons, OneCodeAsked
  <1>9. AsksOnce'
    BY <1>1, <1>3, <1>4, <1>6, <1>7 DEF MailButtons, AsksOnce
  <1>10. BindsOnce'
    BY <1>1, <1>3, <1>4, <1>6, <1>7 DEF MailButtons, BindsOnce
  <1>11. BrokenNoted'
    BY <1>2, <1>5 DEF MailButtons, BrokenNoted
  <1>12. DisabledForAReason'
    <2>1. ASSUME NEW q \in People, entry'[q].loading
          PROVE  \/ \E k \in Letters : Asks(q, k)'
                 \/ desk[q] \in {"bind", "personal"} /\ ((\E k \in Letters : Proves(q, k)') \/ Noted("broken", q))
      <3>1. CASE q = p
        <4>1. desk[p] = "personal" /\ a = "broken"
          BY <1>4, <2>1, <3>1 DEF StaysLoading
        <4>2. Noted("broken", p)
          BY <1>1, <4>1 DEF MailButtons, BrokenNoted, p
        <4>. QED BY <3>1, <4>1, <4>2
      <3>2. CASE q # p
        <4>1. entry[q].loading /\ ~Posts(q, l) /\ ~Asks(q, l)
          BY <1>4, <1>7, <2>1, <3>2 DEF Asks
        <4>. QED BY <1>6, <4>1 DEF MailButtons, DisabledForAReason
      <3>. QED BY <3>1, <3>2
    <2>. QED BY <1>3, <1>5, <2>1 DEF DisabledForAReason
  <1>13. MailPasswords'
    <2>1. \A k \in Letters : letter'[k].pc = "verified" => letter'[k].op = "prove" /\ desk[letter'[k].from] = "forgot"
      BY <1>2 DEF MailPasswords, VerifiedIsReset
    <2>. QED BY <1>2, <1>3, <1>4, <1>5, <2>1, PasswordsKept
  <1>. QED BY <1>8, <1>9, <1>10, <1>11, <1>12, <1>13 DEF MailButtons

LEMMA ProofAnsweredForms ==
    ASSUME MailTypes, MailTypes', MailButtons, MailPasswords, NEW l \in Letters, ProofAnswered(l)
    PROVE  MailButtons' /\ MailPasswords'
  <1>. DEFINE p == letter[l].from
              a == letter[l].answer
  <1>1. letter[l].pc = "back" /\ letter[l].op = "prove" /\ letter[l] \in Letter /\ p \in People /\ letter[l].data \in Nat
    BY UnderWay, LetterFields DEF ProofAnswered
  <1>2. letter'[l].pc = "idle" /\ \A k \in Letters \ {l} : letter'[k] = letter[k]
    BY DEF ProofAnswered, MailTypes, NoLetter
  <1>3. UNCHANGED <<desk, password, noted>>
    BY DEF ProofAnswered
  <1>4. /\ entry'[p].loading = (entry[p].loading /\ (desk[p] \in {"register", "forgot"} \/ a = "broken"))
        /\ entry'[p].shown = IF desk[p] = "forgot" /\ a = "ok" THEN letter[l].data ELSE entry[p].shown
        /\ \A q \in People \ {p} : entry'[q] = entry[q]
    BY <1>1 DEF ProofAnswered, MailTypes, MailEntry
  <1>5. \A w, q : Noted(w, q)' = Noted(w, q)
    BY <1>3 DEF Noted
  <1>. HIDE DEF p
  <1>6. \A q \in People, k \in Letters :
          /\ Asks(q, k)' <=> Asks(q, k)
          /\ Posts(q, k)' <=> Posts(q, k) /\ k # l
          /\ Proves(q, k)' <=> Proves(q, k) /\ k # l
    BY <1>1, <1>2 DEF Asks, Proves, Posts
  <1>7. Proves(p, l) /\ Posts(p, l) /\ \A q \in People : Posts(q, l) => q = p
    BY <1>1 DEF Proves, Posts, p
  <1>8. OneCodeAsked'
    BY <1>3 DEF MailButtons, OneCodeAsked
  <1>9. AsksOnce'
    <2>1. ASSUME NEW q \in People, desk[q] # "personal", NEW k \in Letters, Asks(q, k) PROVE entry'[q].loading
      <3>1. entry[q].loading
        BY <2>1 DEF MailButtons, AsksOnce
      <3>2. CASE q # p
        BY <1>4, <3>1, <3>2
      <3>3. CASE q = p
        <4>1. desk[p] # "bind"
          <5>1. SUFFICES ASSUME desk[p] = "bind" PROVE FALSE
            OBVIOUS
          <5>2. Posts(p, k) /\ k # l
            BY <1>1, <2>1, <3>3 DEF Asks
          <5>. QED BY <1>1, <1>7, <5>1, <5>2 DEF MailButtons, BindsOnce
        <4>2. desk[p] \in {"register", "forgot"}
          BY <1>1, <2>1, <3>3, <4>1 DEF MailTypes, Forms
        <4>. QED BY <1>4, <3>1, <3>3, <4>2
      <3>. QED BY <3>2, <3>3
    <2>. QED BY <1>3, <1>6, <2>1 DEF MailButtons, AsksOnce
  <1>10. BindsOnce'
    BY <1>1, <1>3, <1>4, <1>6, <1>7 DEF MailButtons, BindsOnce
  <1>11. BrokenNoted'
    BY <1>2, <1>5 DEF MailButtons, BrokenNoted
  <1>12. DisabledForAReason'
    <2>1. ASSUME NEW q \in People, entry'[q].loading
          PROVE  \/ \E k \in Letters : Asks(q, k)
                 \/ desk[q] \in {"bind", "personal"} /\ ((\E k \in Letters : Proves(q, k)') \/ Noted("broken", q))
      <3>1. CASE q = p
        <4>1. entry[p].loading /\ (desk[p] \in {"register", "forgot"} \/ a = "broken")
          BY <1>4, <2>1, <3>1
        <4>2. a = "broken" => Noted("broken", p)
          BY <1>1 DEF MailButtons, BrokenNoted, p
        <4>3. desk[p] \in Forms
          BY <1>1 DEF MailTypes
        <4>. QED BY <1>1, <3>1, <4>1, <4>2, <4>3 DEF MailButtons, DisabledForAReason, Forms
      <3>2. CASE q # p
        <4>1. entry[q].loading /\ ~Posts(q, l) /\ ~Proves(q, l)
          BY <1>4, <1>7, <2>1, <3>2 DEF Proves
        <4>. QED BY <1>6, <4>1 DEF MailButtons, DisabledForAReason
      <3>. QED BY <3>1, <3>2
    <2>. QED BY <1>3, <1>5, <1>6, <2>1 DEF DisabledForAReason
  <1>13. OneForgot' /\ VerifiedIsReset'
    BY <1>2, <1>3 DEF MailPasswords, OneForgot, VerifiedIsReset
  <1>14. ShownWhereForgotten'
    BY <1>1, <1>3, <1>4 DEF MailPasswords, ShownWhereForgotten
  <1>15. ResetOnce'
    <2>1. ASSUME NEW q \in People, desk[q] = "forgot", ~Noted("twice", q)
          PROVE  /\ \A j, k \in Letters : Proves(q, j)' /\ Proves(q, k)' => j = k
                 /\ entry'[q].shown # 0 => entry'[q].shown = password /\ \A k \in Letters : ~Proves(q, k)'
                 /\ \A k \in Letters : Proves(q, k)' /\ letter'[k].pc = "back" /\ letter'[k].answer = "ok"
                                         => letter'[k].data = password
      <3>1. /\ \A j, k \in Letters : Proves(q, j) /\ Proves(q, k) => j = k
            /\ entry[q].shown # 0 => entry[q].shown = password /\ \A k \in Letters : ~Proves(q, k)
            /\ \A k \in Letters : Proves(q, k) /\ letter[k].pc = "back" /\ letter[k].answer = "ok"
                                    => letter[k].data = password
        BY <2>1 DEF MailPasswords, ResetOnce
      <3>2. q = p => \A k \in Letters : ~Proves(q, k)'
        BY <1>6, <1>7, <3>1
      <3>3. q = p /\ entry'[q].shown # 0 => entry'[q].shown = password
        BY <1>1, <1>4, <1>7, <3>1
      <3>4. q # p => entry'[q] = entry[q]
        BY <1>4
      <3>. QED BY <1>2, <1>6, <3>1, <3>2, <3>3, <3>4
    <2>. QED BY <1>3, <1>5, <2>1 DEF ResetOnce
  <1>. QED BY <1>8, <1>9, <1>10, <1>11, <1>12, <1>13, <1>14, <1>15 DEF MailButtons, MailPasswords

LEMMA MailFormsStep ==
    ASSUME MailTypes, MailTypes', MailButtons, MailPasswords, MailStep
    PROVE  MailButtons' /\ MailPasswords'
  <1>1. ASSUME NEW p \in People, TypeAddress(p) PROVE MailButtons' /\ MailPasswords'
    BY <1>1, FieldsForms DEF TypeAddress, MailTypes, MailEntry
  <1>2. ASSUME NEW p \in People, CopyCode(p) PROVE MailButtons' /\ MailPasswords'
    <2>1. \A q \in People : entry'[q].loading = entry[q].loading /\ entry'[q].shown = entry[q].shown
      BY <1>2 DEF CopyCode, MailTypes, MailEntry
    <2>. QED BY <1>2, <2>1, FieldsForms DEF CopyCode
  <1>3. ASSUME NEW p \in People, AskNothing(p) \/ Tick(p) PROVE MailButtons' /\ MailPasswords'
    <2>1. \A q \in People : entry'[q].loading = entry[q].loading /\ entry'[q].shown = entry[q].shown
      BY <1>3 DEF AskNothing, Tick, MailTypes, MailEntry
    <2>. QED BY <1>3, <2>1, FieldsForms DEF AskNothing, Tick
  <1>4. CASE Expire
    BY <1>4, FieldsForms DEF Expire
  <1>5. ASSUME NEW l \in Letters, ServeAsk(l) PROVE MailButtons' /\ MailPasswords'
    <2>1. letter[l].pc # "idle" /\ letter[l].op = "ask"
      BY <1>5 DEF ServeAsk
    <2>2. PICK a \in {"ok", "refused", "garbled"} : Replied(l, a)
      BY <1>5 DEF ServeAsk, MakeCode
    <2>3. UNCHANGED <<desk, entry, password>>
      BY <1>5 DEF ServeAsk
    <2>4. \A w \in {"broken", "doubled", "twice"}, p \in People : Noted(w, p)' = Noted(w, p)
      <3>1. noted \subseteq noted' /\ noted' \ noted \subseteq {<<"crowded", p>> : p \in People}
        BY <1>5 DEF ServeAsk, MakeCode
      <3>2. \A w \in {"broken", "doubled", "twice"} : \A p : <<w, p>> \notin {<<"crowded", q>> : q \in People}
        OBVIOUS
      <3>. QED BY <3>1, <3>2 DEF Noted
    <2>. QED BY <2>1, <2>2, <2>3, <2>4, RepliedForms
  <1>6. ASSUME NEW l \in Letters, ServeProof(l) PROVE MailButtons' /\ MailPasswords'
    <2>1. letter[l].pc # "idle" /\ desk[letter[l].from] # "forgot"
      BY <1>6 DEF ServeProof
    <2>2. PICK a \in {"ok", "refused"} : Replied(l, a)
      BY <1>6 DEF ServeProof
    <2>3. UNCHANGED <<desk, entry, password, noted>>
      BY <1>6 DEF ServeProof
    <2>4. \A w, p : Noted(w, p)' = Noted(w, p)
      BY <2>3 DEF Noted
    <2>. QED BY <2>1, <2>2, <2>3, <2>4, RepliedForms
  <1>7. ASSUME NEW l \in Letters, LetterLost(l) PROVE MailButtons' /\ MailPasswords'
    <2>1. letter[l].pc # "idle" /\ Replied(l, "broken")
      BY <1>7 DEF LetterLost
    <2>2. UNCHANGED <<desk, entry, password>> /\ noted' = noted \cup {<<"broken", letter[l].from>>}
      BY <1>7 DEF LetterLost
    <2>3. \A p : /\ <<"broken", letter[l].from>> # <<"doubled", p>>
                 /\ <<"broken", letter[l].from>> # <<"twice", p>>
      OBVIOUS
    <2>4. \A p : /\ (Noted("broken", p) => Noted("broken", p)') /\ Noted("doubled", p)' = Noted("doubled", p)
                 /\ Noted("twice", p)' = Noted("twice", p)
      BY <2>2, <2>3 DEF Noted
    <2>5. letter'[l].from = letter[l].from
      <3>1. letter' = [letter EXCEPT ![l] = [letter[l] EXCEPT !.pc = "back", !.answer = "broken"]] /\ letter[l] \in Letter
        BY <2>1, UnderWay DEF Replied, MailTypes
      <3>. QED BY <3>1 DEF MailTypes, Letter
    <2>6. <<"broken", letter'[l].from>> \in noted'
      BY <2>2, <2>5
    <2>. QED BY <2>1, <2>2, <2>4, <2>5, <2>6, RepliedForms DEF Noted
  <1>. QED BY <1>1, <1>2, <1>3, <1>4, <1>5, <1>6, <1>7, AskCodeForms, SubmitsForms, VerifyResetForms,
              StorePasswordForms, CodeAnsweredForms, ProofAnsweredForms DEF MailStep

LEMMA MailFormsHold ==
    ASSUME MailButtons, MailPasswords
    PROVE  OneCodeAsked /\ ButtonComesBack /\ PasswordShownWorks
  <1>1. ButtonComesBack
    BY DEF MailButtons, DisabledForAReason, ButtonComesBack, AllArrived, Asks, Proves, Posts, Noted
  <1>2. PasswordShownWorks
    BY DEF MailPasswords, ShownWhereForgotten, ResetOnce, PasswordShownWorks, Noted
  <1>. QED BY <1>1, <1>2 DEF MailButtons
-----------------------------------------------------------------------------
(* The wallet: types                                                       *)

TypedCounts == Counts \cup {"", "1"}
TypedDays == Days \cup {0, FirstDays}
WalletData == Int \cup Codes
Price == [count : {0, 1, 2}, days : TypedDays]
Asked == [pc : {"sent", "back"},
          op : {"options", "quota", "aff", "amount", "amountThenPay", "pay", "redeem", "transfer", "withdraw"},
          typed : TypedCounts, days : TypedDays, answer : {"ok", "refused", "broken"}, data : WalletData,
          shown : Price, hasty : BOOLEAN]
TopupCard == [count : TypedCounts, days : TypedDays, amount : Price, open : BOOLEAN, redeeming : BOOLEAN,
              code : WalletData, quota : Int, ready : BOOLEAN]

Busy(l, ops) == lane[l].pc # "idle" /\ lane[l].op \in ops

\* Types of the wallet, with what the answers that are shown hold.
WalletTypes ==
    /\ card \in TopupCard
    /\ invite \in [aff : Int, open : {"", "transfer", "withdraw"}]
    /\ server \in [quota : Int, aff : Int, used : SUBSET WalletData]
    /\ lane \in [Lanes -> Asked \cup {FreeLane}]
    /\ \A l \in Lanes : Busy(l, {"quota", "aff"}) => lane[l].data \in Int
    /\ \A l \in Lanes : Busy(l, {"redeem"}) /\ lane[l].pc = "back" /\ lane[l].answer = "ok" => lane[l].data = Worth

LEMMA UnpricedType == Unpriced \in Price
  BY DEF Unpriced, Price, TypedDays

AskOps == {"options", "quota", "aff", "amount", "amountThenPay", "redeem", "transfer", "withdraw"}
LEMMA AskType ==
    ASSUME NEW op \in AskOps,
           NEW t \in TypedCounts, NEW d \in TypedDays
    PROVE  /\ Ask(op, t, d) \in Asked
           /\ Ask(op, t, d).pc = "sent" /\ Ask(op, t, d).op = op /\ Ask(op, t, d).data = 0
           /\ Ask(op, t, d).typed = t /\ Ask(op, t, d).days = d /\ Ask(op, t, d).answer = "ok"
  <1>1. 0 \in WalletData
    BY DEF WalletData
  <1>. QED BY <1>1, UnpricedType DEF Ask, Asked, AskOps

LEMMA PayType ==
    ASSUME NEW t \in TypedCounts, NEW d \in TypedDays, NEW shown \in Price, NEW hasty \in BOOLEAN
    PROVE  /\ Pay(t, d, shown, hasty) \in Asked
           /\ Pay(t, d, shown, hasty).pc = "sent" /\ Pay(t, d, shown, hasty).op = "pay"
           /\ Pay(t, d, shown, hasty).typed = t /\ Pay(t, d, shown, hasty).days = d
           /\ Pay(t, d, shown, hasty).shown = shown /\ Pay(t, d, shown, hasty).hasty = hasty
  <1>1. 0 \in WalletData
    BY DEF WalletData
  <1>. QED BY <1>1, UnpricedType DEF Pay, Ask, Asked

LEMMA TypedPlaces == "" \in TypedCounts /\ 0 \in TypedDays /\ FirstDays \in TypedDays /\ Days \subseteq TypedDays
                     /\ Counts \subseteq TypedCounts
  BY DEF TypedCounts, TypedDays

\* A request is written to an idle lane.
LEMMA Called ==
    ASSUME NEW r, Call(r)
    PROVE  \E l \in Lanes : lane[l].pc = "idle" /\ lane' = [lane EXCEPT ![l] = r]
  BY DEF Call

LEMMA AskedIsBusy ==
    ASSUME WalletTypes, NEW l \in Lanes, lane[l].pc # "idle"
    PROVE  lane[l] \in Asked
  <1>1. lane[l] \in Asked \cup {FreeLane}
    BY DEF WalletTypes
  <1>. QED BY <1>1 DEF FreeLane

\* The fields of the card, one by one.
LEMMA CardFields ==
    ASSUME NEW c \in TopupCard
    PROVE  /\ c.count \in TypedCounts /\ c.days \in TypedDays /\ c.amount \in Price /\ c.open \in BOOLEAN
           /\ c.redeeming \in BOOLEAN /\ c.code \in WalletData /\ c.quota \in Int
  BY DEF TopupCard

\* A lane that changes, and keeps what the types ask of it.
LEMMA LaneTypes ==
    ASSUME WalletTypes, NEW l \in Lanes, NEW r \in Asked \cup {FreeLane}, lane' = [lane EXCEPT ![l] = r],
           r.pc # "idle" /\ r.op \in {"quota", "aff"} => r.data \in Int,
           r.pc = "back" /\ r.op = "redeem" /\ r.answer = "ok" => r.data = Worth,
           card' \in TopupCard, invite' \in [aff : Int, open : {"", "transfer", "withdraw"}],
           server' \in [quota : Int, aff : Int, used : SUBSET WalletData]
    PROVE  WalletTypes'
  <1>1. lane' \in [Lanes -> Asked \cup {FreeLane}] /\ lane'[l] = r /\ \A k \in Lanes \ {l} : lane'[k] = lane[k]
    BY DEF WalletTypes
  <1>2. \A k \in Lanes : Busy(k, {"quota", "aff"})' => lane'[k].data \in Int
    BY <1>1 DEF WalletTypes, Busy
  <1>3. \A k \in Lanes : Busy(k, {"redeem"})' /\ lane'[k].pc = "back" /\ lane'[k].answer = "ok" => lane'[k].data = Worth
    BY <1>1 DEF WalletTypes, Busy
  <1>. QED BY <1>1, <1>2, <1>3 DEF WalletTypes

LEMMA WalletTypesInit ==
    ASSUME WalletInit
    PROVE  WalletTypes
  <1>1. card \in TopupCard
    <2>1. 0 \in WalletData /\ "1" \in TypedCounts /\ 0 \in TypedDays /\ 0 \in Int
      BY DEF WalletData, TypedCounts, TypedDays
    <2>. QED BY <2>1, UnpricedType DEF WalletInit, TopupCard
  <1>2. invite \in [aff : Int, open : {"", "transfer", "withdraw"}]
    <2>1. invite = [aff |-> 0, open |-> ""]
      BY DEF WalletInit
    <2>2. 0 \in Int
      OBVIOUS
    <2>. QED BY <2>1, <2>2
  <1>3. server \in [quota : Int, aff : Int, used : SUBSET WalletData]
    <2>1. server = [quota |-> 1, aff |-> 2, used |-> {}]
      BY DEF WalletInit
    <2>2. {} \in SUBSET WalletData
      OBVIOUS
    <2>. QED BY <2>1, <2>2
  <1>. DEFINE first(l) == CASE part = "pay" /\ l = 1 -> Ask("options", "", 0)
                            [] part = "quotas" /\ l = 1 -> Ask("quota", "", 0)
                            [] part = "quotas" /\ l = 2 -> Ask("aff", "", 0)
                            [] OTHER -> FreeLane
  <1>9. lane = [l \in Lanes |-> first(l)]
    BY DEF WalletInit
  <1>10. \A l : first(l) \in {Ask("options", "", 0), Ask("quota", "", 0), Ask("aff", "", 0), FreeLane}
    OBVIOUS
  <1>. HIDE DEF first
  <1>4. ASSUME NEW l \in Lanes PROVE lane[l] \in {Ask("options", "", 0), Ask("quota", "", 0), Ask("aff", "", 0), FreeLane}
    BY <1>9, <1>10
  <1>5. Ask("options", "", 0) \in Asked /\ Ask("quota", "", 0) \in Asked /\ Ask("aff", "", 0) \in Asked
        /\ Ask("options", "", 0).pc = "sent" /\ Ask("quota", "", 0).pc = "sent" /\ Ask("aff", "", 0).pc = "sent"
        /\ Ask("options", "", 0).data = 0 /\ Ask("quota", "", 0).data = 0 /\ Ask("aff", "", 0).data = 0
    <2>1. \A op \in {"options", "quota", "aff"} : /\ Ask(op, "", 0) \in Asked
                                                   /\ Ask(op, "", 0).pc = "sent" /\ Ask(op, "", 0).data = 0
      <3>1. ASSUME NEW op \in {"options", "quota", "aff"}
            PROVE  Ask(op, "", 0) \in Asked /\ Ask(op, "", 0).pc = "sent" /\ Ask(op, "", 0).data = 0
        <4>1. op \in AskOps
          BY DEF AskOps
        <4>2. "" \in TypedCounts /\ 0 \in TypedDays
          BY TypedPlaces
        <4>3. \A t \in TypedCounts, d \in TypedDays : /\ Ask(op, t, d) \in Asked
                                                     /\ Ask(op, t, d).pc = "sent" /\ Ask(op, t, d).data = 0
          BY <4>1, AskType
        <4>. QED BY <4>2, <4>3, Zenon
      <3>. QED BY <3>1
    <2>. QED BY <2>1
  <1>6. lane \in [Lanes -> Asked \cup {FreeLane}]
    BY <1>4, <1>5, <1>9
  <1>7. \A l \in Lanes : /\ lane[l].pc # "idle" => lane[l].data = 0
                         /\ lane[l].pc # "back"
    <2>1. FreeLane.pc = "idle"
      BY DEF FreeLane
    <2>. QED BY <1>4, <1>5, <2>1
  <1>8. 0 \in Int
    OBVIOUS
  <1>. QED BY <1>1, <1>2, <1>3, <1>6, <1>7, <1>8 DEF WalletTypes, Busy

\* What the handlers set in the card.
LEMMA CardSet ==
    ASSUME NEW c \in TopupCard, NEW t \in TypedCounts, NEW d \in TypedDays, NEW a \in Price, NEW b \in BOOLEAN,
           NEW k \in WalletData, NEW q \in Int
    PROVE  /\ [c EXCEPT !.count = t] \in TopupCard
           /\ [c EXCEPT !.open = b, !.days = d] \in TopupCard
           /\ [c EXCEPT !.days = d] \in TopupCard
           /\ [c EXCEPT !.open = b] \in TopupCard
           /\ [c EXCEPT !.code = k] \in TopupCard
           /\ [c EXCEPT !.redeeming = b] \in TopupCard
           /\ [c EXCEPT !.quota = q] \in TopupCard
           /\ [c EXCEPT !.ready = b] \in TopupCard
           /\ [c EXCEPT !.amount = a, !.open = b] \in TopupCard
           /\ [c EXCEPT !.quota = q, !.code = k, !.redeeming = b] \in TopupCard
  BY DEF TopupCard

\* A step that sends nothing and gets no answer.
LEMMA NoLaneTypes ==
    ASSUME WalletTypes, lane' = lane,
           card' \in TopupCard, invite' \in [aff : Int, open : {"", "transfer", "withdraw"}],
           server' \in [quota : Int, aff : Int, used : SUBSET WalletData]
    PROVE  WalletTypes'
  BY DEF WalletTypes, Busy

\* getAmount sends at most one request, and that for the price of what it is given.
LEMMA AmountAsked ==
    ASSUME WalletTypes, NEW op \in Priced, NEW t \in TypedCounts, NEW d \in TypedDays, AskAmount(op, t, d)
    PROVE  \/ IsPlain(t) /\ \E l \in Lanes : /\ lane[l].pc = "idle" /\ lane' = [lane EXCEPT ![l] = Ask(op, t, d)]
                                             /\ lane'[l] = Ask(op, t, d)
                                             /\ \A k \in Lanes \ {l} : lane'[k] = lane[k]
           \/ ~IsPlain(t) /\ lane' = lane /\ past' = past
  <1>1. CASE IsPlain(t)
    <2>1. PICK l \in Lanes : lane[l].pc = "idle" /\ lane' = [lane EXCEPT ![l] = Ask(op, t, d)]
      BY <1>1, Called DEF AskAmount
    <2>2. lane'[l] = Ask(op, t, d) /\ \A k \in Lanes \ {l} : lane'[k] = lane[k]
      BY <2>1 DEF WalletTypes
    <2>. QED BY <1>1, <2>1, <2>2
  <1>2. CASE ~IsPlain(t)
    BY <1>2 DEF AskAmount, NoCall
  <1>. QED BY <1>1, <1>2

LEMMA AmountAskedTypes ==
    ASSUME WalletTypes, NEW op \in Priced, NEW t \in TypedCounts, NEW d \in TypedDays, AskAmount(op, t, d),
           card' \in TopupCard, UNCHANGED <<invite, server>>
    PROVE  WalletTypes'
  <1>1. /\ invite' \in [aff : Int, open : {"", "transfer", "withdraw"}]
        /\ server' \in [quota : Int, aff : Int, used : SUBSET WalletData]
    BY DEF WalletTypes
  <1>2. op \in AskOps /\ op \notin {"quota", "aff"} /\ op # "redeem"
    BY DEF Priced, AskOps
  <1>3. Ask(op, t, d) \in Asked /\ Ask(op, t, d).pc = "sent" /\ Ask(op, t, d).op = op
    BY <1>2, AskType
  <1>4. CASE \E l \in Lanes : lane' = [lane EXCEPT ![l] = Ask(op, t, d)]
    BY <1>1, <1>2, <1>3, <1>4, LaneTypes
  <1>5. CASE lane' = lane
    BY <1>1, <1>5, NoLaneTypes
  <1>. QED BY <1>4, <1>5, AmountAsked

\* The answers of the server, one by one.
ServeEffect(l, a, d) ==
    /\ lane' = [lane EXCEPT ![l] = [lane[l] EXCEPT !.pc = "back", !.answer = a, !.data = d]]
    /\ lane[l].op = "quota" => a = "ok" /\ d = server.quota
    /\ lane[l].op = "aff" => a = "ok" /\ d = server.aff
    /\ lane[l].op = "redeem" /\ a = "ok" => d = Worth
    /\ lane[l].op \in Priced /\ a # "ok" => "refused" \in past'
    /\ lane[l].op = "redeem" => server'.quota = IF a = "ok" THEN server.quota + Worth ELSE server.quota
    /\ lane[l].op = "redeem" => server'.aff = server.aff
    /\ lane[l].op \in {"transfer", "withdraw"} /\ a # "ok" => server' = server
    /\ lane[l].op = "withdraw" => server'.quota = server.quota
    /\ lane[l].op = "transfer" => "transferred" \in past'
    /\ lane[l].op \notin {"redeem", "transfer", "withdraw"} => server' = server
    /\ lane[l].op # "pay" => paid' = paid
    /\ lane[l].op = "pay" => paid' = paid \/
         paid' = paid \cup {[typed |-> lane[l].typed, days |-> lane[l].days,
                             shown |-> lane[l].shown, hasty |-> lane[l].hasty]}
LEMMA Served ==
    ASSUME WalletTypes, NEW l \in Lanes, Serve(l)
    PROVE  /\ lane[l] \in Asked /\ lane[l].pc = "sent"
           /\ \E a \in {"ok", "refused"}, d \in Int : ServeEffect(l, a, d)
           /\ server' \in [quota : Int, aff : Int, used : SUBSET WalletData]
           /\ past \subseteq past' /\ UNCHANGED <<card, invite>>
  <1>. DEFINE r == lane[l]
              n == NumberIn(r.typed)
              Set(a, d) == lane' = [lane EXCEPT ![l] = [lane[l] EXCEPT !.pc = "back", !.answer = a, !.data = d]]
              ServerOK(s) == s \in [quota : Int, aff : Int, used : SUBSET WalletData]
  <1>1. r \in Asked /\ r.pc = "sent" /\ ServerOK(server)
    <2>1. r.pc = "sent"
      BY DEF Serve
    <2>. QED BY <2>1, AskedIsBusy DEF WalletTypes
  <1>2. \A a, d : Answer(l, a, d) => Set(a, d)
    BY DEF Answer, WalletTypes
  <1>3. /\ past \subseteq past' /\ UNCHANGED <<card, invite>>
        /\ r.op = "transfer" => "transferred" \in past'
        /\ r.op \in Priced /\ n < 1 => "refused" \in past'
    BY DEF Serve
  <1>4. server.quota \in Int /\ server.aff \in Int /\ Worth \in Int /\ 0 \in Int
    BY <1>1 DEF Worth
  <1>5. CASE r.op \in {"quota", "aff", "options"}
    <2>1. Set("ok", IF r.op = "aff" THEN server.aff ELSE server.quota) /\ UNCHANGED <<server, paid>>
      <3>1. /\ Answer(l, "ok", IF r.op = "aff" THEN server.aff ELSE server.quota)
            /\ UNCHANGED <<server, paid>>
        BY <1>5 DEF Serve, Priced
      <3>. QED BY <1>2, <3>1, Zenon
    <2>2. (IF r.op = "aff" THEN server.aff ELSE server.quota) \in Int
      BY <1>4
    <2>. HIDE DEF n
    <2>. QED BY <1>1, <1>3, <1>5, <2>1, <2>2 DEF Priced, ServeEffect
  <1>6. CASE r.op \in Priced
    <2>1. Set(IF n < 1 THEN "refused" ELSE "ok", 0) /\ UNCHANGED <<server, paid>>
      BY <1>2, <1>6 DEF Serve, Priced
    <2>. HIDE DEF n
    <2>. QED BY <1>1, <1>3, <1>4, <1>6, <2>1 DEF Priced, ServeEffect
  <1>7. CASE r.op = "pay"
    <2>1. /\ Set(IF n < 1 THEN "refused" ELSE "ok", 0) /\ UNCHANGED server
          /\ paid' = paid \/ paid' = paid \cup {[typed |-> r.typed, days |-> r.days, shown |-> r.shown, hasty |-> r.hasty]}
      BY <1>2, <1>7 DEF Serve, Priced
    <2>. HIDE DEF n
    <2>. QED BY <1>1, <1>3, <1>4, <1>7, <2>1 DEF Priced, ServeEffect
  <1>8. CASE r.op = "redeem"
    <2>1. UNCHANGED paid /\ IF r.data \in server.used THEN Set("refused", 0) /\ UNCHANGED server
                            ELSE /\ Set("ok", Worth)
                                 /\ server' = [server EXCEPT !.quota = @ + Worth, !.used = @ \cup {r.data}]
      BY <1>2, <1>8 DEF Serve, Priced
    <2>2. ServerOK([server EXCEPT !.quota = server.quota + Worth, !.used = server.used \cup {r.data}])
          /\ [server EXCEPT !.quota = server.quota + Worth, !.used = server.used \cup {r.data}].quota = server.quota + Worth
          /\ [server EXCEPT !.quota = server.quota + Worth, !.used = server.used \cup {r.data}].aff = server.aff
      <3>1. r.data \in WalletData /\ server.quota + Worth \in Int /\ server.used \in SUBSET WalletData
        BY <1>1, <1>4 DEF Asked
      <3>. HIDE DEF r
      <3>. QED BY <1>1, <1>4, <3>1
    <2>. HIDE DEF n
    <2>. QED BY <1>1, <1>3, <1>4, <1>8, <2>1, <2>2 DEF Priced, ServeEffect
  <1>9. CASE r.op \in {"transfer", "withdraw"}
    <2>1. UNCHANGED paid /\ IF server.aff < Worth THEN Set("refused", 0) /\ UNCHANGED server
                            ELSE /\ Set("ok", 0)
                                 /\ server' = [server EXCEPT !.aff = @ - Worth,
                                                   !.quota = @ + IF r.op = "transfer" THEN Worth ELSE 0]
      BY <1>2, <1>9 DEF Serve, Priced
    <2>2. \A w \in {Worth, 0} : /\ ServerOK([server EXCEPT !.aff = server.aff - Worth, !.quota = server.quota + w])
                                /\ [server EXCEPT !.aff = server.aff - Worth, !.quota = server.quota + w].quota = server.quota + w
      <3>1. \A w \in {Worth, 0} : server.aff - Worth \in Int /\ server.quota + w \in Int
        BY <1>4
      <3>. QED BY <1>1, <3>1
    <2>3. (IF r.op = "transfer" THEN Worth ELSE 0) \in {Worth, 0}
      OBVIOUS
    <2>4. server.quota + 0 = server.quota
      BY <1>4
    <2>. HIDE DEF n
    <2>. QED BY <1>1, <1>3, <1>4, <1>9, <2>1, <2>2, <2>3, <2>4 DEF Priced, ServeEffect
  <1>. QED BY <1>1, <1>5, <1>6, <1>7, <1>8, <1>9 DEF Asked, Priced

\* A request or an answer that fails.
LEMMA Failed ==
    ASSUME WalletTypes, NEW l \in Lanes, CallFails(l)
    PROVE  /\ lane[l] \in Asked /\ UNCHANGED <<card, invite, server, paid>>
           /\ \E a \in {"refused", "broken"} :
                 /\ lane' = [lane EXCEPT ![l] = [lane[l] EXCEPT !.pc = "back", !.answer = a]]
                 /\ past' \cap {"refused", "broken", "lost"} # {}
           /\ past \subseteq past'
  <1>1. lane[l] \in Asked
    BY AskedIsBusy DEF CallFails
  <1>2. CASE lane[l].pc = "sent"
    BY <1>1, <1>2 DEF CallFails, WalletTypes
  <1>3. CASE lane[l].pc = "back"
    <2>1. lane' = [lane EXCEPT ![l].answer = "broken"] /\ past' = past \cup {"lost"}
          /\ UNCHANGED <<card, invite, server, paid>>
      BY <1>3 DEF CallFails
    <2>2. [lane[l] EXCEPT !.pc = "back", !.answer = "broken"] = [lane[l] EXCEPT !.answer = "broken"]
      BY <1>1, <1>3 DEF Asked
    <2>3. lane' = [lane EXCEPT ![l] = [lane[l] EXCEPT !.pc = "back", !.answer = "broken"]]
      BY <2>1, <2>2 DEF WalletTypes
    <2>. QED BY <1>1, <2>1, <2>3
  <1>. QED BY <1>1, <1>2, <1>3 DEF Asked

LEMMA FreeLaneIdle == FreeLane.pc = "idle"
  BY DEF FreeLane

LEMMA WalletTypesStep ==
    ASSUME WalletTypes, WalletStep
    PROVE  WalletTypes'
  <1>. DEFINE InviteOK == invite' \in [aff : Int, open : {"", "transfer", "withdraw"}]
              ServerOK == server' \in [quota : Int, aff : Int, used : SUBSET WalletData]
  <1>0. /\ card \in TopupCard /\ invite \in [aff : Int, open : {"", "transfer", "withdraw"}]
        /\ server \in [quota : Int, aff : Int, used : SUBSET WalletData]
        /\ card.count \in TypedCounts /\ card.days \in TypedDays /\ card.amount \in Price /\ card.quota \in Int
    BY CardFields DEF WalletTypes
  <1>1. CASE TypeCount
    <2>1. PICK t \in Counts : card' = [card EXCEPT !.count = t] /\ AskAmount("amount", t, card.days)
      BY <1>1 DEF TypeCount
    <2>2. t \in TypedCounts /\ "amount" \in Priced
      BY TypedPlaces DEF Priced
    <2>3. card' \in TopupCard
      BY <1>0, <2>1, <2>2 DEF TopupCard
    <2>. QED BY <1>0, <1>1, <2>1, <2>2, <2>3, AmountAskedTypes DEF TypeCount
  <1>2. CASE PreTopUp
    <2>1. card' = [card EXCEPT !.open = TRUE, !.days = FirstDays] /\ AskAmount("amount", card.count, FirstDays)
      BY <1>2 DEF PreTopUp
    <2>2. FirstDays \in TypedDays /\ "amount" \in Priced
      BY TypedPlaces DEF Priced
    <2>3. card' \in TopupCard
      BY <1>0, <2>1, <2>2 DEF TopupCard
    <2>. QED BY <1>0, <1>2, <2>1, <2>2, <2>3, AmountAskedTypes DEF PreTopUp
  <1>3. CASE PickDays
    <2>1. PICK d \in Days : card' = [card EXCEPT !.days = d] /\ AskAmount("amount", card.count, d)
      BY <1>3 DEF PickDays
    <2>2. d \in TypedDays /\ "amount" \in Priced
      BY TypedPlaces DEF Priced
    <2>3. card' \in TopupCard
      BY <1>0, <2>1, <2>2 DEF TopupCard
    <2>. QED BY <1>0, <1>3, <2>1, <2>2, <2>3, AmountAskedTypes DEF PickDays
  <1>4. CASE CloseDialog
    <2>1. card' \in TopupCard
      BY <1>0, <1>4 DEF CloseDialog, TopupCard
    <2>. QED BY <1>0, <1>4, <2>1, NoLaneTypes DEF CloseDialog, NoCall
  <1>5. CASE OnlineTopUp
    <2>1. CASE AskAmount("amountThenPay", card.count, card.days) /\ UNCHANGED card
      <3>1. "amountThenPay" \in Priced
        BY DEF Priced
      <3>. QED BY <1>0, <1>5, <2>1, <3>1, AmountAskedTypes DEF OnlineTopUp
    <2>2. CASE /\ card' = [card EXCEPT !.open = FALSE]
               /\ Call(Pay(card.count, card.days, card.amount, Pending(Priced) \/ Unseen))
      <3>1. card' \in TopupCard
        BY <1>0, <2>2 DEF TopupCard
      <3>2. (Pending(Priced) \/ Unseen) \in BOOLEAN
        BY DEF Pending, Unseen
      <3>. DEFINE r == Pay(card.count, card.days, card.amount, Pending(Priced) \/ Unseen)
      <3>3. r \in Asked /\ r.pc = "sent" /\ r.op = "pay"
        <4>1. \A h \in BOOLEAN : /\ Pay(card.count, card.days, card.amount, h) \in Asked
                                 /\ Pay(card.count, card.days, card.amount, h).pc = "sent"
                                 /\ Pay(card.count, card.days, card.amount, h).op = "pay"
          <5>1. card.count \in TypedCounts /\ card.days \in TypedDays /\ card.amount \in Price
            BY <1>0
          <5>. QED BY <5>1, PayType
        <4>. QED BY <3>2, <4>1, Zenon
      <3>4. PICK l \in Lanes : lane' = [lane EXCEPT ![l] = r]
        BY <2>2, Called
      <3>5. UNCHANGED <<invite, server>>
        BY <1>5 DEF OnlineTopUp
      <3>. HIDE DEF r
      <3>. QED BY <1>0, <3>1, <3>3, <3>4, <3>5, LaneTypes
    <2>. QED BY <1>5, <2>1, <2>2 DEF OnlineTopUp
  <1>6. CASE TypeCode
    <2>1. PICK k \in Codes : card' = [card EXCEPT !.code = k] /\ UNCHANGED <<invite, server, lane>>
      BY <1>6 DEF TypeCode
    <2>2. card' \in TopupCard
      BY <1>0, <2>1 DEF TopupCard, WalletData
    <2>. QED BY <1>0, <2>1, <2>2, NoLaneTypes
  <1>7. CASE TopUp
    <2>. DEFINE r == [Ask("redeem", "", 0) EXCEPT !.data = card.code]
    <2>1. card' = [card EXCEPT !.redeeming = TRUE] /\ Call(r) /\ UNCHANGED <<invite, server>>
      BY <1>7 DEF TopUp
    <2>2. card' \in TopupCard
      BY <1>0, <2>1 DEF TopupCard
    <2>3. r \in Asked /\ r.pc = "sent" /\ r.op = "redeem"
      <3>1. card.code \in WalletData /\ 0 \in WalletData
        <4>1. card.code \in WalletData
          BY <1>0, CardFields
        <4>. QED BY <4>1 DEF WalletData
      <3>. QED BY <3>1, UnpricedType, TypedPlaces DEF Ask, Asked
    <2>4. PICK l \in Lanes : lane' = [lane EXCEPT ![l] = r]
      BY <2>1, Called
    <2>. HIDE DEF r
    <2>. QED BY <1>0, <2>1, <2>2, <2>3, <2>4, LaneTypes
  <1>8. CASE OpenInvite \/ CloseInvite
    <2>1. InviteOK
      BY <1>0, <1>8 DEF OpenInvite, CloseInvite
    <2>. QED BY <1>0, <1>8, <2>1, NoLaneTypes DEF OpenInvite, CloseInvite, NoCall
  <1>9. CASE TransferOrWithdraw
    <2>1. invite.open \in {"transfer", "withdraw"} /\ Call(Ask(invite.open, "", 0)) /\ UNCHANGED <<card, invite, server>>
      BY <1>0, <1>9 DEF TransferOrWithdraw
    <2>2. \A op \in AskOps : Ask(op, "", 0) \in Asked /\ Ask(op, "", 0).pc = "sent" /\ Ask(op, "", 0).op = op
      <3>1. ASSUME NEW op \in AskOps PROVE \A t \in TypedCounts, d \in TypedDays :
                     Ask(op, t, d) \in Asked /\ Ask(op, t, d).pc = "sent" /\ Ask(op, t, d).op = op
        BY <3>1, AskType
      <3>. QED BY <3>1, TypedPlaces, Zenon
    <2>3. invite.open \in AskOps /\ invite.open \notin {"quota", "aff"} /\ invite.open # "redeem"
      BY <2>1 DEF AskOps
    <2>. DEFINE r == Ask(invite.open, "", 0)
    <2>4. r \in Asked /\ r.pc = "sent" /\ r.op \notin {"quota", "aff"} /\ r.op # "redeem"
      BY <2>2, <2>3
    <2>5. PICK l \in Lanes : lane' = [lane EXCEPT ![l] = r]
      BY <2>1, Called
    <2>. HIDE DEF r
    <2>. QED BY <1>0, <2>1, <2>4, <2>5, LaneTypes
  <1>10. CASE ServerChanges
    <2>1. PICK q \in {0, 1} : server' = [server EXCEPT !.quota = @ - q, !.aff = @ + (1 - q)]
      BY <1>10 DEF ServerChanges
    <2>2. server.quota - q \in Int /\ server.aff + (1 - q) \in Int
      <3>1. server.quota \in Int /\ server.aff \in Int
        BY <1>0
      <3>. QED BY <3>1
    <2>3. ServerOK
      BY <1>0, <2>1, <2>2
    <2>. QED BY <1>0, <1>10, <2>3, NoLaneTypes DEF ServerChanges
  <1>11. ASSUME NEW l \in Lanes, Serve(l) PROVE WalletTypes'
    <2>1. lane[l] \in Asked /\ UNCHANGED <<card, invite>> /\ ServerOK
      BY <1>11, Served
    <2>4. PICK a \in {"ok", "refused"}, d \in Int : ServeEffect(l, a, d)
      BY <1>11, Served
    <2>2. /\ lane' = [lane EXCEPT ![l] = [lane[l] EXCEPT !.pc = "back", !.answer = a, !.data = d]]
          /\ lane[l].op = "redeem" /\ a = "ok" => d = Worth
      BY <2>4 DEF ServeEffect
    <2>. DEFINE r == [lane[l] EXCEPT !.pc = "back", !.answer = a, !.data = d]
    <2>3. r \in Asked /\ r.data = d /\ r.op = lane[l].op /\ r.answer = a
      BY <2>1 DEF Asked, WalletData
    <2>. HIDE DEF r
    <2>. QED BY <1>0, <2>1, <2>2, <2>3, LaneTypes DEF r
  <1>12. ASSUME NEW l \in Lanes, CallFails(l) PROVE WalletTypes'
    <2>1. lane[l] \in Asked /\ UNCHANGED <<card, invite, server>>
      BY <1>12, Failed
    <2>2. PICK a \in {"refused", "broken"} :
            lane' = [lane EXCEPT ![l] = [lane[l] EXCEPT !.pc = "back", !.answer = a]]
      BY <1>12, Failed
    <2>. DEFINE r == [lane[l] EXCEPT !.pc = "back", !.answer = a]
    <2>3. r \in Asked /\ r.data = lane[l].data /\ r.op = lane[l].op /\ r.answer = a
      BY <2>1 DEF Asked
    <2>4. lane[l].op \in {"quota", "aff"} => lane[l].data \in Int
      BY <2>1 DEF WalletTypes, Busy, Asked
    <2>. HIDE DEF r
    <2>. QED BY <1>0, <2>1, <2>2, <2>3, <2>4, LaneTypes DEF r
  <1>13. ASSUME NEW l \in Lanes,
                \/ QuotaShown(l) \/ OptionsShown(l) \/ AffShown(l) \/ PayAnswered(l) \/ Redeemed(l)
         PROVE  WalletTypes'
    <2>1. lane' = [lane EXCEPT ![l] = FreeLane] /\ UNCHANGED server
      BY <1>13 DEF QuotaShown, OptionsShown, AffShown, PayAnswered, Redeemed, Over
    <2>2. InviteOK
      BY <1>0, <1>13 DEF QuotaShown, OptionsShown, AffShown, PayAnswered, Redeemed, Returned, WalletTypes, Busy
    <2>3. card' \in TopupCard
      <3>1. CASE QuotaShown(l)
        <4>1. lane[l].data \in Int
          BY <3>1 DEF QuotaShown, Returned, WalletTypes, Busy
        <4>. QED BY <1>0, <3>1, <4>1 DEF QuotaShown, TopupCard
      <3>2. CASE OptionsShown(l)
        BY <1>0, <3>2 DEF OptionsShown, TopupCard
      <3>3. CASE Redeemed(l)
        <4>1. IsOk(l) => card.quota + lane[l].data \in Int
          <5>1. IsOk(l) => lane[l].data = Worth
            BY <3>3 DEF Redeemed, Returned, IsOk, WalletTypes, Busy
          <5>2. card.quota \in Int
            BY <1>0
          <5>. QED BY <5>1, <5>2 DEF Worth
        <4>2. 0 \in WalletData
          BY DEF WalletData
        <4>. QED BY <1>0, <3>3, <4>1, <4>2 DEF Redeemed, TopupCard
      <3>. QED BY <1>0, <1>13, <3>1, <3>2, <3>3 DEF AffShown, PayAnswered
    <2>. QED BY <1>0, <2>1, <2>2, <2>3, FreeLaneIdle, LaneTypes
  <1>14. ASSUME NEW l \in Lanes, AmountShown(l) PROVE WalletTypes'
    <2>1. lane[l] \in Asked
      BY <1>14, AskedIsBusy DEF AmountShown, Returned
    <2>. DEFINE a == IF IsOk(l) THEN [count |-> NumberIn(lane[l].typed), days |-> lane[l].days] ELSE card.amount
    <2>2. a \in Price
      BY <1>0, <2>1 DEF Price, Asked, NumberIn
    <2>3. card' = [card EXCEPT !.amount = a, !.open = card.open /\ lane[l].op = "amount"]
      BY <1>14 DEF AmountShown
    <2>. HIDE DEF a
    <2>4. card' \in TopupCard
      BY <1>0, <2>2, <2>3 DEF TopupCard
    <2>. DEFINE r == IF lane[l].op = "amount" THEN FreeLane ELSE Pay(lane[l].typed, lane[l].days, Unpriced, TRUE)
    <2>5. r \in Asked \cup {FreeLane} /\ (r.pc # "idle" => r.pc = "sent" /\ r.op = "pay")
      <3>1. lane[l].typed \in TypedCounts /\ lane[l].days \in TypedDays
        BY <2>1 DEF Asked
      <3>2. \A h \in BOOLEAN : /\ Pay(lane[l].typed, lane[l].days, Unpriced, h) \in Asked
                               /\ Pay(lane[l].typed, lane[l].days, Unpriced, h).pc = "sent"
                               /\ Pay(lane[l].typed, lane[l].days, Unpriced, h).op = "pay"
        BY <3>1, UnpricedType, PayType
      <3>3. /\ Pay(lane[l].typed, lane[l].days, Unpriced, TRUE) \in Asked
            /\ Pay(lane[l].typed, lane[l].days, Unpriced, TRUE).pc = "sent"
            /\ Pay(lane[l].typed, lane[l].days, Unpriced, TRUE).op = "pay"
        BY <3>2, Zenon
      <3>. QED BY <3>3, FreeLaneIdle
    <2>6. lane' = [lane EXCEPT ![l] = r]
      BY <1>14 DEF AmountShown
    <2>7. UNCHANGED <<invite, server>>
      BY <1>14 DEF AmountShown
    <2>8. FreeLane.pc = "idle"
      BY FreeLaneIdle
    <2>. HIDE DEF r
    <2>. QED BY <1>0, <2>4, <2>5, <2>6, <2>7, <2>8, LaneTypes
  <1>15. ASSUME NEW l \in Lanes, Transferred(l) PROVE WalletTypes'
    <2>. DEFINE r == IF IsOk(l) THEN Ask("aff", "", 0) ELSE FreeLane
    <2>1. lane' = [lane EXCEPT ![l] = r] /\ UNCHANGED <<card, server>>
      BY <1>15 DEF Transferred
    <2>2. InviteOK
      BY <1>0, <1>15 DEF Transferred
    <2>3. r \in Asked \cup {FreeLane} /\ (r.pc # "idle" => r.pc = "sent" /\ r.op = "aff" /\ r.data \in Int)
      <3>1. "aff" \in AskOps
        BY DEF AskOps
      <3>2. \A t \in TypedCounts, d \in TypedDays :
              Ask("aff", t, d) \in Asked /\ Ask("aff", t, d).pc = "sent" /\ Ask("aff", t, d).op = "aff" /\ Ask("aff", t, d).data = 0
        BY <3>1, AskType
      <3>3. Ask("aff", "", 0) \in Asked /\ Ask("aff", "", 0).pc = "sent" /\ Ask("aff", "", 0).op = "aff" /\ Ask("aff", "", 0).data = 0
        BY <3>2, TypedPlaces, Zenon
      <3>4. 0 \in Int
        OBVIOUS
      <3>. QED BY <3>3, <3>4, FreeLaneIdle
    <2>. HIDE DEF r
    <2>. QED BY <1>0, <2>1, <2>2, <2>3, FreeLaneIdle, LaneTypes
  <1>. QED BY <1>1, <1>2, <1>3, <1>4, <1>5, <1>6, <1>7, <1>8, <1>9, <1>10, <1>11, <1>12, <1>13, <1>14, <1>15 DEF WalletStep
-----------------------------------------------------------------------------
(* The wallet: what becomes of the requests                                *)

\* At most one lane changes: idle before or a request of X, and idle after or one of Y.
Move(X, Y) ==
    \/ lane' = lane
    \/ \E l \in Lanes : \E r \in Asked \cup {FreeLane} :
          /\ lane' = [lane EXCEPT ![l] = r]
          /\ lane[l].pc = "idle" \/ lane[l].op \in X
          /\ r.pc = "idle" \/ r.op \in Y

\* The requests of other kinds are as they were.
LEMMA MoveKeeps ==
    ASSUME WalletTypes, NEW X, NEW Y, Move(X, Y), NEW ops, \A op \in ops : op \notin X /\ op \notin Y
    PROVE  \A k \in Lanes : /\ Busy(k, ops)' <=> Busy(k, ops)
                            /\ Busy(k, ops) => lane'[k] = lane[k]
  <1>1. CASE lane' = lane
    BY <1>1 DEF Busy
  <1>2. ASSUME NEW l \in Lanes, NEW r \in Asked \cup {FreeLane}, lane' = [lane EXCEPT ![l] = r],
               lane[l].pc = "idle" \/ lane[l].op \in X, r.pc = "idle" \/ r.op \in Y
        PROVE  \A k \in Lanes : /\ Busy(k, ops)' <=> Busy(k, ops)
                                /\ Busy(k, ops) => lane'[k] = lane[k]
    BY <1>2 DEF Busy, WalletTypes
  <1>. QED BY <1>1, <1>2 DEF Move

\* What each request that is sent is.
LEMMA AskBare ==
    ASSUME NEW op \in AskOps
    PROVE  Ask(op, "", 0) \in Asked /\ Ask(op, "", 0).pc = "sent" /\ Ask(op, "", 0).op = op
           /\ Ask(op, "", 0).answer = "ok" /\ Ask(op, "", 0).data = 0
  <1>1. \A t \in TypedCounts, d \in TypedDays :
           Ask(op, t, d) \in Asked /\ Ask(op, t, d).pc = "sent" /\ Ask(op, t, d).op = op
           /\ Ask(op, t, d).answer = "ok" /\ Ask(op, t, d).data = 0
    BY AskType
  <1>2. "" \in TypedCounts /\ 0 \in TypedDays
    BY TypedPlaces
  <1>. QED BY <1>1, <1>2, Zenon

PayDialog == TypeCount \/ PreTopUp \/ PickDays \/ CloseDialog \/ OnlineTopUp

LEMMA AmountMoves ==
    ASSUME WalletTypes, NEW op \in Priced, NEW t \in TypedCounts, NEW d \in TypedDays, AskAmount(op, t, d)
    PROVE  Move({}, Priced \cup {"pay"}) /\ past \subseteq past'
  <1>1. op \in AskOps
    BY DEF Priced, AskOps
  <1>2. Ask(op, t, d) \in Asked /\ Ask(op, t, d).op = op
    BY <1>1, AskType
  <1>3. past \subseteq past'
    BY DEF AskAmount
  <1>. QED BY <1>2, <1>3, AmountAsked DEF Move

LEMMA PayDialogMoves ==
    ASSUME WalletTypes, PayDialog
    PROVE  /\ Move({}, Priced \cup {"pay"})
           /\ card'.quota = card.quota /\ card'.redeeming = card.redeeming
           /\ UNCHANGED <<invite, server>> /\ past \subseteq past'
  <1>0. card \in TopupCard /\ card.count \in TypedCounts /\ card.days \in TypedDays /\ card.amount \in Price
    BY CardFields DEF WalletTypes
  <1>a. "amount" \in Priced /\ "amountThenPay" \in Priced
    BY DEF Priced
  <1>1. CASE TypeCount
    <2>1. PICK t \in Counts : card' = [card EXCEPT !.count = t] /\ AskAmount("amount", t, card.days)
      BY <1>1 DEF TypeCount
    <2>2. t \in TypedCounts
      BY TypedPlaces
    <2>3. card'.quota = card.quota /\ card'.redeeming = card.redeeming
      BY <1>0, <2>1 DEF TopupCard
    <2>4. Move({}, Priced \cup {"pay"}) /\ past \subseteq past'
      BY <1>0, <1>a, <2>1, <2>2, AmountMoves
    <2>. QED BY <1>1, <2>3, <2>4 DEF TypeCount
  <1>2. CASE PreTopUp
    <2>1. card' = [card EXCEPT !.open = TRUE, !.days = FirstDays] /\ AskAmount("amount", card.count, FirstDays)
      BY <1>2 DEF PreTopUp
    <2>3. card'.quota = card.quota /\ card'.redeeming = card.redeeming
      BY <1>0, <2>1 DEF TopupCard
    <2>4. Move({}, Priced \cup {"pay"}) /\ past \subseteq past'
      BY <1>0, <1>a, <2>1, TypedPlaces, AmountMoves
    <2>. QED BY <1>2, <2>3, <2>4 DEF PreTopUp
  <1>3. CASE PickDays
    <2>1. PICK d \in Days : card' = [card EXCEPT !.days = d] /\ AskAmount("amount", card.count, d)
      BY <1>3 DEF PickDays
    <2>2. d \in TypedDays
      BY TypedPlaces
    <2>3. card'.quota = card.quota /\ card'.redeeming = card.redeeming
      BY <1>0, <2>1 DEF TopupCard
    <2>4. Move({}, Priced \cup {"pay"}) /\ past \subseteq past'
      BY <1>0, <1>a, <2>1, <2>2, AmountMoves
    <2>. QED BY <1>3, <2>3, <2>4 DEF PickDays
  <1>4. CASE CloseDialog
    BY <1>0, <1>4 DEF CloseDialog, NoCall, Move, TopupCard
  <1>5. CASE OnlineTopUp
    <2>1. CASE AskAmount("amountThenPay", card.count, card.days) /\ UNCHANGED card
      <3>1. Move({}, Priced \cup {"pay"}) /\ past \subseteq past'
        BY <1>0, <1>a, <2>1, AmountMoves
      <3>. QED BY <1>5, <2>1, <3>1 DEF OnlineTopUp
    <2>2. CASE /\ card' = [card EXCEPT !.open = FALSE] /\ UNCHANGED past
               /\ Call(Pay(card.count, card.days, card.amount, Pending(Priced) \/ Unseen))
      <3>1. card'.quota = card.quota /\ card'.redeeming = card.redeeming
        BY <1>0, <2>2 DEF TopupCard
      <3>2. (Pending(Priced) \/ Unseen) \in BOOLEAN
        BY DEF Pending, Unseen
      <3>3. \A h \in BOOLEAN : /\ Pay(card.count, card.days, card.amount, h) \in Asked
                               /\ Pay(card.count, card.days, card.amount, h).op = "pay"
        BY <1>0, PayType
      <3>. DEFINE r == Pay(card.count, card.days, card.amount, Pending(Priced) \/ Unseen)
      <3>4. r \in Asked /\ r.op = "pay"
        BY <3>2, <3>3, Zenon
      <3>5. \E l \in Lanes : lane[l].pc = "idle" /\ lane' = [lane EXCEPT ![l] = r]
        BY <2>2, Called
      <3>. HIDE DEF r
      <3>6. Move({}, Priced \cup {"pay"})
        BY <3>4, <3>5 DEF Move
      <3>. QED BY <1>5, <2>2, <3>1, <3>6 DEF OnlineTopUp
    <2>. QED BY <1>5, <2>1, <2>2 DEF OnlineTopUp
  <1>. QED BY <1>1, <1>2, <1>3, <1>4, <1>5 DEF PayDialog

\* The steps that change no lane, or free one.
LEMMA StillMoves ==
    ASSUME TypeCode \/ OpenInvite \/ CloseInvite \/ ServerChanges
    PROVE  lane' = lane /\ past \subseteq past'
  BY DEF TypeCode, OpenInvite, CloseInvite, ServerChanges, NoCall

LEMMA FreeMoves ==
    ASSUME WalletTypes, NEW l \in Lanes
    PROVE  /\ QuotaShown(l) => Move({"quota"}, {})
           /\ OptionsShown(l) => Move({"options"}, {})
           /\ AffShown(l) => Move({"aff"}, {})
           /\ PayAnswered(l) => Move({"pay"}, {})
           /\ Redeemed(l) => Move({"redeem"}, {})
           /\ QuotaShown(l) \/ OptionsShown(l) \/ AffShown(l) \/ PayAnswered(l) \/ Redeemed(l) =>
                 /\ lane[l].pc = "back" /\ lane' = [lane EXCEPT ![l] = FreeLane]
                 /\ UNCHANGED <<server, past>>
  BY FreeLaneIdle DEF QuotaShown, OptionsShown, AffShown, PayAnswered, Redeemed, Returned, Over, Move

LEMMA AmountShownMoves ==
    ASSUME WalletTypes, NEW l \in Lanes, AmountShown(l)
    PROVE  /\ Move(Priced, {"pay"})
           /\ card'.quota = card.quota /\ card'.redeeming = card.redeeming
           /\ UNCHANGED <<invite, server, past>>
  <1>1. lane[l] \in Asked /\ lane[l].op \in Priced
    BY AskedIsBusy DEF AmountShown, Returned
  <1>2. lane[l].typed \in TypedCounts /\ lane[l].days \in TypedDays
    BY <1>1 DEF Asked
  <1>3. \A h \in BOOLEAN : /\ Pay(lane[l].typed, lane[l].days, Unpriced, h) \in Asked
                           /\ Pay(lane[l].typed, lane[l].days, Unpriced, h).op = "pay"
    BY <1>2, UnpricedType, PayType
  <1>4. /\ Pay(lane[l].typed, lane[l].days, Unpriced, TRUE) \in Asked
        /\ Pay(lane[l].typed, lane[l].days, Unpriced, TRUE).op = "pay"
    BY <1>3, Zenon
  <1>. DEFINE r == IF lane[l].op = "amount" THEN FreeLane ELSE Pay(lane[l].typed, lane[l].days, Unpriced, TRUE)
  <1>5. r \in Asked \cup {FreeLane} /\ (r.pc = "idle" \/ r.op = "pay")
    BY <1>4, FreeLaneIdle
  <1>6. lane' = [lane EXCEPT ![l] = r]
    BY DEF AmountShown
  <1>. HIDE DEF r
  <1>7. Move(Priced, {"pay"})
    BY <1>1, <1>5, <1>6 DEF Move
  <1>8. card'.quota = card.quota /\ card'.redeeming = card.redeeming
    BY DEF AmountShown, WalletTypes, TopupCard
  <1>. QED BY <1>7, <1>8 DEF AmountShown

LEMMA TransferredMoves ==
    ASSUME WalletTypes, NEW l \in Lanes, Transferred(l)
    PROVE  /\ Move({"transfer", "withdraw"}, {"aff"})
           /\ UNCHANGED <<card, server>> /\ past \subseteq past'
           /\ lane' = [lane EXCEPT ![l] = IF IsOk(l) THEN Ask("aff", "", 0) ELSE FreeLane]
           /\ invite'.aff = invite.aff
           /\ lane[l].pc = "back" /\ lane[l].op \in {"transfer", "withdraw"}
  <1>1. "aff" \in AskOps
    BY DEF AskOps
  <1>2. Ask("aff", "", 0) \in Asked /\ Ask("aff", "", 0).op = "aff"
    BY <1>1, AskBare
  <1>. DEFINE r == IF IsOk(l) THEN Ask("aff", "", 0) ELSE FreeLane
  <1>3. r \in Asked \cup {FreeLane} /\ (r.pc = "idle" \/ r.op = "aff")
    BY <1>2, FreeLaneIdle
  <1>4. lane' = [lane EXCEPT ![l] = r] /\ lane[l].op \in {"transfer", "withdraw"} /\ lane[l].pc = "back"
    BY DEF Transferred, Returned
  <1>5. Move({"transfer", "withdraw"}, {"aff"})
    <2>. HIDE DEF r
    <2>. QED BY <1>3, <1>4 DEF Move
  <1>6. invite'.aff = invite.aff
    BY DEF Transferred, WalletTypes
  <1>. QED BY <1>4, <1>5, <1>6 DEF Transferred

LEMMA TransferMoves ==
    ASSUME WalletTypes, TransferOrWithdraw
    PROVE  Move({}, {"transfer", "withdraw"}) /\ UNCHANGED <<card, invite, server, past>>
  <1>1. invite.open \in {"transfer", "withdraw"} /\ Call(Ask(invite.open, "", 0))
    BY DEF TransferOrWithdraw, WalletTypes
  <1>2. invite.open \in AskOps
    BY <1>1 DEF AskOps
  <1>. DEFINE r == Ask(invite.open, "", 0)
  <1>3. r \in Asked /\ r.op = invite.open
    BY <1>2, AskBare
  <1>4. \E l \in Lanes : lane[l].pc = "idle" /\ lane' = [lane EXCEPT ![l] = r]
    BY <1>1, Called
  <1>. HIDE DEF r
  <1>5. Move({}, {"transfer", "withdraw"})
    BY <1>1, <1>3, <1>4 DEF Move
  <1>. QED BY <1>5 DEF TransferOrWithdraw

LEMMA TopUpMoves ==
    ASSUME WalletTypes, TopUp
    PROVE  /\ \E l \in Lanes : \E r \in Asked :
                 /\ lane[l].pc = "idle" /\ lane' = [lane EXCEPT ![l] = r]
                 /\ r.pc = "sent" /\ r.op = "redeem"
           /\ ~card.redeeming /\ card'.redeeming = TRUE /\ card'.quota = card.quota
           /\ Pending({"quota"}) => "raced" \in past'
           /\ UNCHANGED <<invite, server>> /\ past \subseteq past'
  <1>. DEFINE r == [Ask("redeem", "", 0) EXCEPT !.data = card.code]
  <1>1. card' = [card EXCEPT !.redeeming = TRUE] /\ Call(r) /\ UNCHANGED <<invite, server>> /\ ~card.redeeming
        /\ past' = past \cup {e \in {"raced"} : Pending({"quota"})}
    BY DEF TopUp
  <1>2. card'.redeeming = TRUE /\ card'.quota = card.quota
    BY <1>1 DEF WalletTypes, TopupCard
  <1>3. r \in Asked /\ r.pc = "sent" /\ r.op = "redeem"
    <2>1. card \in TopupCard
      BY DEF WalletTypes
    <2>2. card.code \in WalletData
      BY <2>1, CardFields
    <2>3. 0 \in WalletData
      BY DEF WalletData
    <2>. QED BY <2>2, <2>3, UnpricedType, TypedPlaces DEF Ask, Asked
  <1>4. PICK l \in Lanes : lane[l].pc = "idle" /\ lane' = [lane EXCEPT ![l] = r]
    BY <1>1, Called
  <1>. HIDE DEF r
  <1>. QED BY <1>1, <1>2, <1>3, <1>4

LEMMA ServeMoves ==
    ASSUME WalletTypes, NEW l \in Lanes, Serve(l) \/ CallFails(l)
    PROVE  /\ \A k \in Lanes \ {l} : lane'[k] = lane[k]
           /\ lane[l].pc # "idle" /\ lane'[l].pc = "back" /\ lane'[l].op = lane[l].op
           /\ lane'[l].typed = lane[l].typed /\ lane'[l].days = lane[l].days
           /\ lane'[l].shown = lane[l].shown /\ lane'[l].hasty = lane[l].hasty
           /\ \A k \in Lanes : \A ops : Busy(k, ops)' <=> Busy(k, ops)
  <1>1. lane[l] \in Asked
    BY Served, Failed
  <1>2. lane[l].pc # "idle"
    BY <1>1 DEF Asked
  <1>3. /\ \A k \in Lanes \ {l} : lane'[k] = lane[k]
        /\ lane'[l].pc = "back" /\ lane'[l].op = lane[l].op
        /\ lane'[l].typed = lane[l].typed /\ lane'[l].days = lane[l].days
        /\ lane'[l].shown = lane[l].shown /\ lane'[l].hasty = lane[l].hasty
    <2>1. CASE Serve(l)
      <3>1. PICK a \in {"ok", "refused"}, d \in Int : ServeEffect(l, a, d)
        BY <2>1, Served
      <3>2. lane' = [lane EXCEPT ![l] = [lane[l] EXCEPT !.pc = "back", !.answer = a, !.data = d]]
        BY <3>1 DEF ServeEffect
      <3>. QED BY <1>1, <3>2 DEF WalletTypes, Asked
    <2>2. CASE CallFails(l)
      <3>1. PICK a \in {"refused", "broken"} : lane' = [lane EXCEPT ![l] = [lane[l] EXCEPT !.pc = "back", !.answer = a]]
        BY <2>2, Failed
      <3>. QED BY <1>1, <3>1 DEF WalletTypes, Asked
    <2>. QED BY <2>1, <2>2
  <1>4. ASSUME NEW k \in Lanes, NEW ops PROVE Busy(k, ops)' <=> Busy(k, ops)
    BY <1>2, <1>3 DEF Busy
  <1>. QED BY <1>2, <1>3, <1>4
-----------------------------------------------------------------------------
(* The wallet: the quotas shown                                            *)

QuotaExcused == past \cap {"transferred", "raced", "refused", "broken", "lost", "elsewhere"} # {}
AffExcused == past \cap {"affReordered", "refused", "broken", "lost", "elsewhere"} # {}
AnsweredWell(l) == lane[l].pc = "back" /\ lane[l].answer = "ok"

\* The flag redeeming keeps a second code from being sent.
RedeemsOnce ==
    /\ \A l \in Lanes : Busy(l, {"redeem"}) => card.redeeming
    /\ \A l, k \in Lanes : Busy(l, {"redeem"}) /\ Busy(k, {"redeem"}) => l = k
\* While the quota is loaded no code is redeemed, and what was read is the row's.
QuotaLoads ==
    part = "quotas" /\ ~QuotaExcused =>
        \A l \in Lanes : Busy(l, {"quota"}) =>
            /\ lane[l].answer = "ok"
            /\ lane[l].pc = "back" => lane[l].data = server.quota
            /\ \A k \in Lanes : ~Busy(k, {"redeem"}) /\ (Busy(k, {"quota"}) => k = l)
\* Afterwards the card lacks what a code was worth whose answer is under way.
QuotaSum ==
    part = "quotas" /\ ~QuotaExcused /\ ~Pending({"quota"}) =>
        /\ (\E l \in Lanes : Busy(l, {"redeem"}) /\ AnsweredWell(l)) => card.quota + Worth = server.quota
        /\ (\A l \in Lanes : Busy(l, {"redeem"}) => ~AnsweredWell(l)) => card.quota = server.quota
WalletQuota == RedeemsOnce /\ QuotaLoads /\ QuotaSum

\* A transfer or a withdrawal was answered, and the card is about to be refreshed.
RefreshDue == \E l \in Lanes : Busy(l, {"transfer", "withdraw"}) /\ AnsweredWell(l)
\* One refresh is under way, and it brings what the row has, or another is due.
WalletAff ==
    part = "quotas" /\ ~AffExcused =>
        /\ \A l \in Lanes : Busy(l, {"aff"}) =>
              /\ lane[l].answer = "ok"
              /\ lane[l].pc = "back" /\ ~RefreshDue => lane[l].data = server.aff
              /\ \A k \in Lanes : Busy(k, {"aff"}) => k = l
        /\ ~Pending({"aff"}) /\ ~RefreshDue => invite.aff = server.aff

LEMMA WalletShownInit ==
    ASSUME WalletInit
    PROVE  WalletQuota /\ WalletAff
  <1>. DEFINE first(l) == CASE part = "pay" /\ l = 1 -> Ask("options", "", 0)
                            [] part = "quotas" /\ l = 1 -> Ask("quota", "", 0)
                            [] part = "quotas" /\ l = 2 -> Ask("aff", "", 0)
                            [] OTHER -> FreeLane
  <1>1. lane = [l \in Lanes |-> first(l)]
    BY DEF WalletInit
  <1>2. {"options", "quota", "aff"} \subseteq AskOps
    BY DEF AskOps
  <1>3. /\ Ask("options", "", 0).pc = "sent" /\ Ask("options", "", 0).op = "options" /\ Ask("options", "", 0).answer = "ok"
        /\ Ask("quota", "", 0).pc = "sent" /\ Ask("quota", "", 0).op = "quota" /\ Ask("quota", "", 0).answer = "ok"
        /\ Ask("aff", "", 0).pc = "sent" /\ Ask("aff", "", 0).op = "aff" /\ Ask("aff", "", 0).answer = "ok"
    BY DEF Ask
  <1>4. \A l \in Lanes : /\ lane[l].pc \in {"sent", "idle"}
                         /\ lane[l].pc # "idle" => lane[l].answer = "ok" /\ lane[l].op \in {"options", "quota", "aff"}
                         /\ lane[l].pc # "idle" /\ lane[l].op = "quota" => l = 1
                         /\ lane[l].pc # "idle" /\ lane[l].op = "aff" => l = 2
    BY <1>1, <1>3, FreeLaneIdle
  <1>5. 1 \in Lanes /\ 2 \in Lanes
    BY LanesAssumption
  <1>14. part = "quotas" => first(1) = Ask("quota", "", 0) /\ first(2) = Ask("aff", "", 0)
    <2>1. 2 # 1 /\ "quotas" # "pay"
      OBVIOUS
    <2>. QED BY <2>1
  <1>. HIDE DEF first
  <1>6. part = "quotas" => lane[1] = Ask("quota", "", 0)
    BY <1>1, <1>5, <1>14
  <1>7. part = "quotas" => lane[2] = Ask("aff", "", 0)
    BY <1>1, <1>5, <1>14
  <1>8. part = "quotas" => Pending({"quota"}) /\ Pending({"aff"})
    BY <1>3, <1>5, <1>6, <1>7 DEF Pending
  <1>9. \A l \in Lanes : ~Busy(l, {"redeem"}) /\ lane[l].pc # "back"
    BY <1>4 DEF Busy
  <1>10. RedeemsOnce
    BY <1>9 DEF RedeemsOnce
  <1>11. QuotaLoads
    BY <1>4, <1>9 DEF QuotaLoads, Busy
  <1>12. QuotaSum
    BY <1>8 DEF QuotaSum
  <1>13. WalletAff
    BY <1>4, <1>8, <1>9 DEF WalletAff, Busy
  <1>. QED BY <1>10, <1>11, <1>12, <1>13 DEF WalletQuota

\* What is under way is what is busy.
LEMMA PendingIsBusy ==
    ASSUME NEW ops
    PROVE  Pending(ops) <=> \E l \in Lanes : Busy(l, ops)
  BY DEF Pending, Busy

\* Steps of which the quota takes no notice.
LEMMA QuotaKept ==
    ASSUME WalletQuota, part' = part, card'.quota = card.quota, card'.redeeming = card.redeeming,
           server'.quota = server.quota, past \subseteq past',
           \A k \in Lanes : /\ Busy(k, {"redeem"})' <=> Busy(k, {"redeem"})
                            /\ Busy(k, {"redeem"}) => lane'[k] = lane[k]
                            /\ Busy(k, {"quota"})' <=> Busy(k, {"quota"})
                            /\ Busy(k, {"quota"}) => lane'[k] = lane[k]
    PROVE  WalletQuota'
  <1>1. QuotaExcused => QuotaExcused'
    BY DEF QuotaExcused
  <1>2. Pending({"quota"})' <=> Pending({"quota"})
    BY PendingIsBusy DEF Pending, Busy
  <1>3. \A k \in Lanes : Busy(k, {"redeem"}) => (AnsweredWell(k)' <=> AnsweredWell(k))
    BY DEF AnsweredWell
  <1>4. RedeemsOnce'
    BY DEF WalletQuota, RedeemsOnce
  <1>5. QuotaLoads'
    BY <1>1 DEF WalletQuota, QuotaLoads
  <1>6. QuotaSum'
    BY <1>1, <1>2, <1>3 DEF WalletQuota, QuotaSum
  <1>. QED BY <1>4, <1>5, <1>6 DEF WalletQuota

\* Steps that excuse what the quota shows.
LEMMA QuotaForgiven ==
    ASSUME QuotaExcused', RedeemsOnce'
    PROVE  WalletQuota'
  BY DEF WalletQuota, QuotaLoads, QuotaSum

\* Steps of which the invitation quota takes no notice.
LEMMA AffKept ==
    ASSUME WalletAff, part' = part, invite'.aff = invite.aff, server'.aff = server.aff, past \subseteq past',
           \A k \in Lanes : /\ Busy(k, {"aff"})' <=> Busy(k, {"aff"})
                            /\ Busy(k, {"aff"}) => lane'[k] = lane[k]
                            /\ Busy(k, {"transfer", "withdraw"})' /\ AnsweredWell(k)'
                                  <=> Busy(k, {"transfer", "withdraw"}) /\ AnsweredWell(k)
    PROVE  WalletAff'
  <1>1. AffExcused => AffExcused'
    BY DEF AffExcused
  <1>2. Pending({"aff"})' <=> Pending({"aff"})
    BY DEF Pending, Busy
  <1>3. RefreshDue' <=> RefreshDue
    BY DEF RefreshDue
  <1>. QED BY <1>1, <1>2, <1>3 DEF WalletAff

\* The steps that the quota does not notice keep it.
LEMMA QuotaMoves ==
    ASSUME WalletTypes, WalletQuota, part' = part, NEW X, NEW Y, Move(X, Y),
           \A op \in {"quota", "redeem"} : op \notin X /\ op \notin Y,
           card'.quota = card.quota, card'.redeeming = card.redeeming, server'.quota = server.quota,
           past \subseteq past'
    PROVE  WalletQuota'
  <1>1. \A k \in Lanes : /\ Busy(k, {"redeem"})' <=> Busy(k, {"redeem"})
                         /\ Busy(k, {"redeem"}) => lane'[k] = lane[k]
    BY MoveKeeps
  <1>2. \A k \in Lanes : /\ Busy(k, {"quota"})' <=> Busy(k, {"quota"})
                         /\ Busy(k, {"quota"}) => lane'[k] = lane[k]
    BY MoveKeeps
  <1>. QED BY <1>1, <1>2, QuotaKept

LEMMA TopUpQuota ==
    ASSUME WalletTypes, WalletQuota, part' = part, TopUp
    PROVE  WalletQuota'
  <1>1. PICK l \in Lanes, r \in Asked : /\ lane[l].pc = "idle" /\ lane' = [lane EXCEPT ![l] = r]
                                        /\ r.pc = "sent" /\ r.op = "redeem"
    BY TopUpMoves
  <1>2. /\ ~card.redeeming /\ card'.redeeming = TRUE /\ card'.quota = card.quota
        /\ Pending({"quota"}) => "raced" \in past'
        /\ UNCHANGED <<invite, server>> /\ past \subseteq past'
    BY TopUpMoves
  <1>3. lane'[l] = r /\ \A k \in Lanes \ {l} : lane'[k] = lane[k]
    BY <1>1 DEF WalletTypes
  <1>4. \A k \in Lanes : ~Busy(k, {"redeem"}) /\ (Busy(k, {"redeem"})' <=> k = l)
                         /\ (Busy(k, {"quota"})' <=> Busy(k, {"quota"}))
    BY <1>1, <1>2, <1>3 DEF WalletQuota, RedeemsOnce, Busy
  <1>5. RedeemsOnce'
    BY <1>2, <1>4 DEF RedeemsOnce
  <1>6. CASE Pending({"quota"})
    <2>1. QuotaExcused'
      BY <1>2, <1>6 DEF QuotaExcused
    <2>. QED BY <1>5, <2>1, QuotaForgiven
  <1>7. CASE ~Pending({"quota"})
    <2>1. \A k \in Lanes : ~Busy(k, {"quota"})'
      BY <1>4, <1>7 DEF Pending, Busy
    <2>2. QuotaLoads'
      BY <2>1 DEF QuotaLoads
    <2>3. QuotaExcused => QuotaExcused'
      BY <1>2 DEF QuotaExcused
    <2>4. \A k \in Lanes : ~(Busy(k, {"redeem"})' /\ AnsweredWell(k)')
      BY <1>1, <1>3, <1>4 DEF AnsweredWell
    <2>5. QuotaSum'
      BY <1>2, <1>4, <1>7, <2>3, <2>4 DEF WalletQuota, QuotaSum
    <2>. QED BY <1>5, <2>2, <2>5 DEF WalletQuota
  <1>. QED BY <1>6, <1>7

LEMMA ServeQuota ==
    ASSUME WalletTypes, WalletQuota, part' = part, NEW l \in Lanes, Serve(l)
    PROVE  WalletQuota'
  <1>1. lane[l] \in Asked /\ lane[l].pc = "sent" /\ past \subseteq past' /\ UNCHANGED <<card, invite>>
    BY Served
  <1>2. PICK a \in {"ok", "refused"}, d \in Int : ServeEffect(l, a, d)
    BY Served
  <1>3. /\ \A k \in Lanes \ {l} : lane'[k] = lane[k]
        /\ lane'[l].op = lane[l].op
        /\ \A k \in Lanes : \A ops : Busy(k, ops)' <=> Busy(k, ops)
    BY ServeMoves
  <1>4. lane'[l].pc = "back" /\ lane'[l].answer = a /\ lane'[l].data = d
    BY <1>1, <1>2 DEF ServeEffect, WalletTypes, Asked
  <1>5. RedeemsOnce'
    BY <1>1, <1>3 DEF WalletQuota, RedeemsOnce
  <1>6. QuotaExcused => QuotaExcused'
    BY <1>1 DEF QuotaExcused
  <1>7. CASE lane[l].op = "transfer"
    <2>1. QuotaExcused'
      BY <1>2, <1>7 DEF ServeEffect, QuotaExcused
    <2>. QED BY <1>5, <2>1, QuotaForgiven
  <1>8. CASE lane[l].op = "quota"
    <2>1. a = "ok" /\ d = server.quota /\ server' = server
      BY <1>2, <1>8 DEF ServeEffect
    <2>2. Busy(l, {"quota"}) /\ ~Busy(l, {"redeem"})
      BY <1>1, <1>8 DEF Busy
    <2>3. QuotaLoads'
      BY <1>3, <1>4, <1>6, <2>1, <2>2 DEF WalletQuota, QuotaLoads
    <2>4. Pending({"quota"})'
      BY <1>3, <2>2 DEF Pending, Busy
    <2>5. QuotaSum'
      BY <2>4 DEF QuotaSum
    <2>. QED BY <1>5, <2>3, <2>5 DEF WalletQuota
  <1>9. CASE lane[l].op = "redeem"
    <2>1. Busy(l, {"redeem"}) /\ ~Busy(l, {"quota"})
      BY <1>1, <1>9 DEF Busy
    <2>2. server'.quota = IF a = "ok" THEN server.quota + Worth ELSE server.quota
      BY <1>2, <1>9 DEF ServeEffect
    <2>3. QuotaLoads'
      BY <1>3, <1>6, <2>1 DEF WalletQuota, QuotaLoads
    <2>4. Pending({"quota"})' <=> Pending({"quota"})
      BY <1>3 DEF Pending, Busy
    <2>5. \A k \in Lanes : (Busy(k, {"redeem"}) <=> k = l)
      BY <2>1 DEF WalletQuota, RedeemsOnce
    <2>6. AnsweredWell(l)' <=> a = "ok"
      BY <1>4 DEF AnsweredWell
    <2>7. ~AnsweredWell(l)
      BY <1>1 DEF AnsweredWell
    <2>8. QuotaSum'
      <3>1. part = "quotas" /\ ~QuotaExcused /\ ~Pending({"quota"}) => card.quota = server.quota
        BY <2>5, <2>7 DEF WalletQuota, QuotaSum
      <3>2. part = "quotas" /\ ~QuotaExcused' /\ ~Pending({"quota"})' =>
              /\ a = "ok" => card'.quota + Worth = server'.quota
              /\ a # "ok" => card'.quota = server'.quota
        BY <1>1, <1>6, <2>2, <2>4, <3>1
      <3>3. \A k \in Lanes : Busy(k, {"redeem"})' <=> k = l
        BY <1>3, <2>5
      <3>. QED BY <2>6, <3>2, <3>3 DEF QuotaSum
    <2>. QED BY <1>5, <2>3, <2>8 DEF WalletQuota
  <1>10. CASE lane[l].op \notin {"transfer", "quota", "redeem"}
    <2>1. server'.quota = server.quota
      BY <1>2, <1>10 DEF ServeEffect
    <2>2. \A k \in Lanes : Busy(k, {"redeem"}) \/ Busy(k, {"quota"}) => k # l
      BY <1>10 DEF Busy
    <2>. QED BY <1>1, <1>3, <2>1, <2>2, QuotaKept
  <1>. QED BY <1>7, <1>8, <1>9, <1>10

LEMMA CallFailsQuota ==
    ASSUME WalletTypes, WalletQuota, part' = part, NEW l \in Lanes, CallFails(l)
    PROVE  WalletQuota'
  <1>1. QuotaExcused' /\ UNCHANGED card
    BY Failed DEF QuotaExcused
  <1>2. \A k \in Lanes : \A ops : Busy(k, ops)' <=> Busy(k, ops)
    BY ServeMoves
  <1>3. RedeemsOnce'
    BY <1>1, <1>2 DEF WalletQuota, RedeemsOnce
  <1>. QED BY <1>1, <1>3, QuotaForgiven

LEMMA QuotaShownQuota ==
    ASSUME WalletTypes, WalletTypes', WalletQuota, part' = part, NEW l \in Lanes, QuotaShown(l)
    PROVE  WalletQuota'
  <1>1. /\ lane[l].pc = "back" /\ lane[l].op = "quota" /\ UNCHANGED <<server, past>>
        /\ card' = IF IsOk(l) THEN [card EXCEPT !.quota = lane[l].data] ELSE card
        /\ lane' = [lane EXCEPT ![l] = FreeLane]
    BY DEF QuotaShown, Returned, Over
  <1>2. card'.redeeming = card.redeeming /\ (IsOk(l) => card'.quota = lane[l].data)
    BY <1>1 DEF WalletTypes, TopupCard
  <1>3. lane'[l].pc = "idle" /\ \A k \in Lanes \ {l} : lane'[k] = lane[k]
    BY <1>1, FreeLaneIdle DEF WalletTypes
  <1>4. Busy(l, {"quota"}) /\ ~Busy(l, {"redeem"})
    BY <1>1 DEF Busy
  <1>5. \A k \in Lanes : /\ Busy(k, {"redeem"})' <=> Busy(k, {"redeem"})
                         /\ Busy(k, {"quota"})' <=> Busy(k, {"quota"}) /\ k # l
    BY <1>3, <1>4 DEF Busy
  <1>6. RedeemsOnce'
    BY <1>2, <1>5 DEF WalletQuota, RedeemsOnce
  <1>7. QuotaExcused' <=> QuotaExcused
    BY <1>1 DEF QuotaExcused
  <1>8. part = "quotas" /\ ~QuotaExcused =>
            /\ IsOk(l) /\ lane[l].data = server.quota
            /\ \A k \in Lanes : ~Busy(k, {"redeem"}) /\ (Busy(k, {"quota"}) => k = l)
    BY <1>1, <1>4 DEF WalletQuota, QuotaLoads, IsOk
  <1>9. QuotaLoads'
    BY <1>5, <1>7, <1>8 DEF QuotaLoads
  <1>10. QuotaSum'
    BY <1>1, <1>2, <1>5, <1>7, <1>8 DEF QuotaSum
  <1>. QED BY <1>6, <1>9, <1>10 DEF WalletQuota

LEMMA RedeemedQuota ==
    ASSUME WalletTypes, WalletTypes', WalletQuota, part' = part, NEW l \in Lanes, Redeemed(l)
    PROVE  WalletQuota'
  <1>1. /\ lane[l].pc = "back" /\ lane[l].op = "redeem" /\ UNCHANGED <<server, past>>
        /\ lane' = [lane EXCEPT ![l] = FreeLane]
    BY DEF Redeemed, Returned, Over
  <1>2. Busy(l, {"redeem"}) /\ ~Busy(l, {"quota"}) /\ (IsOk(l) => lane[l].data = Worth)
    BY <1>1 DEF Busy, WalletTypes, IsOk
  <1>3. /\ card'.redeeming = FALSE
        /\ IsOk(l) => card'.quota = card.quota + Worth
        /\ ~IsOk(l) => card'.quota = card.quota
    BY <1>2 DEF Redeemed, WalletTypes, TopupCard
  <1>4. lane'[l].pc = "idle" /\ \A k \in Lanes \ {l} : lane'[k] = lane[k]
    BY <1>1, FreeLaneIdle DEF WalletTypes
  <1>5. \A k \in Lanes : Busy(k, {"redeem"}) <=> k = l
    BY <1>2 DEF WalletQuota, RedeemsOnce
  <1>6. \A k \in Lanes : /\ ~Busy(k, {"redeem"})'
                         /\ Busy(k, {"quota"})' <=> Busy(k, {"quota"})
                         /\ Busy(k, {"quota"}) => lane'[k] = lane[k]
    BY <1>2, <1>4, <1>5 DEF Busy
  <1>7. RedeemsOnce'
    BY <1>6 DEF RedeemsOnce
  <1>8. QuotaExcused' <=> QuotaExcused
    BY <1>1 DEF QuotaExcused
  <1>9. QuotaLoads'
    BY <1>1, <1>6, <1>8 DEF WalletQuota, QuotaLoads
  <1>10. Pending({"quota"})' <=> Pending({"quota"})
    BY <1>6 DEF Pending, Busy
  <1>11. AnsweredWell(l) <=> IsOk(l)
    BY <1>1 DEF AnsweredWell, IsOk
  <1>12. part = "quotas" /\ ~QuotaExcused /\ ~Pending({"quota"}) =>
            /\ IsOk(l) => card.quota + Worth = server.quota
            /\ ~IsOk(l) => card.quota = server.quota
    BY <1>5, <1>11 DEF WalletQuota, QuotaSum
  <1>13. QuotaSum'
    BY <1>1, <1>3, <1>6, <1>8, <1>10, <1>12 DEF QuotaSum
  <1>. QED BY <1>7, <1>9, <1>13 DEF WalletQuota

LEMMA WalletQuotaStep ==
    ASSUME WalletTypes, WalletTypes', WalletQuota, WalletStep
    PROVE  WalletQuota'
  <1>0. part' = part
    BY DEF WalletStep
  <1>a. card \in TopupCard
    BY DEF WalletTypes
  <1>1. CASE PayDialog
    <2>1. \A op \in {"quota", "redeem"} : op \notin {} /\ op \notin Priced \cup {"pay"}
      BY DEF Priced
    <2>. QED BY <1>0, <1>1, <2>1, PayDialogMoves, QuotaMoves
  <1>2. CASE TypeCode \/ OpenInvite \/ CloseInvite
    <2>1. card'.quota = card.quota /\ card'.redeeming = card.redeeming /\ server' = server
      BY <1>a, <1>2 DEF TypeCode, OpenInvite, CloseInvite, TopupCard
    <2>2. lane' = lane /\ past \subseteq past'
      BY <1>2, StillMoves
    <2>. QED BY <1>0, <2>1, <2>2, QuotaKept DEF Busy
  <1>3. CASE TopUp
    BY <1>0, <1>3, TopUpQuota
  <1>4. CASE TransferOrWithdraw
    <2>1. \A op \in {"quota", "redeem"} : op \notin {} /\ op \notin {"transfer", "withdraw"}
      OBVIOUS
    <2>. QED BY <1>0, <1>4, <2>1, TransferMoves, QuotaMoves
  <1>5. CASE ServerChanges
    <2>1. lane' = lane /\ card' = card /\ QuotaExcused'
      BY <1>5, StillMoves DEF ServerChanges, QuotaExcused
    <2>2. RedeemsOnce'
      BY <2>1 DEF WalletQuota, RedeemsOnce, Busy
    <2>. QED BY <2>1, <2>2, QuotaForgiven
  <1>6. ASSUME NEW l \in Lanes, OptionsShown(l) \/ AffShown(l) \/ PayAnswered(l) PROVE WalletQuota'
    <2>1. Move({"options", "aff", "pay"}, {}) /\ UNCHANGED <<server, past>>
      <3>1. Move({"options"}, {}) \/ Move({"aff"}, {}) \/ Move({"pay"}, {})
        BY <1>6, FreeMoves
      <3>. QED BY <1>6, <3>1, FreeMoves DEF Move
    <2>2. card'.quota = card.quota /\ card'.redeeming = card.redeeming
      BY <1>a, <1>6 DEF OptionsShown, AffShown, PayAnswered, TopupCard
    <2>3. \A op \in {"quota", "redeem"} : op \notin {} /\ op \notin {"options", "aff", "pay"}
      OBVIOUS
    <2>. QED BY <1>0, <2>1, <2>2, <2>3, QuotaMoves
  <1>7. ASSUME NEW l \in Lanes, AmountShown(l) PROVE WalletQuota'
    <2>1. \A op \in {"quota", "redeem"} : op \notin Priced /\ op \notin {"pay"}
      BY DEF Priced
    <2>. QED BY <1>0, <1>7, <2>1, AmountShownMoves, QuotaMoves
  <1>8. ASSUME NEW l \in Lanes, Transferred(l) PROVE WalletQuota'
    <2>1. \A op \in {"quota", "redeem"} : op \notin {"transfer", "withdraw"} /\ op \notin {"aff"}
      OBVIOUS
    <2>. QED BY <1>0, <1>8, <2>1, TransferredMoves, QuotaMoves
  <1>. QED BY <1>0, <1>1, <1>2, <1>3, <1>4, <1>5, <1>6, <1>7, <1>8, ServeQuota, CallFailsQuota, QuotaShownQuota,
              RedeemedQuota DEF WalletStep, PayDialog

\* The same of the invitation quota.
LEMMA AffMoves ==
    ASSUME WalletTypes, WalletAff, part' = part, NEW X, NEW Y, Move(X, Y),
           \A op \in {"aff", "transfer", "withdraw"} : op \notin X /\ op \notin Y,
           invite'.aff = invite.aff, server'.aff = server.aff, past \subseteq past'
    PROVE  WalletAff'
  <1>1. \A k \in Lanes : /\ Busy(k, {"aff"})' <=> Busy(k, {"aff"})
                         /\ Busy(k, {"aff"}) => lane'[k] = lane[k]
    BY MoveKeeps
  <1>2. \A k \in Lanes : /\ Busy(k, {"transfer", "withdraw"})' <=> Busy(k, {"transfer", "withdraw"})
                         /\ Busy(k, {"transfer", "withdraw"}) => lane'[k] = lane[k]
    BY MoveKeeps
  <1>3. \A k \in Lanes : Busy(k, {"transfer", "withdraw"})' /\ AnsweredWell(k)'
                            <=> Busy(k, {"transfer", "withdraw"}) /\ AnsweredWell(k)
    BY <1>2 DEF AnsweredWell
  <1>. QED BY <1>1, <1>3, AffKept

LEMMA AffForgiven ==
    ASSUME AffExcused'
    PROVE  WalletAff'
  BY DEF WalletAff

LEMMA TransferAff ==
    ASSUME WalletTypes, WalletAff, part' = part, TransferOrWithdraw
    PROVE  WalletAff'
  <1>1. invite.open \in {"transfer", "withdraw"} /\ Call(Ask(invite.open, "", 0)) /\ UNCHANGED <<card, invite, server, past>>
    BY DEF TransferOrWithdraw, WalletTypes
  <1>2. invite.open \in AskOps
    BY <1>1 DEF AskOps
  <1>. DEFINE r == Ask(invite.open, "", 0)
  <1>3. r.op = invite.open /\ r.pc = "sent"
    BY <1>2, AskBare
  <1>4. PICK l \in Lanes : lane[l].pc = "idle" /\ lane' = [lane EXCEPT ![l] = r]
    BY <1>1, Called
  <1>. HIDE DEF r
  <1>5. lane'[l] = r /\ \A k \in Lanes \ {l} : lane'[k] = lane[k]
    BY <1>4 DEF WalletTypes
  <1>6. \A k \in Lanes : /\ Busy(k, {"aff"})' <=> Busy(k, {"aff"})
                         /\ Busy(k, {"aff"}) => lane'[k] = lane[k]
                         /\ Busy(k, {"transfer", "withdraw"})' /\ AnsweredWell(k)'
                               <=> Busy(k, {"transfer", "withdraw"}) /\ AnsweredWell(k)
    BY <1>1, <1>3, <1>4, <1>5 DEF Busy, AnsweredWell
  <1>. QED BY <1>1, <1>6, AffKept

LEMMA ServeAff ==
    ASSUME WalletTypes, WalletAff, part' = part, NEW l \in Lanes, Serve(l)
    PROVE  WalletAff'
  <1>1. lane[l] \in Asked /\ lane[l].pc = "sent" /\ past \subseteq past' /\ UNCHANGED <<card, invite>>
    BY Served
  <1>2. PICK a \in {"ok", "refused"}, d \in Int : ServeEffect(l, a, d)
    BY Served
  <1>3. /\ \A k \in Lanes \ {l} : lane'[k] = lane[k]
        /\ lane'[l].op = lane[l].op
        /\ \A k \in Lanes : \A ops : Busy(k, ops)' <=> Busy(k, ops)
    BY ServeMoves
  <1>4. lane'[l].pc = "back" /\ lane'[l].answer = a /\ lane'[l].data = d
    BY <1>1, <1>2 DEF ServeEffect, WalletTypes, Asked
  <1>5. AffExcused => AffExcused'
    BY <1>1 DEF AffExcused
  <1>6. Pending({"aff"})' <=> Pending({"aff"})
    BY <1>3 DEF Pending, Busy
  <1>7. ~AnsweredWell(l)
    BY <1>1 DEF AnsweredWell
  <1>8. \A k \in Lanes \ {l} : AnsweredWell(k)' <=> AnsweredWell(k)
    BY <1>3 DEF AnsweredWell
  <1>9. CASE lane[l].op = "aff"
    <2>1. a = "ok" /\ d = server.aff /\ server' = server
      BY <1>2, <1>9 DEF ServeEffect
    <2>2. Busy(l, {"aff"}) /\ ~Busy(l, {"transfer", "withdraw"})
      BY <1>1, <1>9 DEF Busy
    <2>3. RefreshDue' <=> RefreshDue
      BY <1>3, <1>7, <1>8, <2>2 DEF RefreshDue
    <2>4. Pending({"aff"})
      BY <2>2 DEF Pending, Busy
    <2>. QED BY <1>3, <1>4, <1>5, <1>6, <2>1, <2>2, <2>3, <2>4 DEF WalletAff
  <1>10. CASE lane[l].op \in {"transfer", "withdraw"} /\ a = "ok"
    <2>1. Busy(l, {"transfer", "withdraw"}) /\ ~Busy(l, {"aff"})
      BY <1>1, <1>10 DEF Busy
    <2>2. RefreshDue'
      BY <1>3, <1>4, <1>10, <2>1 DEF RefreshDue, AnsweredWell
    <2>. QED BY <1>3, <1>5, <2>1, <2>2 DEF WalletAff
  <1>11. CASE lane[l].op # "aff" /\ (lane[l].op \in {"transfer", "withdraw"} => a # "ok")
    <2>1. server'.aff = server.aff
      BY <1>2, <1>11 DEF ServeEffect
    <2>2. \A k \in Lanes : Busy(k, {"aff"}) => k # l
      BY <1>11 DEF Busy
    <2>3. ~(Busy(l, {"transfer", "withdraw"})' /\ AnsweredWell(l)')
      BY <1>3, <1>4, <1>11 DEF Busy, AnsweredWell
    <2>. QED BY <1>1, <1>3, <1>7, <1>8, <2>1, <2>2, <2>3, AffKept
  <1>. QED BY <1>9, <1>10, <1>11

LEMMA AffShownAff ==
    ASSUME WalletTypes, WalletTypes', WalletAff, part' = part, NEW l \in Lanes, AffShown(l)
    PROVE  WalletAff'
  <1>1. /\ lane[l].pc = "back" /\ lane[l].op = "aff" /\ UNCHANGED <<server, past>>
        /\ invite' = IF IsOk(l) THEN [invite EXCEPT !.aff = lane[l].data] ELSE invite
        /\ lane' = [lane EXCEPT ![l] = FreeLane]
    BY DEF AffShown, Returned, Over
  <1>2. IsOk(l) => invite'.aff = lane[l].data
    BY <1>1 DEF WalletTypes
  <1>3. lane'[l].pc = "idle" /\ \A k \in Lanes \ {l} : lane'[k] = lane[k]
    BY <1>1, FreeLaneIdle DEF WalletTypes
  <1>4. Busy(l, {"aff"}) /\ ~Busy(l, {"transfer", "withdraw"})
    BY <1>1 DEF Busy
  <1>5. \A k \in Lanes : Busy(k, {"aff"})' <=> Busy(k, {"aff"}) /\ k # l
    BY <1>3, <1>4 DEF Busy
  <1>6. \A k \in Lanes : Busy(k, {"transfer", "withdraw"})' /\ AnsweredWell(k)'
                            <=> Busy(k, {"transfer", "withdraw"}) /\ AnsweredWell(k)
    BY <1>3, <1>4 DEF Busy, AnsweredWell
  <1>7. RefreshDue' <=> RefreshDue
    BY <1>6 DEF RefreshDue
  <1>8. AffExcused' <=> AffExcused
    BY <1>1 DEF AffExcused
  <1>9. part = "quotas" /\ ~AffExcused =>
            /\ IsOk(l) /\ (~RefreshDue => lane[l].data = server.aff)
            /\ \A k \in Lanes : Busy(k, {"aff"}) => k = l
    BY <1>1, <1>4 DEF WalletAff, IsOk
  <1>. QED BY <1>1, <1>2, <1>5, <1>7, <1>8, <1>9 DEF WalletAff

LEMMA TransferredAff ==
    ASSUME WalletTypes, WalletAff, part' = part, NEW l \in Lanes, Transferred(l)
    PROVE  WalletAff'
  <1>1. /\ UNCHANGED <<card, server>> /\ past \subseteq past'
        /\ lane' = [lane EXCEPT ![l] = IF IsOk(l) THEN Ask("aff", "", 0) ELSE FreeLane]
        /\ invite'.aff = invite.aff
        /\ lane[l].pc = "back" /\ lane[l].op \in {"transfer", "withdraw"}
    BY TransferredMoves
  <1>2. AffExcused => AffExcused'
    BY <1>1 DEF AffExcused
  <1>3. Busy(l, {"transfer", "withdraw"}) /\ ~Busy(l, {"aff"})
    BY <1>1 DEF Busy
  <1>4. CASE IsOk(l)
    <2>1. lane'[l] = Ask("aff", "", 0) /\ \A k \in Lanes \ {l} : lane'[k] = lane[k]
      BY <1>1, <1>4 DEF WalletTypes
    <2>2. "aff" \in AskOps
      BY DEF AskOps
    <2>3. lane'[l].pc = "sent" /\ lane'[l].op = "aff" /\ lane'[l].answer = "ok"
      BY <2>1, <2>2, AskBare
    <2>4. \A k \in Lanes : Busy(k, {"aff"})' <=> Busy(k, {"aff"}) \/ k = l
      BY <1>3, <2>1, <2>3 DEF Busy
    <2>5. CASE Pending({"aff"})
      <3>1. past' = past \cup {e \in {"affReordered"} : IsOk(l) /\ Pending({"aff"})}
        BY DEF Transferred
      <3>2. AffExcused'
        BY <1>4, <2>5, <3>1 DEF AffExcused
      <3>. QED BY <3>2, AffForgiven
    <2>6. CASE ~Pending({"aff"})
      <3>1. \A k \in Lanes : Busy(k, {"aff"})' <=> k = l
        BY <2>4, <2>6, PendingIsBusy
      <3>2. Pending({"aff"})'
        BY <2>3 DEF Pending
      <3>. QED BY <2>3, <3>1, <3>2 DEF WalletAff
    <2>. QED BY <2>5, <2>6
  <1>5. CASE ~IsOk(l)
    <2>1. lane'[l].pc = "idle" /\ \A k \in Lanes \ {l} : lane'[k] = lane[k]
      BY <1>1, <1>5, FreeLaneIdle DEF WalletTypes
    <2>2. \A k \in Lanes : /\ Busy(k, {"aff"})' <=> Busy(k, {"aff"})
                           /\ Busy(k, {"aff"}) => lane'[k] = lane[k]
      BY <1>3, <2>1 DEF Busy
    <2>3. \A k \in Lanes : Busy(k, {"transfer", "withdraw"})' /\ AnsweredWell(k)'
                              <=> Busy(k, {"transfer", "withdraw"}) /\ AnsweredWell(k)
      BY <1>5, <2>1 DEF Busy, AnsweredWell, IsOk
    <2>4. server'.aff = server.aff
      BY <1>1
    <2>. QED BY <1>1, <2>2, <2>3, <2>4, AffKept
  <1>. QED BY <1>4, <1>5

LEMMA WalletAffStep ==
    ASSUME WalletTypes, WalletTypes', WalletAff, WalletStep
    PROVE  WalletAff'
  <1>0. part' = part
    BY DEF WalletStep
  <1>1. CASE PayDialog
    <2>1. \A op \in {"aff", "transfer", "withdraw"} : op \notin {} /\ op \notin Priced \cup {"pay"}
      BY DEF Priced
    <2>. QED BY <1>0, <1>1, <2>1, PayDialogMoves, AffMoves
  <1>2. CASE TypeCode \/ OpenInvite \/ CloseInvite
    <2>1. invite'.aff = invite.aff /\ server' = server
      BY <1>2 DEF TypeCode, OpenInvite, CloseInvite, WalletTypes
    <2>2. lane' = lane /\ past \subseteq past'
      BY <1>2, StillMoves
    <2>3. \A k \in Lanes : /\ Busy(k, {"aff"})' <=> Busy(k, {"aff"})
                           /\ Busy(k, {"aff"}) => lane'[k] = lane[k]
                           /\ Busy(k, {"transfer", "withdraw"})' /\ AnsweredWell(k)'
                                 <=> Busy(k, {"transfer", "withdraw"}) /\ AnsweredWell(k)
      BY <2>2 DEF Busy, AnsweredWell
    <2>. QED BY <1>0, <2>1, <2>2, <2>3, AffKept
  <1>3. CASE TopUp
    <2>1. PICK l \in Lanes, r \in Asked : /\ lane[l].pc = "idle" /\ lane' = [lane EXCEPT ![l] = r]
                                          /\ r.pc = "sent" /\ r.op = "redeem"
      BY <1>3, TopUpMoves
    <2>2. Move({}, {"redeem"})
      BY <2>1 DEF Move
    <2>3. \A op \in {"aff", "transfer", "withdraw"} : op \notin {} /\ op \notin {"redeem"}
      OBVIOUS
    <2>4. UNCHANGED <<invite, server>> /\ past \subseteq past'
      BY <1>3, TopUpMoves
    <2>. QED BY <1>0, <2>2, <2>3, <2>4, AffMoves
  <1>4. CASE ServerChanges
    <2>1. AffExcused'
      BY <1>4 DEF ServerChanges, AffExcused
    <2>. QED BY <2>1, AffForgiven
  <1>5. ASSUME NEW l \in Lanes, CallFails(l) PROVE WalletAff'
    <2>1. AffExcused'
      BY <1>5, Failed DEF AffExcused
    <2>. QED BY <2>1, AffForgiven
  <1>6. ASSUME NEW l \in Lanes, QuotaShown(l) \/ OptionsShown(l) \/ PayAnswered(l) \/ Redeemed(l) PROVE WalletAff'
    <2>1. Move({"options", "quota", "pay", "redeem"}, {}) /\ UNCHANGED <<server, past>>
      <3>1. Move({"options"}, {}) \/ Move({"quota"}, {}) \/ Move({"pay"}, {}) \/ Move({"redeem"}, {})
        BY <1>6, FreeMoves
      <3>. QED BY <1>6, <3>1, FreeMoves DEF Move
    <2>2. invite'.aff = invite.aff
      BY <1>6 DEF QuotaShown, OptionsShown, PayAnswered, Redeemed
    <2>3. \A op \in {"aff", "transfer", "withdraw"} : op \notin {} /\ op \notin {"options", "quota", "pay", "redeem"}
      OBVIOUS
    <2>. QED BY <1>0, <2>1, <2>2, <2>3, AffMoves
  <1>7. ASSUME NEW l \in Lanes, AmountShown(l) PROVE WalletAff'
    <2>1. \A op \in {"aff", "transfer", "withdraw"} : op \notin Priced /\ op \notin {"pay"}
      BY DEF Priced
    <2>. QED BY <1>0, <1>7, <2>1, AmountShownMoves, AffMoves
  <1>. QED BY <1>0, <1>1, <1>2, <1>3, <1>4, <1>5, <1>6, <1>7, TransferAff, ServeAff, AffShownAff,
              TransferredAff DEF WalletStep, PayDialog

LEMMA WalletShowsRows ==
    ASSUME WalletQuota, WalletAff
    PROVE  QuotaIsRows /\ AffIsRows
  <1>1. Resting => \A l \in Lanes : \A ops : ~Busy(l, ops)
    BY DEF Resting, Busy
  <1>2. Resting => ~Pending({"quota"}) /\ ~Pending({"aff"}) /\ ~RefreshDue
    BY <1>1, PendingIsBusy DEF RefreshDue
  <1>3. QuotaIsRows
    BY <1>1, <1>2 DEF QuotaIsRows, WalletQuota, QuotaSum, QuotaExcused
  <1>4. AffIsRows
    BY <1>2 DEF AffIsRows, WalletAff, AffExcused
  <1>. QED BY <1>3, <1>4
-----------------------------------------------------------------------------
(* The wallet: the price                                                   *)

PriceExcused == past \cap {"reordered", "refused", "broken", "lost"} # {}

\* One price is asked for at a time, and its answer is one.
OnePriced ==
    /\ \A l, k \in Lanes : Busy(l, Priced) /\ Busy(k, Priced) => l = k
    /\ \A l \in Lanes : Busy(l, Priced) => lane[l].answer = "ok"
\* What is chosen in the dialog is what is asked for, or what the amount is the price of.
PriceCurrent ==
    card.open /\ IsPlain(card.count) =>
        \/ \E l \in Lanes : Busy(l, Priced) /\ lane[l].typed = card.count /\ lane[l].days = card.days
        \/ ~Pending(Priced) /\ IsPriceOf(card.amount, card.count, card.days)
\* What is paid for, and what is about to be.
FairlyPaid(p) == IsPriceOf(p.shown, p.typed, p.days) \/ p.hasty \/ ~IsPlain(p.typed)
PaysFairly ==
    /\ \A l \in Lanes : Busy(l, {"pay"}) => FairlyPaid(lane[l])
    /\ \A p \in paid : FairlyPaid(p)
WalletPrices == PriceExcused \/ (OnePriced /\ PriceCurrent /\ PaysFairly)

LEMMA WalletPricesInit ==
    ASSUME WalletInit
    PROVE  WalletPrices
  <1>. DEFINE first(l) == CASE part = "pay" /\ l = 1 -> Ask("options", "", 0)
                            [] part = "quotas" /\ l = 1 -> Ask("quota", "", 0)
                            [] part = "quotas" /\ l = 2 -> Ask("aff", "", 0)
                            [] OTHER -> FreeLane
  <1>1. lane = [l \in Lanes |-> first(l)] /\ card.open = FALSE /\ paid = {}
    BY DEF WalletInit
  <1>2. /\ Ask("options", "", 0).op = "options"
        /\ Ask("quota", "", 0).op = "quota"
        /\ Ask("aff", "", 0).op = "aff"
    BY DEF Ask
  <1>3. \A l \in Lanes : lane[l].pc = "idle" \/ lane[l].op \in {"options", "quota", "aff"}
    BY <1>1, <1>2, FreeLaneIdle
  <1>4. \A l \in Lanes : ~Busy(l, Priced) /\ ~Busy(l, {"pay"})
    BY <1>3 DEF Busy, Priced
  <1>. QED BY <1>1, <1>4 DEF WalletPrices, OnePriced, PriceCurrent, PaysFairly

LEMMA PriceStaysExcused ==
    ASSUME past \subseteq past', PriceExcused
    PROVE  WalletPrices'
  BY DEF WalletPrices, PriceExcused

\* Steps of which the price takes no notice.
LEMMA PricesKept ==
    ASSUME WalletPrices, past \subseteq past', paid' = paid,
           card'.open => card.open, card'.count = card.count, card'.days = card.days, card'.amount = card.amount,
           \A k \in Lanes : /\ Busy(k, Priced)' <=> Busy(k, Priced)
                            /\ Busy(k, Priced) => lane'[k] = lane[k]
                            /\ Busy(k, {"pay"})' => Busy(k, {"pay"}) /\ lane'[k] = lane[k]
    PROVE  WalletPrices'
  <1>1. CASE PriceExcused
    BY <1>1, PriceStaysExcused
  <1>2. CASE OnePriced /\ PriceCurrent /\ PaysFairly
    <2>1. OnePriced'
      BY <1>2 DEF OnePriced
    <2>2. Pending(Priced)' <=> Pending(Priced)
      BY DEF Pending, Busy
    <2>3. PriceCurrent'
      BY <1>2, <2>2 DEF PriceCurrent
    <2>4. PaysFairly'
      BY <1>2 DEF PaysFairly
    <2>. QED BY <2>1, <2>3, <2>4 DEF WalletPrices
  <1>. QED BY <1>1, <1>2 DEF WalletPrices

LEMMA PricesMove ==
    ASSUME WalletTypes, WalletPrices, NEW X, NEW Y, Move(X, Y),
           \A op \in Priced \cup {"pay"} : op \notin X /\ op \notin Y,
           card'.open => card.open, card'.count = card.count, card'.days = card.days, card'.amount = card.amount,
           paid' = paid, past \subseteq past'
    PROVE  WalletPrices'
  <1>1. \A k \in Lanes : /\ Busy(k, Priced)' <=> Busy(k, Priced)
                         /\ Busy(k, Priced) => lane'[k] = lane[k]
    BY MoveKeeps
  <1>2. \A k \in Lanes : /\ Busy(k, {"pay"})' <=> Busy(k, {"pay"})
                         /\ Busy(k, {"pay"}) => lane'[k] = lane[k]
    BY MoveKeeps
  <1>. QED BY <1>1, <1>2, PricesKept

\* A request for the price of what is chosen.
LEMMA AskedPrices ==
    ASSUME WalletTypes, WalletPrices, NEW op \in Priced, NEW t \in TypedCounts, NEW d \in TypedDays,
           AskAmount(op, t, d), card'.count = t, card'.days = d, paid' = paid
    PROVE  WalletPrices'
  <1>0. past \subseteq past'
    BY AmountMoves
  <1>1. CASE PriceExcused
    BY <1>0, <1>1, PriceStaysExcused
  <1>2. CASE /\ OnePriced /\ PriceCurrent /\ PaysFairly
             /\ ~IsPlain(t) /\ lane' = lane
    BY <1>2 DEF WalletPrices, OnePriced, PriceCurrent, PaysFairly, Busy
  <1>3. ASSUME OnePriced, PaysFairly, IsPlain(t),
               NEW l \in Lanes, lane[l].pc = "idle", lane'[l] = Ask(op, t, d),
               \A k \in Lanes \ {l} : lane'[k] = lane[k]
        PROVE  WalletPrices'
    <2>1. CASE Pending(Priced)
      <3>1. "reordered" \in past'
        BY <1>3, <2>1 DEF AskAmount
      <3>. QED BY <3>1 DEF WalletPrices, PriceExcused
    <2>2. CASE ~Pending(Priced)
      <3>0. op \in AskOps
        BY DEF AskOps, Priced
      <3>1. /\ lane'[l].pc = "sent" /\ lane'[l].op = op /\ lane'[l].answer = "ok"
            /\ lane'[l].typed = t /\ lane'[l].days = d
        BY <1>3, <3>0, AskType
      <3>2. \A k \in Lanes : Busy(k, Priced)' <=> k = l
        BY <1>3, <2>2, <3>1 DEF Busy, Pending
      <3>3. "pay" \notin Priced
        BY DEF Priced
      <3>4. \A k \in Lanes : Busy(k, {"pay"})' => Busy(k, {"pay"}) /\ lane'[k] = lane[k]
        BY <1>3, <3>1, <3>3 DEF Busy
      <3>5. OnePriced'
        BY <3>1, <3>2 DEF OnePriced
      <3>6. PriceCurrent'
        BY <3>1, <3>2 DEF PriceCurrent
      <3>7. PaysFairly'
        BY <1>3, <3>4 DEF PaysFairly
      <3>. QED BY <3>5, <3>6, <3>7 DEF WalletPrices
    <2>. QED BY <2>1, <2>2
  <1>. QED BY <1>1, <1>2, <1>3, AmountAsked DEF WalletPrices

\* A payment that is confirmed.
LEMMA PayPrices ==
    ASSUME WalletTypes, WalletPrices, UNCHANGED <<past, paid>>, card.open,
           ~(Unseen /\ IsPlain(card.count)), card' = [card EXCEPT !.open = FALSE],
           Call(Pay(card.count, card.days, card.amount, Pending(Priced) \/ Unseen))
    PROVE  WalletPrices'
  <1>0. card \in TopupCard /\ card.count \in TypedCounts /\ card.days \in TypedDays /\ card.amount \in Price
    BY CardFields DEF WalletTypes
  <1>1. CASE PriceExcused
    BY <1>1, PriceStaysExcused
  <1>2. CASE OnePriced /\ PriceCurrent /\ PaysFairly
    <2>. DEFINE h == Pending(Priced) \/ Unseen
                r == Pay(card.count, card.days, card.amount, h)
    <2>1. h \in BOOLEAN
      BY DEF Pending, Unseen
    <2>2. PICK l \in Lanes : lane[l].pc = "idle" /\ lane' = [lane EXCEPT ![l] = r]
      BY Called
    <2>3. ~h /\ IsPlain(card.count) => IsPriceOf(card.amount, card.count, card.days)
      BY <1>2, PendingIsBusy DEF PriceCurrent
    <2>. HIDE DEF h
    <2>4. /\ r.pc = "sent" /\ r.op = "pay" /\ r.typed = card.count /\ r.days = card.days
          /\ r.shown = card.amount /\ r.hasty = h
      BY <1>0, <2>1, PayType
    <2>. HIDE DEF r
    <2>5. FairlyPaid(r)
      BY <2>1, <2>3, <2>4 DEF FairlyPaid
    <2>6. lane'[l] = r /\ \A k \in Lanes \ {l} : lane'[k] = lane[k]
      BY <2>2 DEF WalletTypes
    <2>7. \A k \in Lanes : Busy(k, {"pay"})' => FairlyPaid(lane'[k])
      BY <1>2, <2>5, <2>6 DEF PaysFairly, Busy
    <2>8. "pay" \notin Priced
      BY DEF Priced
    <2>9. \A k \in Lanes : Busy(k, Priced)' => Busy(k, Priced) /\ lane'[k] = lane[k]
      BY <2>4, <2>6, <2>8 DEF Busy
    <2>10. OnePriced'
      BY <1>2, <2>9 DEF OnePriced
    <2>11. ~card'.open
      BY <1>0 DEF TopupCard
    <2>12. PriceCurrent'
      BY <2>11 DEF PriceCurrent
    <2>13. PaysFairly'
      BY <1>2, <2>7 DEF PaysFairly
    <2>. QED BY <2>10, <2>12, <2>13 DEF WalletPrices
  <1>. QED BY <1>1, <1>2 DEF WalletPrices

LEMMA ServePrices ==
    ASSUME WalletTypes, WalletPrices, NEW l \in Lanes, Serve(l)
    PROVE  WalletPrices'
  <1>1. lane[l] \in Asked /\ lane[l].pc = "sent" /\ past \subseteq past' /\ UNCHANGED <<card, invite>>
    BY Served
  <1>2. PICK a \in {"ok", "refused"}, d \in Int : ServeEffect(l, a, d)
    BY Served
  <1>3. /\ \A k \in Lanes \ {l} : lane'[k] = lane[k]
        /\ lane'[l].op = lane[l].op /\ lane'[l].typed = lane[l].typed /\ lane'[l].days = lane[l].days
        /\ lane'[l].shown = lane[l].shown /\ lane'[l].hasty = lane[l].hasty
        /\ \A k \in Lanes : \A ops : Busy(k, ops)' <=> Busy(k, ops)
    BY ServeMoves
  <1>4. lane'[l].answer = a
    BY <1>1, <1>2 DEF ServeEffect, WalletTypes, Asked
  <1>5. CASE PriceExcused
    BY <1>1, <1>5, PriceStaysExcused
  <1>6. CASE lane[l].op \in Priced /\ a # "ok"
    BY <1>2, <1>6 DEF ServeEffect, WalletPrices, PriceExcused
  <1>7. CASE OnePriced /\ PriceCurrent /\ PaysFairly /\ (lane[l].op \in Priced => a = "ok")
    <2>1. \A k \in Lanes : lane'[k].typed = lane[k].typed /\ lane'[k].days = lane[k].days
                           /\ lane'[k].shown = lane[k].shown /\ lane'[k].hasty = lane[k].hasty
      BY <1>3
    <2>2. OnePriced'
      BY <1>3, <1>4, <1>7 DEF OnePriced, Busy
    <2>3. Pending(Priced)' <=> Pending(Priced)
      BY <1>3 DEF Pending, Busy
    <2>4. PriceCurrent'
      BY <1>1, <1>3, <1>7, <2>1, <2>3 DEF PriceCurrent
    <2>5. \A k \in Lanes : Busy(k, {"pay"})' => FairlyPaid(lane'[k])
      BY <1>3, <1>7, <2>1 DEF PaysFairly, FairlyPaid
    <2>6. \A p \in paid' : FairlyPaid(p)
      <3>1. CASE paid' = paid
        BY <1>7, <3>1 DEF PaysFairly
      <3>2. CASE /\ lane[l].op = "pay"
                 /\ paid' = paid \cup {[typed |-> lane[l].typed, days |-> lane[l].days,
                                        shown |-> lane[l].shown, hasty |-> lane[l].hasty]}
        <4>1. FairlyPaid(lane[l])
          BY <1>1, <1>7, <3>2 DEF PaysFairly, Busy
        <4>. DEFINE p == [typed |-> lane[l].typed, days |-> lane[l].days,
                          shown |-> lane[l].shown, hasty |-> lane[l].hasty]
        <4>2. /\ p.typed = lane[l].typed /\ p.days = lane[l].days
              /\ p.shown = lane[l].shown /\ p.hasty = lane[l].hasty
          OBVIOUS
        <4>3. paid' = paid \cup {p}
          BY <3>2
        <4>. HIDE DEF p
        <4>4. FairlyPaid(p)
          BY <4>1, <4>2 DEF FairlyPaid
        <4>. QED BY <1>7, <4>3, <4>4 DEF PaysFairly
      <3>. QED BY <1>2, <3>1, <3>2 DEF ServeEffect
    <2>7. PaysFairly'
      BY <2>5, <2>6 DEF PaysFairly
    <2>. QED BY <2>2, <2>4, <2>7 DEF WalletPrices
  <1>. QED BY <1>5, <1>6, <1>7 DEF WalletPrices

LEMMA AmountShownPrices ==
    ASSUME WalletTypes, WalletPrices, NEW l \in Lanes, AmountShown(l)
    PROVE  WalletPrices'
  <1>1. lane[l] \in Asked /\ lane[l].op \in Priced /\ lane[l].pc = "back" /\ card \in TopupCard
        /\ UNCHANGED <<past, paid>>
    BY AskedIsBusy DEF AmountShown, Returned, WalletTypes
  <1>2. CASE PriceExcused
    BY <1>1, <1>2, PriceStaysExcused
  <1>3. CASE OnePriced /\ PriceCurrent /\ PaysFairly
    <2>1. Busy(l, Priced) /\ IsOk(l)
      BY <1>1, <1>3 DEF Busy, OnePriced, IsOk
    <2>2. \A k \in Lanes : Busy(k, Priced) => k = l
      BY <1>3, <2>1 DEF OnePriced
    <2>. DEFINE r == IF lane[l].op = "amount" THEN FreeLane ELSE Pay(lane[l].typed, lane[l].days, Unpriced, TRUE)
                a == [count |-> NumberIn(lane[l].typed), days |-> lane[l].days]
    <2>3. lane' = [lane EXCEPT ![l] = r]
      BY DEF AmountShown
    <2>4. card'.count = card.count /\ card'.days = card.days /\ card'.amount = a
          /\ card'.open = (card.open /\ lane[l].op = "amount")
      BY <1>1, <2>1 DEF AmountShown, TopupCard
    <2>5. r.pc = "idle" \/ (r.op = "pay" /\ r.hasty = TRUE)
      <3>1. CASE lane[l].op = "amount"
        BY <3>1, FreeLaneIdle
      <3>2. CASE lane[l].op # "amount"
        BY <3>2 DEF Pay, Ask
      <3>. QED BY <3>1, <3>2
    <2>6. a.count = NumberIn(lane[l].typed) /\ a.days = lane[l].days
      OBVIOUS
    <2>. HIDE DEF r, a
    <2>7. lane'[l] = r /\ \A k \in Lanes \ {l} : lane'[k] = lane[k]
      BY <2>3 DEF WalletTypes
    <2>8. "pay" \notin Priced
      BY DEF Priced
    <2>9. \A k \in Lanes : ~Busy(k, Priced)'
      BY <2>2, <2>5, <2>7, <2>8 DEF Busy
    <2>10. OnePriced'
      BY <2>9 DEF OnePriced
    <2>11. card.open /\ IsPlain(card.count) => lane[l].typed = card.count /\ lane[l].days = card.days
      BY <1>3, <2>1, <2>2, PendingIsBusy DEF PriceCurrent
    <2>12. ~Pending(Priced)'
      BY <2>9 DEF Pending, Busy
    <2>13. PriceCurrent'
      BY <1>1, <2>4, <2>6, <2>11, <2>12 DEF PriceCurrent, IsPriceOf, TopupCard
    <2>14. PaysFairly'
      BY <1>1, <1>3, <2>5, <2>7 DEF PaysFairly, FairlyPaid, Busy
    <2>. QED BY <2>10, <2>13, <2>14 DEF WalletPrices
  <1>. QED BY <1>2, <1>3 DEF WalletPrices

LEMMA PayDialogPrices ==
    ASSUME WalletTypes, WalletPrices, PayDialog
    PROVE  WalletPrices'
  <1>0. card \in TopupCard /\ card.count \in TypedCounts /\ card.days \in TypedDays /\ card.amount \in Price
    BY CardFields DEF WalletTypes
  <1>a. "amount" \in Priced /\ "amountThenPay" \in Priced
    BY DEF Priced
  <1>1. CASE TypeCount
    <2>1. PICK t \in Counts : card' = [card EXCEPT !.count = t] /\ AskAmount("amount", t, card.days)
      BY <1>1 DEF TypeCount
    <2>2. t \in TypedCounts
      BY TypedPlaces
    <2>3. card'.count = t /\ card'.days = card.days /\ paid' = paid
      BY <1>0, <1>1, <2>1 DEF TopupCard, TypeCount
    <2>. QED BY <1>0, <1>a, <2>1, <2>2, <2>3, AskedPrices
  <1>2. CASE PreTopUp
    <2>1. card' = [card EXCEPT !.open = TRUE, !.days = FirstDays] /\ AskAmount("amount", card.count, FirstDays)
      BY <1>2 DEF PreTopUp
    <2>2. card'.count = card.count /\ card'.days = FirstDays /\ paid' = paid
      BY <1>0, <1>2, <2>1 DEF TopupCard, PreTopUp
    <2>. QED BY <1>0, <1>a, <2>1, <2>2, TypedPlaces, AskedPrices
  <1>3. CASE PickDays
    <2>1. PICK d \in Days : card' = [card EXCEPT !.days = d] /\ AskAmount("amount", card.count, d)
      BY <1>3 DEF PickDays
    <2>2. d \in TypedDays
      BY TypedPlaces
    <2>3. card'.count = card.count /\ card'.days = d /\ paid' = paid
      BY <1>0, <1>3, <2>1 DEF TopupCard, PickDays
    <2>. QED BY <1>0, <1>a, <2>1, <2>2, <2>3, AskedPrices
  <1>4. CASE CloseDialog
    <2>1. /\ ~card'.open /\ card'.count = card.count /\ card'.days = card.days /\ card'.amount = card.amount
          /\ lane' = lane /\ past' = past /\ paid' = paid
      BY <1>0, <1>4 DEF CloseDialog, NoCall, TopupCard
    <2>. QED BY <2>1, PricesKept DEF Busy
  <1>5. CASE OnlineTopUp
    <2>1. CASE AskAmount("amountThenPay", card.count, card.days) /\ UNCHANGED card
      <3>1. paid' = paid
        BY <1>5 DEF OnlineTopUp
      <3>. QED BY <1>0, <1>a, <2>1, <3>1, AskedPrices
    <2>2. CASE ~(Unseen /\ IsPlain(card.count))
      <3>1. /\ card' = [card EXCEPT !.open = FALSE] /\ UNCHANGED <<past, paid>> /\ card.open
            /\ Call(Pay(card.count, card.days, card.amount, Pending(Priced) \/ Unseen))
        BY <1>5, <2>2 DEF OnlineTopUp
      <3>. QED BY <2>2, <3>1, PayPrices
    <2>. QED BY <1>5, <2>1, <2>2 DEF OnlineTopUp
  <1>. QED BY <1>1, <1>2, <1>3, <1>4, <1>5 DEF PayDialog

LEMMA WalletPricesStep ==
    ASSUME WalletTypes, WalletPrices, WalletStep
    PROVE  WalletPrices'
  <1>a. card \in TopupCard
    BY DEF WalletTypes
  <1>1. CASE TypeCode \/ OpenInvite \/ CloseInvite \/ ServerChanges
    <2>1. /\ card'.open = card.open /\ card'.count = card.count /\ card'.days = card.days
          /\ card'.amount = card.amount /\ paid' = paid
      BY <1>a, <1>1 DEF TypeCode, OpenInvite, CloseInvite, ServerChanges, TopupCard
    <2>2. lane' = lane /\ past \subseteq past'
      BY <1>1, StillMoves
    <2>. QED BY <2>1, <2>2, PricesKept DEF Busy
  <1>2. CASE TopUp
    <2>1. PICK l \in Lanes, r \in Asked : /\ lane[l].pc = "idle" /\ lane' = [lane EXCEPT ![l] = r]
                                          /\ r.pc = "sent" /\ r.op = "redeem"
      BY <1>2, TopUpMoves
    <2>2. Move({}, {"redeem"})
      BY <2>1 DEF Move
    <2>3. \A op \in Priced \cup {"pay"} : op \notin {} /\ op \notin {"redeem"}
      BY DEF Priced
    <2>4. /\ card'.open = card.open /\ card'.count = card.count /\ card'.days = card.days
          /\ card'.amount = card.amount /\ paid' = paid /\ past \subseteq past'
      BY <1>a, <1>2 DEF TopUp, TopupCard
    <2>. QED BY <2>2, <2>3, <2>4, PricesMove
  <1>3. CASE TransferOrWithdraw
    <2>1. \A op \in Priced \cup {"pay"} : op \notin {} /\ op \notin {"transfer", "withdraw"}
      BY DEF Priced
    <2>2. UNCHANGED <<card, paid, past>>
      BY <1>3 DEF TransferOrWithdraw
    <2>3. Move({}, {"transfer", "withdraw"})
      BY <1>3, TransferMoves
    <2>. QED BY <2>1, <2>2, <2>3, PricesMove
  <1>4. ASSUME NEW l \in Lanes, CallFails(l) PROVE WalletPrices'
    <2>1. PriceExcused'
      BY <1>4, Failed DEF PriceExcused
    <2>. QED BY <2>1 DEF WalletPrices
  <1>5. ASSUME NEW l \in Lanes, QuotaShown(l) \/ OptionsShown(l) \/ AffShown(l) \/ Redeemed(l) PROVE WalletPrices'
    <2>1. Move({"options", "quota", "aff", "redeem"}, {}) /\ UNCHANGED past
      <3>1. Move({"options"}, {}) \/ Move({"quota"}, {}) \/ Move({"aff"}, {}) \/ Move({"redeem"}, {})
        BY <1>5, FreeMoves
      <3>. QED BY <1>5, <3>1, FreeMoves DEF Move
    <2>2. /\ card'.open = card.open /\ card'.count = card.count /\ card'.days = card.days
          /\ card'.amount = card.amount /\ paid' = paid
      BY <1>a, <1>5 DEF QuotaShown, OptionsShown, AffShown, Redeemed, TopupCard
    <2>3. \A op \in Priced \cup {"pay"} : op \notin {} /\ op \notin {"options", "quota", "aff", "redeem"}
      BY DEF Priced
    <2>. QED BY <2>1, <2>2, <2>3, PricesMove
  <1>6. ASSUME NEW l \in Lanes, PayAnswered(l) PROVE WalletPrices'
    <2>1. /\ lane[l].pc = "back" /\ lane[l].op = "pay" /\ lane' = [lane EXCEPT ![l] = FreeLane]
          /\ UNCHANGED <<card, past, paid>>
      BY <1>6 DEF PayAnswered, Returned, Over
    <2>2. lane'[l].pc = "idle" /\ \A k \in Lanes \ {l} : lane'[k] = lane[k]
      BY <2>1, FreeLaneIdle DEF WalletTypes
    <2>3. "pay" \notin Priced
      BY DEF Priced
    <2>4. \A k \in Lanes : /\ Busy(k, Priced)' <=> Busy(k, Priced)
                           /\ Busy(k, Priced) => lane'[k] = lane[k]
                           /\ Busy(k, {"pay"})' => Busy(k, {"pay"}) /\ lane'[k] = lane[k]
      BY <2>1, <2>2, <2>3 DEF Busy
    <2>. QED BY <2>1, <2>4, PricesKept
  <1>7. ASSUME NEW l \in Lanes, Transferred(l) PROVE WalletPrices'
    <2>1. \A op \in Priced \cup {"pay"} : op \notin {"transfer", "withdraw"} /\ op \notin {"aff"}
      BY DEF Priced
    <2>2. paid' = paid
      BY <1>7 DEF Transferred
    <2>. QED BY <1>7, <2>1, <2>2, TransferredMoves, PricesMove
  <1>. QED BY <1>1, <1>2, <1>3, <1>4, <1>5, <1>6, <1>7, PayDialogPrices, ServePrices, AmountShownPrices
           DEF WalletStep, PayDialog

LEMMA WalletPaysAsShown ==
    ASSUME WalletPrices
    PROVE  AmountTrue /\ PaidAsShown
  BY PendingIsBusy DEF WalletPrices, PriceExcused, PriceCurrent, PaysFairly, FairlyPaid, AmountTrue, PaidAsShown
-----------------------------------------------------------------------------
(* The session: types                                                      *)

Persons == {0} \cup Users
Excuses == {"elsewhere", "late", "expired", "crossed", "forgot"}
WireOps == Turns \cup {"self", "other"}
Wired == [pc : {"sent", "back"}, tab : Windows, op : WireOps, user : Persons,
          answer : {"ok", "401", "broken"}, alive : BOOLEAN]

\* Types of the session, with its requests.
SessionTypes ==
    /\ store \in [Windows -> Persons] /\ storage \in Persons /\ cookie \in Persons
    /\ at \in [Windows -> {"login", "inside"}]
    /\ wire \in [Wires -> Wired \cup {NoWire}]
    /\ excuse \in [Windows -> SUBSET Excuses]

LEMMA NoWireIdle == NoWire.pc = "idle"
  BY DEF NoWire

LEMMA WiredIsBusy ==
    ASSUME SessionTypes, NEW w \in Wires, wire[w].pc # "idle"
    PROVE  wire[w] \in Wired
  <1>1. wire[w] \in Wired \cup {NoWire}
    BY DEF SessionTypes
  <1>. QED BY <1>1, NoWireIdle

LEMMA TurnsAreOps == Turns \subseteq WireOps /\ "self" \in WireOps /\ "other" \in WireOps
                     /\ "login" \in Turns /\ "logout" \in Turns /\ "delete" \in Turns
                     /\ "self" \notin Turns /\ "other" \notin Turns
  BY DEF Turns, WireOps

\* A request is sent on an idle wire.
SentOn(w, t, op, u) ==
    /\ wire[w].pc = "idle" /\ wire'[w] \in Wired
    /\ wire'[w].pc = "sent" /\ wire'[w].tab = t /\ wire'[w].op = op /\ wire'[w].user = u
    /\ wire'[w].answer = "ok" /\ wire'[w].alive = TRUE
    /\ \A k \in Wires \ {w} : wire'[k] = wire[k]
LEMMA SendsOn ==
    ASSUME SessionTypes, NEW t \in Windows, NEW op \in WireOps, NEW u \in Persons, Sends(t, op, u)
    PROVE  /\ \E w \in Wires : SentOn(w, t, op, u)
           /\ wire' \in [Wires -> Wired \cup {NoWire}]
  <1>. DEFINE r == [pc |-> "sent", tab |-> t, op |-> op, user |-> u, answer |-> "ok", alive |-> TRUE]
  <1>1. r \in Wired
    BY DEF Wired
  <1>2. /\ r.pc = "sent" /\ r.tab = t /\ r.op = op /\ r.user = u /\ r.answer = "ok" /\ r.alive = TRUE
    OBVIOUS
  <1>3. PICK w \in Wires : wire[w].pc = "idle" /\ wire' = [wire EXCEPT ![w] = r]
    BY DEF Sends
  <1>. HIDE DEF r
  <1>4. wire'[w] = r /\ \A k \in Wires \ {w} : wire'[k] = wire[k]
    BY <1>3 DEF SessionTypes
  <1>5. SentOn(w, t, op, u)
    BY <1>1, <1>2, <1>3, <1>4 DEF SentOn
  <1>6. wire' \in [Wires -> Wired \cup {NoWire}]
    BY <1>1, <1>3 DEF SessionTypes
  <1>. QED BY <1>5, <1>6

\* Excuses are only added.
LEMMA ExcusedGrows ==
    ASSUME SessionTypes, NEW ts, NEW why \in Excuses, Excused(ts, why)
    PROVE  /\ excuse' \in [Windows -> SUBSET Excuses]
           /\ \A t \in Windows : excuse[t] \subseteq excuse'[t] /\ (t \in ts => why \in excuse'[t])
  BY DEF SessionTypes, Excused

\* What the server does with a request.
LEMMA NowOn ==
    ASSUME SessionTypes, NEW w \in Wires, wire[w].pc # "idle", NEW a \in {"ok", "401", "broken"}, NEW u \in Persons,
           NowOf(w, a, u)
    PROVE  /\ wire' \in [Wires -> Wired \cup {NoWire}]
           /\ wire'[w].pc = "back" /\ wire'[w].answer = a /\ wire'[w].user = u
           /\ wire'[w].tab = wire[w].tab /\ wire'[w].op = wire[w].op /\ wire'[w].alive = wire[w].alive
           /\ \A k \in Wires \ {w} : wire'[k] = wire[k]
  <1>1. wire[w] \in Wired
    BY WiredIsBusy
  <1>. DEFINE r == [wire[w] EXCEPT !.pc = "back", !.answer = a, !.user = u]
  <1>2. wire' = [wire EXCEPT ![w] = r]
    BY DEF NowOf, SessionTypes
  <1>3. /\ r \in Wired /\ r.pc = "back" /\ r.answer = a /\ r.user = u
        /\ r.tab = wire[w].tab /\ r.op = wire[w].op /\ r.alive = wire[w].alive
    BY <1>1 DEF Wired
  <1>. HIDE DEF r
  <1>4. wire'[w] = r /\ \A k \in Wires \ {w} : wire'[k] = wire[k]
    BY <1>2 DEF SessionTypes
  <1>5. wire' \in [Wires -> Wired \cup {NoWire}]
    BY <1>2, <1>3 DEF SessionTypes
  <1>. QED BY <1>3, <1>4, <1>5

LEMMA EndsOn ==
    ASSUME SessionTypes, NEW w \in Wires, Ends(w)
    PROVE  /\ wire' \in [Wires -> Wired \cup {NoWire}]
           /\ wire'[w].pc = "idle" /\ \A k \in Wires \ {w} : wire'[k] = wire[k]
  BY NoWireIdle DEF SessionTypes, Ends

\* The requests of a tab are forgotten, those of the others are not.
LEMMA ForgottenOn ==
    ASSUME NEW t, NEW ws \in [Wires -> Wired \cup {NoWire}]
    PROVE  /\ Forgotten(t, ws) \in [Wires -> Wired \cup {NoWire}]
           /\ \A k \in Wires : /\ Forgotten(t, ws)[k].pc = ws[k].pc
                               /\ ws[k].pc # "idle" => /\ Forgotten(t, ws)[k].tab = ws[k].tab
                                                       /\ Forgotten(t, ws)[k].op = ws[k].op
                               /\ ws[k].pc # "idle" /\ ws[k].tab # t => Forgotten(t, ws)[k] = ws[k]
  <1>1. ASSUME NEW k \in Wires
        PROVE  /\ Forgotten(t, ws)[k] \in Wired \cup {NoWire}
               /\ Forgotten(t, ws)[k].pc = ws[k].pc
               /\ ws[k].pc # "idle" => Forgotten(t, ws)[k].tab = ws[k].tab /\ Forgotten(t, ws)[k].op = ws[k].op
               /\ ws[k].pc # "idle" /\ ws[k].tab # t => Forgotten(t, ws)[k] = ws[k]
    <2>1. CASE ws[k].pc # "idle" /\ ws[k].tab = t
      <3>1. ws[k] \in Wired
        BY <2>1, NoWireIdle
      <3>2. Forgotten(t, ws)[k] = [ws[k] EXCEPT !.alive = FALSE]
        BY <2>1 DEF Forgotten
      <3>3. /\ [ws[k] EXCEPT !.alive = FALSE] \in Wired /\ [ws[k] EXCEPT !.alive = FALSE].pc = ws[k].pc
            /\ [ws[k] EXCEPT !.alive = FALSE].tab = ws[k].tab /\ [ws[k] EXCEPT !.alive = FALSE].op = ws[k].op
        BY <3>1 DEF Wired
      <3>. QED BY <2>1, <3>2, <3>3
    <2>2. CASE ~(ws[k].pc # "idle" /\ ws[k].tab = t)
      <3>1. Forgotten(t, ws)[k] = ws[k]
        BY <2>2 DEF Forgotten
      <3>. QED BY <2>2, <3>1
    <2>. QED BY <2>1, <2>2
  <1>2. Forgotten(t, ws) \in [Wires -> Wired \cup {NoWire}]
    BY <1>1 DEF Forgotten
  <1>. QED BY <1>1, <1>2

LEMMA SessionTypesInit ==
    ASSUME SessionInit
    PROVE  SessionTypes
  BY DEF SessionInit, SessionTypes, Persons

\* The steps of a tab, of the server and of the answers, in turn.
TabStep(t) == LogIn(t) \/ LogOut(t) \/ DeleteAccount(t) \/ AskSelf(t) \/ GoInside(t) \/ Guard(t) \/ Reload(t)
WireStep(w) == \/ Handled(w) \/ WireBreaks(w) \/ Unread(w) \/ Unauthorized(w)
               \/ LoggedIn(w) \/ LoggedOut(w) \/ AccountDeleted(w) \/ SelfAnswered(w) \/ OtherAnswered(w)
Grown == /\ excuse' \in [Windows -> SUBSET Excuses]
         /\ \A t \in Windows : excuse[t] \subseteq excuse'[t]

\* The four ways to send something.
TabSends(t, op, u) ==
    /\ Sends(t, op, u) /\ UNCHANGED <<at, store, storage, cookie>>
    /\ IF op \in Turns /\ Crossing THEN Excused({t}, "crossed") ELSE UNCHANGED excuse
LEMMA TabSendsOne ==
    ASSUME NEW t \in Windows, LogIn(t) \/ LogOut(t) \/ DeleteAccount(t) \/ AskSelf(t)
    PROVE  \E op \in WireOps : \E u \in Persons : TabSends(t, op, u)
  <1>1. CASE LogIn(t)
    <2>1. PICK u \in Users : Sends(t, "login", u)
      BY <1>1 DEF LogIn
    <2>2. u \in Persons
      BY DEF Persons
    <2>3. TabSends(t, "login", u)
      BY <1>1, <2>1, TurnsAreOps DEF LogIn, TabSends
    <2>. QED BY <2>2, <2>3, TurnsAreOps
  <1>0. 0 \in Persons
    BY DEF Persons
  <1>2. CASE LogOut(t)
    <2>1. TabSends(t, "logout", 0)
      BY <1>2, TurnsAreOps DEF LogOut, TabSends
    <2>. QED BY <1>0, <2>1, TurnsAreOps
  <1>3. CASE DeleteAccount(t)
    <2>1. TabSends(t, "delete", 0)
      BY <1>3, TurnsAreOps DEF DeleteAccount, TabSends
    <2>. QED BY <1>0, <2>1, TurnsAreOps
  <1>4. CASE AskSelf(t)
    <2>1. PICK op \in {"self", "other"} : Sends(t, op, 0)
      BY <1>4 DEF AskSelf
    <2>2. TabSends(t, op, 0)
      BY <1>4, <2>1, TurnsAreOps DEF AskSelf, TabSends
    <2>. QED BY <1>0, <2>2, TurnsAreOps
  <1>. QED BY <1>1, <1>2, <1>3, <1>4

LEMMA TabTypes ==
    ASSUME SessionTypes, NEW t \in Windows, TabStep(t)
    PROVE  SessionTypes' /\ Grown
  <1>0. {"crossed", "forgot"} \subseteq Excuses
    BY DEF Excuses
  <1>1. CASE LogIn(t) \/ LogOut(t) \/ DeleteAccount(t) \/ AskSelf(t)
    <2>1. PICK op \in WireOps, u \in Persons : TabSends(t, op, u)
      BY <1>1, TabSendsOne
    <2>2. wire' \in [Wires -> Wired \cup {NoWire}]
      BY <2>1, SendsOn DEF TabSends
    <2>3. Grown
      <3>1. CASE Excused({t}, "crossed")
        BY <1>0, <3>1, ExcusedGrows DEF Grown
      <3>2. CASE UNCHANGED excuse
        BY <3>2 DEF Grown, SessionTypes
      <3>. QED BY <2>1, <3>1, <3>2 DEF TabSends
    <2>. QED BY <2>1, <2>2, <2>3 DEF TabSends, SessionTypes, Grown
  <1>2. CASE GoInside(t) \/ Guard(t)
    BY <1>2 DEF GoInside, Guard, SessionTypes, Grown
  <1>3. CASE Reload(t)
    <2>1. wire' \in [Wires -> Wired \cup {NoWire}]
      BY <1>3, ForgottenOn DEF Reload, SessionTypes
    <2>2. Grown
      <3>1. CASE Excused({t}, "forgot")
        BY <1>0, <3>1, ExcusedGrows DEF Grown
      <3>2. CASE UNCHANGED excuse
        BY <3>2 DEF Grown, SessionTypes
      <3>. QED BY <1>3, <3>1, <3>2 DEF Reload
    <2>3. store' \in [Windows -> Persons] /\ at' \in [Windows -> {"login", "inside"}]
      BY <1>3 DEF Reload, SessionTypes
    <2>. QED BY <1>3, <2>1, <2>2, <2>3 DEF Reload, SessionTypes, Grown
  <1>. QED BY <1>1, <1>2, <1>3 DEF TabStep

\* What the server does with a request, and what it does to the session.
LEMMA HandledOn ==
    ASSUME SessionTypes, NEW w \in Wires, Handled(w)
    PROVE  /\ wire[w] \in Wired /\ wire[w].pc = "sent" /\ UNCHANGED <<at, store, storage>>
           /\ \/ /\ wire[w].op = "login" /\ cookie' = wire[w].user /\ NowOf(w, "ok", wire[w].user)
                 /\ Excused(Others(wire[w].tab), "elsewhere")
              \/ /\ wire[w].op = "logout" /\ cookie' = 0 /\ NowOf(w, "ok", 0)
                 /\ Excused(Others(wire[w].tab), "elsewhere")
              \/ /\ wire[w].op \notin {"login", "logout"} /\ UNCHANGED <<cookie, excuse>>
                 /\ NowOf(w, "401", 0) \/ NowOf(w, "ok", cookie)
  <1>1. wire[w] \in Wired /\ wire[w].pc = "sent"
    BY WiredIsBusy DEF Handled
  <1>. QED BY <1>1 DEF Handled

LEMMA WireTypes ==
    ASSUME SessionTypes, NEW w \in Wires, WireStep(w)
    PROVE  SessionTypes' /\ Grown
  <1>0. {"elsewhere", "forgot", "late"} \subseteq Excuses /\ 0 \in Persons
    BY DEF Excuses, Persons
  <1>1. wire[w] \in Wired
    <2>1. wire[w].pc # "idle"
      BY DEF WireStep, Handled, WireBreaks, Unread, Unauthorized, LoggedIn, LoggedOut, AccountDeleted,
             SelfAnswered, OtherAnswered, Arrived
    <2>. QED BY <2>1, WiredIsBusy
  <1>2. wire[w].tab \in Windows /\ wire[w].user \in Persons /\ wire[w].pc # "idle"
    BY <1>1 DEF Wired
  <1>3. UNCHANGED excuse => Grown
    BY DEF Grown, SessionTypes
  <1>4. \A ts : Excused(ts, "elsewhere") \/ Excused(ts, "forgot") \/ Excused(ts, "late") => Grown
    BY <1>0, ExcusedGrows DEF Grown
  <1>5. CASE Handled(w)
    <2>1. wire' \in [Wires -> Wired \cup {NoWire}] /\ cookie' \in Persons
      <3>1. cookie \in Persons
        BY DEF SessionTypes
      <3>. QED BY <1>0, <1>2, <1>5, <3>1, HandledOn, NowOn
    <2>2. Grown
      BY <1>3, <1>4, <1>5, HandledOn
    <2>. QED BY <1>5, <2>1, <2>2, HandledOn DEF SessionTypes, Grown
  <1>6. CASE WireBreaks(w)
    <2>1. wire' \in [Wires -> Wired \cup {NoWire}]
      BY <1>2, <1>6, NowOn DEF WireBreaks
    <2>2. Grown
      BY <1>4, <1>6 DEF WireBreaks
    <2>. QED BY <1>6, <2>1, <2>2 DEF SessionTypes, Grown, WireBreaks
  <1>7. CASE Unauthorized(w)
    <2>1. [wire EXCEPT ![w] = NoWire] \in [Wires -> Wired \cup {NoWire}]
      BY DEF SessionTypes
    <2>2. wire' \in [Wires -> Wired \cup {NoWire}]
      BY <1>7, <2>1, ForgottenOn DEF Unauthorized
    <2>3. Grown
      <3>1. \A x : {e \in {"forgot"} : Awaits(wire[w].tab, Turns)} \subseteq Excuses
                   /\ {e \in {"elsewhere"} : console[wire[w].tab] = "user"} \subseteq Excuses
        BY <1>0
      <3>. DEFINE more(x) == IF x = wire[w].tab THEN {e \in {"forgot"} : Awaits(wire[w].tab, Turns)}
                             ELSE {e \in {"elsewhere"} : console[wire[w].tab] = "user"}
      <3>2. \A x : more(x) \subseteq Excuses
        BY <3>1
      <3>3. excuse' = [x \in Windows |-> excuse[x] \cup more(x)]
        BY <1>7 DEF Unauthorized
      <3>. HIDE DEF more
      <3>. QED BY <3>2, <3>3 DEF Grown, SessionTypes
    <2>4. storage' \in Persons /\ store' \in [Windows -> Persons] /\ at' \in [Windows -> {"login", "inside"}]
      BY <1>0, <1>7 DEF Unauthorized, SessionTypes
    <2>. QED BY <1>7, <2>2, <2>3, <2>4 DEF SessionTypes, Grown, Unauthorized
  <1>8. CASE AccountDeleted(w)
    <2>1. [wire[w] EXCEPT !.op = "logout", !.pc = "sent"] \in Wired
      BY <1>1, TurnsAreOps DEF Wired
    <2>2. wire' \in [Wires -> Wired \cup {NoWire}]
      BY <1>8, <2>1 DEF AccountDeleted, SessionTypes
    <2>. QED BY <1>3, <1>8, <2>2 DEF SessionTypes, Grown, AccountDeleted
  <1>9. ASSUME Ends(w) PROVE wire' \in [Wires -> Wired \cup {NoWire}]
    BY <1>9, EndsOn
  <1>10. CASE Unread(w) \/ OtherAnswered(w)
    BY <1>3, <1>9, <1>10 DEF SessionTypes, Grown, Unread, OtherAnswered
  <1>11. CASE LoggedIn(w)
    <2>1. storage' \in Persons /\ store' \in [Windows -> Persons] /\ at' \in [Windows -> {"login", "inside"}]
      BY <1>2, <1>11 DEF LoggedIn, SessionTypes
    <2>2. Grown
      BY <1>3, <1>4, <1>11 DEF LoggedIn
    <2>. QED BY <1>9, <1>11, <2>1, <2>2 DEF SessionTypes, Grown, LoggedIn
  <1>12. CASE LoggedOut(w)
    <2>1. storage' \in Persons /\ store' \in [Windows -> Persons] /\ at' \in [Windows -> {"login", "inside"}]
      BY <1>0, <1>12 DEF LoggedOut, SessionTypes
    <2>2. Grown
      BY <1>4, <1>12 DEF LoggedOut
    <2>. QED BY <1>9, <1>12, <2>1, <2>2 DEF SessionTypes, Grown, LoggedOut
  <1>13. CASE SelfAnswered(w)
    <2>1. store' \in [Windows -> Persons]
      BY <1>2, <1>13 DEF SelfAnswered, SessionTypes
    <2>2. Grown
      BY <1>3, <1>4, <1>13 DEF SelfAnswered
    <2>. QED BY <1>9, <1>13, <2>1, <2>2 DEF SessionTypes, Grown, SelfAnswered
  <1>. QED BY <1>5, <1>6, <1>7, <1>8, <1>10, <1>11, <1>12, <1>13 DEF WireStep

LEMMA ExpiryTypes ==
    ASSUME SessionTypes, SessionExpires
    PROVE  SessionTypes' /\ Grown /\ \A t \in Windows : "expired" \in excuse'[t]
  <1>1. "expired" \in Excuses /\ 0 \in Persons
    BY DEF Excuses, Persons
  <1>2. Grown /\ \A t \in Windows : "expired" \in excuse'[t]
    BY <1>1, ExcusedGrows DEF SessionExpires, Grown
  <1>. QED BY <1>1, <1>2 DEF SessionExpires, SessionTypes, Grown

LEMMA SessionTypesStep ==
    ASSUME SessionTypes, SessionStep
    PROVE  SessionTypes' /\ Grown
  <1>1. \/ \E t \in Windows : TabStep(t)
        \/ SessionExpires
        \/ \E w \in Wires : WireStep(w)
    BY DEF SessionStep, TabStep, WireStep
  <1>. QED BY <1>1, TabTypes, WireTypes, ExpiryTypes
-----------------------------------------------------------------------------
(* The session: who is shown                                               *)

\* Requests of these tabs that log in or out.
Turning(w, S) == wire[w].pc # "idle" /\ wire[w].tab \in S /\ wire[w].op \in Turns
TurnBack(w, S) == Turning(w, S) /\ wire[w].pc = "back" /\ wire[w].op \in {"login", "logout"}
\* The tabs have one such request under way, its answer will be read, and what it
\* did to the session the answer does to localStorage.
TurnsSound(S) ==
    /\ \A w, k \in Wires : Turning(w, S) /\ Turning(k, S) => w = k
    /\ \A w \in Wires : Turning(w, S) =>
          /\ wire[w].alive
          /\ wire[w].op = "login" => wire[w].answer = "ok" /\ (wire[w].pc = "back" => wire[w].user = cookie)
    /\ (\E w \in Wires : TurnBack(w, S)) \/ storage \in {0, cookie}

OwnExcuses == {"expired", "crossed", "forgot"}
\* One of the tabs is excused; or all of them are, because of another tab.
TurnsExcused(S) == \/ \E t \in S : excuse[t] \cap OwnExcuses # {}
                   \/ S # Windows /\ \A t \in S : "elsewhere" \in excuse[t]

TabFollows(t) ==
    /\ store[t] # storage => excuse[t] \cap {"elsewhere", "late"} # {}
    /\ excuse[t] \cap Excuses # {} \/ TurnsSound({t})
SessionFollows ==
    /\ \A t \in Windows : TabFollows(t)
    /\ (\E t \in Windows : excuse[t] \cap OwnExcuses # {}) \/ TurnsSound(Windows)

LEMMA TurnsSoundInit ==
    ASSUME SessionInit, NEW S
    PROVE  TurnsSound(S)
  BY NoWireIdle DEF SessionInit, TurnsSound, Turning, TurnBack

\* Steps that change neither these requests nor, but to nobody, who is remembered.
LEMMA TurnsKept ==
    ASSUME NEW S, TurnsSound(S), storage' \in {0, storage}, cookie' = cookie,
           \A w \in Wires : /\ Turning(w, S)' <=> Turning(w, S)
                            /\ Turning(w, S) => wire'[w] = wire[w]
    PROVE  TurnsSound(S)'
  <1>1. \A w \in Wires : TurnBack(w, S)' <=> TurnBack(w, S)
    BY DEF TurnBack
  <1>. QED BY <1>1 DEF TurnsSound

\* The only such request ends, and who is remembered has the session.
LEMMA TurnEnds ==
    ASSUME NEW S, TurnsSound(S), NEW w \in Wires, Turning(w, S), ~Turning(w, S)',
           \A k \in Wires \ {w} : wire'[k] = wire[k], storage' \in {0, cookie'}
    PROVE  TurnsSound(S)'
  <1>1. \A k \in Wires : ~Turning(k, S)'
    BY DEF TurnsSound, Turning
  <1>. QED BY <1>1 DEF TurnsSound

LEMMA TabTurns ==
    ASSUME SessionTypes, NEW S \in SUBSET Windows, TurnsSound(S), NEW t \in Windows, TabStep(t)
    PROVE  TurnsSound(S)' \/ TurnsExcused(S)'
  <1>0. {"crossed", "forgot"} \subseteq Excuses /\ {"crossed", "forgot"} \subseteq OwnExcuses
    BY DEF Excuses, OwnExcuses
  <1>1. CASE LogIn(t) \/ LogOut(t) \/ DeleteAccount(t) \/ AskSelf(t)
    <2>1. PICK op \in WireOps, u \in Persons : TabSends(t, op, u)
      BY <1>1, TabSendsOne
    <2>2. PICK w \in Wires : SentOn(w, t, op, u)
      BY <2>1, SendsOn DEF TabSends
    <2>3. storage' = storage /\ cookie' = cookie
      BY <2>1 DEF TabSends
    <2>4. CASE op \notin Turns \/ t \notin S
      <3>1. \A k \in Wires : /\ Turning(k, S)' <=> Turning(k, S)
                             /\ Turning(k, S) => wire'[k] = wire[k]
        BY <2>2, <2>4 DEF SentOn, Turning
      <3>. QED BY <2>3, <3>1, TurnsKept
    <2>5. CASE op \in Turns /\ t \in S /\ Crossing
      <3>1. "crossed" \in excuse'[t]
        BY <1>0, <2>1, <2>5, ExcusedGrows DEF TabSends
      <3>. QED BY <1>0, <2>5, <3>1 DEF TurnsExcused
    <2>6. CASE op \in Turns /\ t \in S /\ ~Crossing
      <3>1. \A k \in Wires : ~Turning(k, S)
        BY <2>6 DEF Crossing, Awaits, Turning
      <3>2. \A k \in Wires : Turning(k, S)' <=> k = w
        BY <2>2, <2>6, <3>1 DEF SentOn, Turning
      <3>3. storage \in {0, cookie}
        BY <3>1 DEF TurnsSound, TurnBack
      <3>. QED BY <2>2, <2>3, <3>2, <3>3 DEF SentOn, TurnsSound
    <2>. QED BY <2>4, <2>5, <2>6
  <1>2. CASE GoInside(t) \/ Guard(t)
    BY <1>2, TurnsKept DEF GoInside, Guard, Turning
  <1>3. CASE Reload(t)
    <2>1. /\ wire' = Forgotten(t, wire) /\ UNCHANGED <<storage, cookie>>
          /\ IF Awaits(t, Turns) THEN Excused({t}, "forgot") ELSE UNCHANGED excuse
      BY <1>3 DEF Reload
    <2>2. CASE t \in S /\ Awaits(t, Turns)
      <3>1. "forgot" \in excuse'[t]
        BY <1>0, <2>1, <2>2, ExcusedGrows
      <3>. QED BY <1>0, <2>2, <3>1 DEF TurnsExcused
    <2>3. CASE t \notin S \/ ~Awaits(t, Turns)
      <3>1. \A k \in Wires : Turning(k, S) => wire[k].pc # "idle" /\ wire[k].tab # t
        BY <2>3 DEF Awaits, Turning
      <3>2. \A k \in Wires : /\ wire'[k].pc = wire[k].pc
                             /\ wire[k].pc # "idle" => wire'[k].tab = wire[k].tab /\ wire'[k].op = wire[k].op
                             /\ wire[k].pc # "idle" /\ wire[k].tab # t => wire'[k] = wire[k]
        BY <2>1, ForgottenOn DEF SessionTypes
      <3>3. \A k \in Wires : /\ Turning(k, S)' <=> Turning(k, S)
                             /\ Turning(k, S) => wire'[k] = wire[k]
        BY <3>1, <3>2 DEF Turning
      <3>. QED BY <2>1, <3>3, TurnsKept
    <2>. QED BY <2>2, <2>3
  <1>. QED BY <1>1, <1>2, <1>3 DEF TabStep

LEMMA HandledTurns ==
    ASSUME SessionTypes, NEW S \in SUBSET Windows, TurnsSound(S), NEW w \in Wires, Handled(w)
    PROVE  TurnsSound(S)' \/ TurnsExcused(S)'
  <1>1. wire[w] \in Wired /\ wire[w].pc = "sent" /\ UNCHANGED storage
    BY HandledOn
  <1>2. wire[w].tab \in Windows /\ wire[w].user \in Persons /\ 0 \in Persons /\ cookie \in Persons /\ wire[w].pc # "idle"
    BY <1>1 DEF Wired, SessionTypes, Persons
  <1>3. PICK a \in {"ok", "401"}, u \in Persons : NowOf(w, a, u) /\ (wire[w].op \in {"login", "logout"} => a = "ok" /\ cookie' = u)
    BY <1>2, HandledOn
  <1>4. /\ wire'[w].pc = "back" /\ wire'[w].answer = a /\ wire'[w].user = u
        /\ wire'[w].tab = wire[w].tab /\ wire'[w].op = wire[w].op /\ wire'[w].alive = wire[w].alive
        /\ \A k \in Wires \ {w} : wire'[k] = wire[k]
    BY <1>2, <1>3, NowOn
  <1>5. \A k \in Wires : Turning(k, S)' <=> Turning(k, S)
    BY <1>2, <1>4 DEF Turning
  <1>6. CASE wire[w].op \in {"login", "logout"} /\ wire[w].tab \notin S
    <2>1. Excused(Others(wire[w].tab), "elsewhere")
      BY <1>6, HandledOn
    <2>2. "elsewhere" \in Excuses
      BY DEF Excuses
    <2>3. \A t \in S : "elsewhere" \in excuse'[t]
      BY <1>6, <2>1, <2>2, ExcusedGrows DEF Others
    <2>. QED BY <1>2, <1>6, <2>3 DEF TurnsExcused
  <1>7. CASE wire[w].op \in {"login", "logout"} /\ wire[w].tab \in S
    <2>1. TurnBack(w, S)'
      BY <1>2, <1>4, <1>5, <1>7, TurnsAreOps DEF Turning, TurnBack
    <2>2. Turning(w, S)
      BY <1>2, <1>7, TurnsAreOps DEF Turning
    <2>3. \A k \in Wires : Turning(k, S) => k = w
      BY <2>2 DEF TurnsSound
    <2>. QED BY <1>3, <1>4, <1>5, <1>7, <2>1, <2>3 DEF TurnsSound
  <1>8. CASE wire[w].op \notin {"login", "logout"}
    <2>1. cookie' = cookie
      BY <1>8, HandledOn
    <2>2. \A k \in Wires : TurnBack(k, S) => TurnBack(k, S)'
      BY <1>4, <1>5, <1>8 DEF TurnBack
    <2>. QED BY <1>1, <1>4, <1>5, <1>8, <2>1, <2>2 DEF TurnsSound
  <1>. QED BY <1>6, <1>7, <1>8

LEMMA BrokenTurns ==
    ASSUME SessionTypes, NEW S \in SUBSET Windows, TurnsSound(S), NEW w \in Wires, WireBreaks(w)
    PROVE  TurnsSound(S)' \/ TurnsExcused(S)'
  <1>1. /\ wire[w].pc # "idle" /\ NowOf(w, "broken", wire[w].user) /\ UNCHANGED <<storage, cookie>>
        /\ Excused({t \in Windows : t = wire[w].tab /\ wire[w].op = "login"}, "forgot")
    BY DEF WireBreaks
  <1>2. wire[w].tab \in Windows /\ wire[w].user \in Persons
    BY <1>1, WiredIsBusy DEF Wired
  <1>3. /\ wire'[w].pc = "back"
        /\ wire'[w].tab = wire[w].tab /\ wire'[w].op = wire[w].op /\ wire'[w].alive = wire[w].alive
        /\ \A k \in Wires \ {w} : wire'[k] = wire[k]
    BY <1>1, <1>2, NowOn
  <1>4. CASE wire[w].op = "login" /\ wire[w].tab \in S
    <2>1. "forgot" \in Excuses /\ "forgot" \in OwnExcuses
      BY DEF Excuses, OwnExcuses
    <2>2. "forgot" \in excuse'[wire[w].tab]
      BY <1>1, <1>2, <1>4, <2>1, ExcusedGrows
    <2>. QED BY <1>4, <2>1, <2>2 DEF TurnsExcused
  <1>5. CASE ~(wire[w].op = "login" /\ wire[w].tab \in S)
    <2>1. \A k \in Wires : Turning(k, S)' <=> Turning(k, S)
      BY <1>1, <1>3 DEF Turning
    <2>2. \A k \in Wires : TurnBack(k, S) => TurnBack(k, S)'
      BY <1>3, <2>1 DEF TurnBack
    <2>3. \A k \in Wires : Turning(k, S) /\ wire[k].op = "login" => k # w
      BY <1>5 DEF Turning
    <2>. QED BY <1>1, <1>3, <2>1, <2>2, <2>3 DEF TurnsSound
  <1>. QED BY <1>4, <1>5

LEMMA UnauthorizedTurns ==
    ASSUME SessionTypes, NEW S \in SUBSET Windows, TurnsSound(S), NEW w \in Wires, Unauthorized(w)
    PROVE  TurnsSound(S)' \/ TurnsExcused(S)'
  <1>. DEFINE t == wire[w].tab
              more(x) == IF x = t THEN {e \in {"forgot"} : Awaits(t, Turns)}
                         ELSE {e \in {"elsewhere"} : console[t] = "user"}
  <1>1. /\ wire[w].pc # "idle" /\ UNCHANGED cookie
        /\ storage' \in {0, storage} /\ (console[t] # "user" => storage' = storage)
        /\ excuse' = [x \in Windows |-> excuse[x] \cup more(x)]
        /\ wire' = Forgotten(t, [wire EXCEPT ![w] = NoWire])
    BY DEF Unauthorized
  <1>2. t \in Windows
    BY <1>1, WiredIsBusy DEF Wired
  <1>3. \A x \in Windows : more(x) \subseteq excuse'[x]
    BY <1>1
  <1>4. CASE t \in S /\ Awaits(t, Turns)
    <2>1. "forgot" \in excuse'[t] /\ "forgot" \in OwnExcuses
      BY <1>2, <1>3, <1>4 DEF OwnExcuses
    <2>. QED BY <1>4, <2>1 DEF TurnsExcused
  <1>5. CASE t \notin S /\ console[t] = "user"
    <2>1. \A x \in S : "elsewhere" \in excuse'[x]
      BY <1>3, <1>5
    <2>. QED BY <1>2, <1>5, <2>1 DEF TurnsExcused
  <1>6. CASE t \notin S \/ ~Awaits(t, Turns)
    <2>1. \A k \in Wires : Turning(k, S) => wire[k].pc # "idle" /\ wire[k].tab # t
      BY <1>6 DEF Awaits, Turning
    <2>. DEFINE ws == [wire EXCEPT ![w] = NoWire]
    <2>2. ws \in [Wires -> Wired \cup {NoWire}] /\ ws[w].pc = "idle" /\ \A k \in Wires \ {w} : ws[k] = wire[k]
      BY NoWireIdle DEF SessionTypes
    <2>3. wire' = Forgotten(t, ws)
      BY <1>1
    <2>. HIDE DEF ws, t
    <2>4. \A k \in Wires : /\ wire'[k].pc = ws[k].pc
                           /\ ws[k].pc # "idle" => wire'[k].tab = ws[k].tab /\ wire'[k].op = ws[k].op
                           /\ ws[k].pc # "idle" /\ ws[k].tab # t => wire'[k] = ws[k]
      BY <2>2, <2>3, ForgottenOn
    <2>5. wire[w].tab = t
      BY DEF t
    <2>6. \A k \in Wires : /\ Turning(k, S)' <=> Turning(k, S)
                           /\ Turning(k, S) => wire'[k] = wire[k]
      BY <2>1, <2>2, <2>4, <2>5 DEF Turning
    <2>. QED BY <1>1, <2>6, TurnsKept
  <1>. QED BY <1>4, <1>5, <1>6

LEMMA AnsweredTurns ==
    ASSUME SessionTypes, NEW S \in SUBSET Windows, TurnsSound(S), NEW w \in Wires,
           \/ Unread(w) \/ LoggedIn(w) \/ LoggedOut(w) \/ AccountDeleted(w) \/ SelfAnswered(w) \/ OtherAnswered(w)
    PROVE  TurnsSound(S)' \/ TurnsExcused(S)'
  <1>1. wire[w].pc = "back" /\ wire[w].pc # "idle" /\ cookie' = cookie
    BY DEF Unread, LoggedIn, LoggedOut, AccountDeleted, SelfAnswered, OtherAnswered, Arrived
  <1>2. wire[w] \in Wired /\ wire[w].tab \in Windows
    BY <1>1, WiredIsBusy DEF Wired
  <1>3. ASSUME Ends(w), ~Turning(w, S), storage' \in {0, storage} PROVE TurnsSound(S)'
    <2>1. wire'[w].pc = "idle" /\ \A k \in Wires \ {w} : wire'[k] = wire[k]
      BY <1>3, EndsOn
    <2>2. \A k \in Wires : /\ Turning(k, S)' <=> Turning(k, S)
                           /\ Turning(k, S) => wire'[k] = wire[k]
      BY <1>3, <2>1 DEF Turning
    <2>. QED BY <1>1, <1>3, <2>2, TurnsKept
  <1>4. ASSUME Ends(w), Turning(w, S), storage' \in {0, cookie} PROVE TurnsSound(S)'
    <2>1. wire'[w].pc = "idle" /\ \A k \in Wires \ {w} : wire'[k] = wire[k]
      BY <1>4, EndsOn
    <2>2. ~Turning(w, S)'
      BY <2>1 DEF Turning
    <2>. QED BY <1>1, <1>4, <2>1, <2>2, TurnEnds
  <1>5. ASSUME Excused(Others(wire[w].tab), "elsewhere"), wire[w].tab \notin S PROVE TurnsExcused(S)'
    <2>1. "elsewhere" \in Excuses
      BY DEF Excuses
    <2>2. \A t \in S : "elsewhere" \in excuse'[t]
      BY <1>5, <2>1, ExcusedGrows DEF Others
    <2>. QED BY <1>2, <1>5, <2>2 DEF TurnsExcused
  <1>6. CASE Unread(w)
    <2>1. ~Turning(w, S)
      BY <1>6 DEF Unread, TurnsSound
    <2>. QED BY <1>3, <1>6, <2>1 DEF Unread
  <1>7. CASE SelfAnswered(w) \/ OtherAnswered(w)
    <2>1. ~Turning(w, S) /\ Ends(w) /\ storage' = storage
      BY <1>7, TurnsAreOps DEF SelfAnswered, OtherAnswered, Arrived, Turning
    <2>. QED BY <1>3, <2>1
  <1>8. CASE LoggedIn(w)
    <2>1. wire[w].op = "login" /\ Ends(w)
      BY <1>8 DEF LoggedIn, Arrived
    <2>2. CASE wire[w].tab \in S
      <3>1. Turning(w, S)
        BY <1>1, <2>1, <2>2, TurnsAreOps DEF Turning
      <3>2. Passed(w) /\ wire[w].user = cookie
        BY <1>1, <2>1, <3>1 DEF TurnsSound, Passed
      <3>3. storage' = cookie
        BY <1>8, <3>2 DEF LoggedIn
      <3>. QED BY <1>4, <2>1, <3>1, <3>3
    <2>3. CASE wire[w].tab \notin S /\ Passed(w)
      BY <1>5, <1>8, <2>3 DEF LoggedIn
    <2>4. CASE wire[w].tab \notin S /\ ~Passed(w)
      BY <1>3, <1>8, <2>1, <2>4 DEF LoggedIn, Turning
    <2>. QED BY <2>2, <2>3, <2>4
  <1>9. CASE LoggedOut(w)
    <2>1. wire[w].op = "logout" /\ Ends(w) /\ storage' = 0 /\ Excused(Others(wire[w].tab), "elsewhere")
      BY <1>9 DEF LoggedOut, Arrived
    <2>2. CASE wire[w].tab \in S
      <3>1. Turning(w, S)
        BY <1>1, <2>1, <2>2, TurnsAreOps DEF Turning
      <3>. QED BY <1>4, <2>1, <3>1
    <2>3. CASE wire[w].tab \notin S
      BY <1>5, <2>1, <2>3
    <2>. QED BY <2>2, <2>3
  <1>10. CASE AccountDeleted(w)
    <2>. DEFINE r == IF Passed(w) THEN [wire[w] EXCEPT !.op = "logout", !.pc = "sent"] ELSE NoWire
    <2>1. wire' = [wire EXCEPT ![w] = r] /\ storage' = storage /\ wire[w].op = "delete"
      BY <1>10 DEF AccountDeleted, Arrived
    <2>2. \/ ~Passed(w) /\ r.pc = "idle"
          \/ /\ Passed(w) /\ r.pc = "sent" /\ r.op = "logout"
             /\ r.tab = wire[w].tab /\ r.alive = wire[w].alive
      BY <1>2, NoWireIdle DEF Wired
    <2>. HIDE DEF r
    <2>3. wire'[w] = r /\ \A k \in Wires \ {w} : wire'[k] = wire[k]
      BY <2>1 DEF SessionTypes
    <2>4. CASE wire[w].tab \notin S
      <3>1. \A k \in Wires : /\ Turning(k, S)' <=> Turning(k, S)
                             /\ Turning(k, S) => wire'[k] = wire[k]
        BY <2>2, <2>3, <2>4 DEF Turning
      <3>. QED BY <1>1, <2>1, <3>1, TurnsKept
    <2>5. CASE wire[w].tab \in S
      <3>1. Turning(w, S)
        BY <1>1, <2>1, <2>5, TurnsAreOps DEF Turning
      <3>2. \A k \in Wires : ~TurnBack(k, S)
        BY <2>1, <3>1 DEF TurnsSound, TurnBack
      <3>3. storage \in {0, cookie}
        BY <3>2 DEF TurnsSound
      <3>4. CASE ~Passed(w)
        <4>1. ~Turning(w, S)'
          BY <2>2, <2>3, <3>4 DEF Turning
        <4>. QED BY <1>1, <2>1, <2>3, <3>1, <3>3, <4>1, TurnEnds
      <3>5. CASE Passed(w)
        <4>1. \A k \in Wires : Turning(k, S)' <=> k = w
          BY <2>2, <2>3, <2>5, <3>1, <3>5, TurnsAreOps DEF TurnsSound, Turning
        <4>2. wire'[w].alive /\ wire'[w].op # "login"
          BY <2>2, <2>3, <3>1, <3>5 DEF TurnsSound
        <4>. QED BY <1>1, <2>1, <3>3, <4>1, <4>2 DEF TurnsSound
      <3>. QED BY <3>4, <3>5
    <2>. QED BY <2>4, <2>5
  <1>. QED BY <1>6, <1>7, <1>8, <1>9, <1>10

\* The requests that log in and out, in every step but the expiry of the session.
LEMMA StepTurns ==
    ASSUME SessionTypes, NEW S \in SUBSET Windows, TurnsSound(S), SessionStep, ~SessionExpires
    PROVE  TurnsSound(S)' \/ TurnsExcused(S)'
  BY TabTurns, HandledTurns, BrokenTurns, UnauthorizedTurns, AnsweredTurns DEF SessionStep, TabStep

\* A tab that shows another user than localStorage was not told, or told late.
LEMMA StoreFollows ==
    ASSUME SessionTypes, Grown, NEW t \in Windows, SessionStep,
           store[t] # storage => excuse[t] \cap {"elsewhere", "late"} # {}
    PROVE  (store[t] # storage => excuse[t] \cap {"elsewhere", "late"} # {})'
  <1>1. excuse[t] \subseteq excuse'[t]
    BY DEF Grown
  <1>2. ASSUME store'[t] = store[t] /\ storage' = storage
        PROVE  (store[t] # storage => excuse[t] \cap {"elsewhere", "late"} # {})'
    BY <1>1, <1>2
  <1>3. ASSUME NEW x \in Windows, TabStep(x)
        PROVE  (store[t] # storage => excuse[t] \cap {"elsewhere", "late"} # {})'
    <2>1. CASE Reload(x)
      <3>1. storage' = storage /\ store' = [store EXCEPT ![x] = storage]
        BY <2>1 DEF Reload
      <3>2. store'[t] \in {storage, store[t]}
        BY <3>1 DEF SessionTypes
      <3>. QED BY <1>1, <3>1, <3>2
    <2>2. CASE ~Reload(x)
      BY <1>2, <1>3, <2>2 DEF TabStep, LogIn, LogOut, DeleteAccount, AskSelf, GoInside, Guard
    <2>. QED BY <2>1, <2>2
  <1>4. ASSUME SessionExpires
        PROVE  (store[t] # storage => excuse[t] \cap {"elsewhere", "late"} # {})'
    BY <1>2, <1>4 DEF SessionExpires
  <1>5. ASSUME NEW w \in Wires, Handled(w) \/ WireBreaks(w) \/ Unread(w) \/ AccountDeleted(w) \/ OtherAnswered(w)
        PROVE  (store[t] # storage => excuse[t] \cap {"elsewhere", "late"} # {})'
    BY <1>2, <1>5 DEF Handled, WireBreaks, Unread, AccountDeleted, OtherAnswered
  <1>a. {"elsewhere", "late"} \subseteq Excuses
    BY DEF Excuses
  <1>6. ASSUME NEW w \in Wires, Unauthorized(w)
        PROVE  (store[t] # storage => excuse[t] \cap {"elsewhere", "late"} # {})'
    <2>1. CASE t = wire[w].tab
      <3>1. store'[t] = storage'
        BY <1>6, <2>1 DEF Unauthorized, SessionTypes
      <3>. QED BY <3>1
    <2>2. CASE t # wire[w].tab /\ console[wire[w].tab] = "user"
      <3>1. "elsewhere" \in excuse'[t]
        BY <1>6, <2>2 DEF Unauthorized
      <3>. QED BY <3>1
    <2>3. CASE t # wire[w].tab /\ console[wire[w].tab] # "user"
      <3>1. store'[t] = store[t] /\ storage' = storage
        BY <1>6, <2>3 DEF Unauthorized, SessionTypes
      <3>. QED BY <1>2, <3>1
    <2>. QED BY <2>1, <2>2, <2>3
  <1>7. ASSUME NEW w \in Wires, LoggedIn(w) \/ LoggedOut(w)
        PROVE  (store[t] # storage => excuse[t] \cap {"elsewhere", "late"} # {})'
    <2>1. CASE UNCHANGED <<store, storage>>
      BY <1>2, <2>1
    <2>2. CASE ~UNCHANGED <<store, storage>>
      <3>1. /\ Excused(Others(wire[w].tab), "elsewhere")
            /\ store' = [store EXCEPT ![wire[w].tab] = storage']
        BY <1>7, <2>2 DEF LoggedIn, LoggedOut
      <3>2. t # wire[w].tab => "elsewhere" \in excuse'[t]
        BY <1>a, <3>1, ExcusedGrows DEF Others
      <3>3. t = wire[w].tab => store'[t] = storage'
        BY <3>1 DEF SessionTypes
      <3>. QED BY <3>2, <3>3
    <2>. QED BY <2>1, <2>2
  <1>8. ASSUME NEW w \in Wires, SelfAnswered(w)
        PROVE  (store[t] # storage => excuse[t] \cap {"elsewhere", "late"} # {})'
    <2>1. CASE t = wire[w].tab /\ Passed(w) /\ storage # wire[w].user
      <3>1. Excused({t}, "late")
        BY <1>8, <2>1 DEF SelfAnswered
      <3>2. "late" \in excuse'[t]
        BY <1>a, <3>1, ExcusedGrows
      <3>. QED BY <3>2
    <2>2. CASE t = wire[w].tab /\ Passed(w) /\ storage = wire[w].user
      <3>1. store'[t] = storage'
        BY <1>8, <2>2 DEF SelfAnswered, SessionTypes
      <3>. QED BY <3>1
    <2>3. CASE ~(t = wire[w].tab /\ Passed(w))
      <3>1. store'[t] = store[t] /\ storage' = storage
        BY <1>8, <2>3 DEF SelfAnswered, SessionTypes
      <3>. QED BY <1>2, <3>1
    <2>. QED BY <2>1, <2>2, <2>3
  <1>. QED BY <1>3, <1>4, <1>5, <1>6, <1>7, <1>8 DEF SessionStep, TabStep

LEMMA SessionFollowsInit ==
    ASSUME SessionInit
    PROVE  SessionFollows
  <1>1. \A t \in Windows : store[t] = storage
    BY DEF SessionInit
  <1>2. \A S : TurnsSound(S)
    BY TurnsSoundInit
  <1>. QED BY <1>1, <1>2 DEF SessionFollows, TabFollows

LEMMA SessionFollowsStep ==
    ASSUME SessionTypes, SessionFollows, SessionStep
    PROVE  SessionFollows'
  <1>1. Grown
    BY SessionTypesStep
  <1>a. OwnExcuses \subseteq Excuses /\ "elsewhere" \in Excuses /\ "expired" \in OwnExcuses
    BY DEF OwnExcuses, Excuses
  <1>b. \A t \in Windows : excuse[t] \subseteq excuse'[t]
    BY <1>1 DEF Grown
  <1>2. ASSUME NEW t \in Windows PROVE TabFollows(t)'
    <2>1. (store[t] # storage => excuse[t] \cap {"elsewhere", "late"} # {})'
      BY <1>1, StoreFollows DEF SessionFollows, TabFollows
    <2>2. CASE excuse[t] \cap Excuses # {}
      <3>1. excuse'[t] \cap Excuses # {}
        BY <1>b, <2>2
      <3>. QED BY <2>1, <3>1 DEF TabFollows
    <2>3. CASE TurnsSound({t}) /\ ~SessionExpires
      <3>1. {t} \in SUBSET Windows
        OBVIOUS
      <3>2. TurnsSound({t})' \/ TurnsExcused({t})'
        BY <2>3, <3>1, StepTurns
      <3>3. TurnsExcused({t})' => excuse'[t] \cap Excuses # {}
        BY <1>a DEF TurnsExcused
      <3>. QED BY <2>1, <3>2, <3>3 DEF TabFollows
    <2>4. CASE SessionExpires
      <3>1. excuse'[t] \cap Excuses # {}
        BY <1>a, <2>4, ExpiryTypes
      <3>. QED BY <2>1, <3>1 DEF TabFollows
    <2>. QED BY <2>2, <2>3, <2>4 DEF SessionFollows, TabFollows
  <1>3. ((\E t \in Windows : excuse[t] \cap OwnExcuses # {}) \/ TurnsSound(Windows))'
    <2>1. CASE \E t \in Windows : excuse[t] \cap OwnExcuses # {}
      BY <1>b, <2>1
    <2>2. CASE TurnsSound(Windows) /\ ~SessionExpires
      <3>1. Windows \in SUBSET Windows
        OBVIOUS
      <3>2. TurnsSound(Windows)' \/ TurnsExcused(Windows)'
        BY <2>2, <3>1, StepTurns
      <3>. QED BY <3>2 DEF TurnsExcused
    <2>3. CASE SessionExpires
      BY <1>a, <2>3, ExpiryTypes, WindowsAssumption
    <2>. QED BY <2>1, <2>2, <2>3 DEF SessionFollows
  <1>. QED BY <1>2, <1>3 DEF SessionFollows

LEMMA SessionIsShown ==
    ASSUME SessionFollows
    PROVE  ShownIsSession /\ RememberedHasSession
  <1>1. AllQuiet => \A S : \A w \in Wires : ~TurnBack(w, S)
    BY DEF AllQuiet, TurnBack, Turning
  <1>2. AllQuiet => \A S : TurnsSound(S) => storage \in {0, cookie}
    BY <1>1 DEF TurnsSound
  <1>3. ShownIsSession
    BY <1>2 DEF ShownIsSession, SessionFollows, TabFollows, Excuses
  <1>4. RememberedHasSession
    BY <1>2 DEF RememberedHasSession, SessionFollows, OwnExcuses
  <1>. QED BY <1>3, <1>4
-----------------------------------------------------------------------------
(* The sheets: types                                                       *)

Ids == Rows \cup {0}
FieldValues == {Blank} \cup {OfRow(i) : i \in Ids} \cup {Typed(i) : i \in Ids}
RowForms == [Fields -> FieldValues]
SheetState == [shown : BOOLEAN, id : Ids, busy : BOOLEAN, submitting : BOOLEAN]
Requests == [pc : {"sent", "back"}, op : {"load", "save", "models"}, id : Ids, values : RowForms, ids : SUBSET Ids,
             left : Int, fails : Nat, kept : Nat, answer : {"ok", "refused", "broken"}, data : RowForms]

\* Types of the sheet, with its requests.
SheetTypes ==
    /\ kind \in Kinds
    /\ sheet \in SheetState
    /\ form \in RowForms
    /\ count \in Int
    /\ stored \in [Rows -> RowForms]
    /\ unlisted \in BOOLEAN
    /\ slot \in [Slots -> Requests \cup {NoRequest}]

LEMMA NoRequestIdle == NoRequest.pc = "idle"
  BY DEF NoRequest

LEMMA ValueTypes ==
    /\ Blank \in FieldValues
    /\ \A i \in Ids : OfRow(i) \in FieldValues /\ Typed(i) \in FieldValues
  BY DEF FieldValues

LEMMA BlankFormType == BlankForm \in RowForms
  BY ValueTypes DEF BlankForm, RowForms

LEMMA RowIds == Rows \subseteq Ids /\ 0 \in Ids /\ 0 \notin Rows
  BY RowsAssumption DEF Ids

\* The form of a row that is asked for is one.
LEMMA RowFormType ==
    ASSUME SheetTypes, NEW i \in Ids
    PROVE  RowForm(i) \in RowForms
  <1>1. CASE i = 0
    BY <1>1, RowIds, ValueTypes DEF RowForm, RowForms
  <1>2. CASE i # 0
    <2>1. stored[i] \in RowForms
      BY <1>2 DEF SheetTypes, Ids
    <2>2. RowForm(i) = [f \in Fields |-> stored[i][f]]
      BY <1>2 DEF RowForm
    <2>. QED BY <2>1, <2>2 DEF RowForms
  <1>. QED BY <1>1, <1>2

LEMMA AskedIsRequest ==
    ASSUME SheetTypes, NEW c \in Slots, slot[c].pc # "idle"
    PROVE  slot[c] \in Requests
  <1>1. slot[c] \in Requests \cup {NoRequest}
    BY DEF SheetTypes
  <1>. QED BY <1>1, NoRequestIdle

LEMMA RequestType ==
    ASSUME NEW op \in {"load", "save", "models"}, NEW i \in Ids, NEW values \in RowForms, NEW ids \in SUBSET Ids,
           NEW left \in Int
    PROVE  /\ Request(op, i, values, ids, left) \in Requests
           /\ Request(op, i, values, ids, left).pc = "sent" /\ Request(op, i, values, ids, left).op = op
           /\ Request(op, i, values, ids, left).id = i /\ Request(op, i, values, ids, left).values = values
           /\ Request(op, i, values, ids, left).left = left /\ Request(op, i, values, ids, left).kept = 0
           /\ Request(op, i, values, ids, left).answer = "ok"
  <1>1. BlankForm \in RowForms
    BY BlankFormType
  <1>2. 0 \in Nat
    OBVIOUS
  <1>. HIDE DEF RowForms, Ids
  <1>. QED BY <1>1, <1>2 DEF Request, Requests

\* A request is sent in an unused slot.
SentIn(c, r) == /\ slot[c].pc = "idle" /\ slot' = [slot EXCEPT ![c] = r]
                /\ slot'[c] = r /\ \A d \in Slots \ {c} : slot'[d] = slot[d]
LEMMA SentInSlot ==
    ASSUME SheetTypes, NEW c \in Slots, NEW r \in Requests, Send(c, r)
    PROVE  SentIn(c, r) /\ slot' \in [Slots -> Requests \cup {NoRequest}]
  <1>1. slot[c].pc = "idle" /\ slot' = [slot EXCEPT ![c] = r]
    BY DEF Send, FirstUnused, Unused
  <1>. QED BY <1>1 DEF SentIn, SheetTypes

LEMMA DoneWith ==
    ASSUME SheetTypes, NEW c \in Slots, Done(c)
    PROVE  /\ slot' \in [Slots -> Requests \cup {NoRequest}]
           /\ slot'[c] = NoRequest /\ slot'[c].pc = "idle" /\ \A d \in Slots \ {c} : slot'[d] = slot[d]
  BY NoRequestIdle DEF Done, SheetTypes

LEMMA RepeatsType ==
    ASSUME SheetTypes
    PROVE  /\ Repeats \in Int
           /\ kind \in {"channel", "user", "code", "newuser"} => Repeats = 1
  <1>1. Cardinality(Rows) \in Int /\ count \in Int
    BY RowsAssumption, FS_CardinalityType DEF SheetTypes
  <1>2. Repeats \in {count, Cardinality(Rows), 1}
    BY KindsAssumption DEF Repeats, SheetTypes
  <1>3. kind \in {"channel", "user", "code", "newuser"} => Repeats = 1
    BY DEF Repeats
  <1>. QED BY <1>1, <1>2, <1>3

\* What the sheet is set to.
LEMMA SheetSet ==
    ASSUME NEW s \in SheetState, NEW a \in BOOLEAN, NEW b \in BOOLEAN, NEW i \in Ids
    PROVE  /\ [s EXCEPT !.shown = TRUE] \in SheetState
           /\ [s EXCEPT !.shown = TRUE, !.id = i, !.busy = b] \in SheetState
           /\ [s EXCEPT !.busy = b] \in SheetState
           /\ [s EXCEPT !.busy = b, !.submitting = a] \in SheetState
           /\ Hidden(s) \in SheetState /\ Rested(s) \in SheetState
  <1>1. 0 \in Ids
    BY RowIds
  <1>. HIDE DEF Ids
  <1>. QED BY <1>1 DEF SheetState, Hidden, Rested

\* A field of the form that is set.
LEMMA FormSet ==
    ASSUME NEW f \in RowForms, NEW v \in FieldValues, NEW w \in FieldValues, NEW x \in FieldValues, NEW a, NEW b, NEW c
    PROVE  /\ [f EXCEPT ![a] = v] \in RowForms
           /\ [f EXCEPT ![a] = v, ![b] = w] \in RowForms
           /\ [f EXCEPT ![a] = v, ![b] = w, ![c] = x] \in RowForms
  BY DEF RowForms

LEMMA FormsSet ==
    ASSUME SheetTypes
    PROVE  /\ Emptied \in RowForms /\ Values \in RowForms /\ EmptyIfGone(form) \in RowForms
           /\ [form EXCEPT !.inputs = Blank] \in RowForms
  <1>1. form \in RowForms /\ Blank \in FieldValues
    BY ValueTypes DEF SheetTypes
  <1>2. Emptied \in {[form EXCEPT !.inputs = Blank, !.models = Blank, !.key = Blank],
                     [form EXCEPT !.inputs = Blank, !.models = Blank, !.groups = Blank], BlankForm}
    BY DEF Emptied
  <1>3. Emptied \in RowForms
    <2>1. /\ [form EXCEPT !.inputs = Blank, !.models = Blank, !.key = Blank] \in RowForms
          /\ [form EXCEPT !.inputs = Blank, !.models = Blank, !.groups = Blank] \in RowForms
      BY <1>1, FormSet
    <2>. QED BY <1>2, <2>1, BlankFormType
  <1>4. Values \in RowForms
    <2>1. CASE kind = "channel"
      <3>1. "config" \in Fields
        BY <2>1 DEF Fields, ChannelFields
      <3>2. form.config \in FieldValues
        BY <1>1, <3>1 DEF RowForms
      <3>3. [form EXCEPT !.key = form.config] \in RowForms
        BY <1>1, <3>2, FormSet
      <3>. QED BY <1>1, <3>3 DEF Values
    <2>2. CASE kind # "channel"
      BY <1>1, <2>2 DEF Values
    <2>. QED BY <2>1, <2>2
  <1>5. EmptyIfGone(form) \in RowForms
    BY <1>1, BlankFormType DEF EmptyIfGone
  <1>6. [form EXCEPT !.inputs = Blank] \in RowForms
    BY <1>1, FormSet
  <1>. QED BY <1>3, <1>4, <1>5, <1>6

LEMMA SheetTypesInit ==
    ASSUME SheetInit
    PROVE  SheetTypes
  <1>1. form \in RowForms
    BY BlankFormType DEF SheetInit
  <1>2. sheet \in SheetState
    BY RowIds DEF SheetInit, SheetState
  <1>3. stored \in [Rows -> RowForms]
    <2>1. \A i \in Rows : OfRow(i) \in FieldValues /\ Blank \in FieldValues
      BY RowIds, ValueTypes
    <2>. QED BY <2>1 DEF SheetInit, RowForms
  <1>4. Request("load", 0, BlankForm, {}, 0) \in Requests
    <2>1. \A op \in {"load", "save", "models"}, i \in Ids, v \in RowForms, s \in SUBSET Ids, n \in Int :
             Request(op, i, v, s, n) \in Requests
      BY RequestType
    <2>. QED BY <2>1, BlankFormType, RowIds
  <1>5. slot \in [Slots -> Requests \cup {NoRequest}]
    BY <1>4 DEF SheetInit
  <1>6. kind \in Kinds /\ count = 1 /\ unlisted = FALSE
    BY DEF SheetInit
  <1>7. count \in Int
    <2>1. count = 1
      BY <1>6
    <2>. QED BY <2>1
  <1>8. unlisted \in BOOLEAN
    <2>1. unlisted = FALSE
      BY <1>6
    <2>. QED BY <2>1
  <1>. QED BY <1>1, <1>2, <1>3, <1>5, <1>6, <1>7, <1>8 DEF SheetTypes

\* What the forms let one change is a field that is there.
LEMMA ChangeTypes ==
    ASSUME SheetTypes, Change
    PROVE  /\ form' \in RowForms
           /\ UNCHANGED <<kind, sheet, count, stored, unlisted, slot, events>>
           /\ \E f, g : form' = [form EXCEPT ![f] = Typed(sheet.id), ![g] = Typed(sheet.id)]
  <1>1. form \in RowForms /\ Typed(sheet.id) \in FieldValues
    BY ValueTypes DEF SheetTypes, SheetState
  <1>2. \/ \E f : TypeIn(f)
        \/ ChooseType
    BY DEF Change, TypeChannel, TypeKey, TypeConfig, Toggle, PickModels, TypeAll, PickGroupsOfAll, PickModelsOfAll,
           ToggleAll, TypeToken, PickGroup, TypeMyToken, TypeUser, TypeNewUser, TypeRedemption
  <1>3. \E f, g : form' = [form EXCEPT ![f] = Typed(sheet.id), ![g] = Typed(sheet.id)]
    <2>1. ASSUME NEW f, TypeIn(f) PROVE form' = [form EXCEPT ![f] = Typed(sheet.id), ![f] = Typed(sheet.id)]
      BY <1>1, <2>1 DEF TypeIn, RowForms
    <2>2. ASSUME ChooseType PROVE form' = [form EXCEPT !["inputs"] = Typed(sheet.id), !["models"] = Typed(sheet.id)]
      BY <2>2 DEF ChooseType
    <2>. QED BY <1>2, <2>1, <2>2
  <1>4. form' \in RowForms
    <2>1. PICK f, g : form' = [form EXCEPT ![f] = Typed(sheet.id), ![g] = Typed(sheet.id)]
      BY <1>3
    <2>2. \A v, w \in FieldValues : [form EXCEPT ![f] = v, ![g] = w] \in RowForms
      BY <1>1, FormSet
    <2>. QED BY <1>1, <2>1, <2>2
  <1>5. UNCHANGED <<kind, sheet, count, stored, unlisted, slot, events>>
    BY DEF Change
  <1>. QED BY <1>3, <1>4, <1>5

LEMMA OpenTypes ==
    ASSUME SheetTypes, Open
    PROVE  SheetTypes'
  <1>1. PICK i \in Ids :
        /\ ~sheet.shown
        /\ kind = "newuser" => i = 0
        /\ kind \in {"user", "batch"} => i # 0
        /\ IF i = sheet.id \/ kind = "newuser"
           THEN /\ sheet' = [sheet EXCEPT !.shown = TRUE]
                /\ Silent /\ UNCHANGED <<form, count, events>>
           ELSE /\ IF LoadsOn(i)
                   THEN /\ \E c \in Slots : Send(c, Request("load", i, BlankForm, {}, 0))
                        /\ events' = events \cup Late
                        /\ UNCHANGED form
                   ELSE /\ form' = Emptied
                        /\ events' = events \cup KeptBy(Emptied) \cup Late
                        /\ Silent
                /\ sheet' = [sheet EXCEPT !.shown = TRUE, !.id = i,
                                 !.busy = @ \/ (LoadsOn(i) /\ kind # "mytoken")]
                /\ count' = IF i = 0 /\ kind = "mytoken" THEN 1 ELSE count
        /\ UNCHANGED <<kind, stored, unlisted>>
    BY DEF Open, Ids
  <1>2. sheet \in SheetState /\ form \in RowForms /\ count \in Int
    BY DEF SheetTypes
  <1>3. sheet' \in SheetState
    <2>1. [sheet EXCEPT !.shown = TRUE] \in SheetState
      BY <1>2, SheetSet
    <2>2. \A b \in BOOLEAN : [sheet EXCEPT !.shown = TRUE, !.id = i, !.busy = b] \in SheetState
      BY <1>2, SheetSet
    <2>3. (sheet.busy \/ (LoadsOn(i) /\ kind # "mytoken")) \in BOOLEAN
      BY <1>2 DEF SheetState
    <2>. QED BY <1>1, <2>1, <2>2, <2>3
  <1>4. form' \in RowForms
    BY <1>1, <1>2, FormsSet
  <1>5. slot' \in [Slots -> Requests \cup {NoRequest}]
    <2>1. Request("load", i, BlankForm, {}, 0) \in Requests
      <3>1. \A op \in {"load", "save", "models"}, v \in RowForms, s \in SUBSET Ids, n \in Int :
               Request(op, i, v, s, n) \in Requests
        BY RequestType
      <3>. QED BY <3>1, BlankFormType
    <2>2. \A c \in Slots : Send(c, Request("load", i, BlankForm, {}, 0)) => slot' \in [Slots -> Requests \cup {NoRequest}]
      BY <2>1, SentInSlot
    <2>3. Silent => slot' \in [Slots -> Requests \cup {NoRequest}]
      BY DEF Silent, SheetTypes
    <2>. QED BY <1>1, <2>2, <2>3
  <1>6. count' \in Int
    BY <1>1, <1>2
  <1>7. Fields' = Fields
    BY <1>1 DEF Fields
  <1>. QED BY <1>1, <1>3, <1>4, <1>5, <1>6, <1>7 DEF SheetTypes, RowForms, Requests

\* A step that leaves the requests, or changes one.
LEMMA SheetTypesKept ==
    ASSUME SheetTypes, kind' = kind, sheet' \in SheetState, form' \in RowForms, count' \in Int,
           stored' \in [Rows -> RowForms], unlisted' \in BOOLEAN,
           slot' \in [Slots -> Requests \cup {NoRequest}]
    PROVE  SheetTypes'
  <1>1. Fields' = Fields
    BY DEF Fields
  <1>. QED BY <1>1 DEF SheetTypes, RowForms, Requests

LEMMA CloseTypes ==
    ASSUME SheetTypes, Cancel \/ TableRendered \/ FetchModels \/ Multiply \/ SubmitEmpty \/ Submit
    PROVE  SheetTypes'
  <1>1. /\ kind' = kind /\ stored' = stored /\ unlisted' = unlisted
        /\ stored \in [Rows -> RowForms] /\ unlisted \in BOOLEAN
        /\ sheet \in SheetState /\ form \in RowForms /\ count \in Int
    BY DEF SheetTypes, Cancel, TableRendered, FetchModels, Multiply, SubmitEmpty, Submit
  <1>2. sheet' \in SheetState
    <2>1. /\ Hidden(sheet) \in SheetState
          /\ \A a, b \in BOOLEAN : /\ [sheet EXCEPT !.busy = b] \in SheetState
                                   /\ [sheet EXCEPT !.busy = b, !.submitting = a] \in SheetState
      <3>1. \A a, b \in BOOLEAN, i \in Ids : /\ Hidden(sheet) \in SheetState
                                             /\ [sheet EXCEPT !.busy = b] \in SheetState
                                             /\ [sheet EXCEPT !.busy = b, !.submitting = a] \in SheetState
        BY <1>1, SheetSet
      <3>. QED BY <3>1, RowIds
    <2>2. (sheet.busy \/ kind \in {"token", "user", "code", "newuser"}) \in BOOLEAN /\ (kind = "mytoken") \in BOOLEAN
      BY <1>1 DEF SheetState
    <2>. QED BY <1>1, <2>1, <2>2 DEF Cancel, TableRendered, FetchModels, Multiply, SubmitEmpty, Submit
  <1>3. form' \in RowForms
    BY <1>1, FormsSet DEF Cancel, TableRendered, FetchModels, Multiply, SubmitEmpty, Submit
  <1>4. count' \in Int
    BY <1>1 DEF Cancel, TableRendered, FetchModels, Multiply, SubmitEmpty, Submit, CountIfGone
  <1>5. slot' \in [Slots -> Requests \cup {NoRequest}]
    <2>1. Silent => slot' \in [Slots -> Requests \cup {NoRequest}]
      BY DEF Silent, SheetTypes
    <2>2. ASSUME NEW c \in Slots, NEW op \in {"load", "models", "save"}, NEW v \in RowForms, NEW s \in SUBSET Ids, NEW n \in Int,
                 Send(c, Request(op, sheet.id, v, s, n))
          PROVE  slot' \in [Slots -> Requests \cup {NoRequest}]
      <3>1. sheet.id \in Ids
        BY <1>1 DEF SheetState
      <3>2. Request(op, sheet.id, v, s, n) \in Requests
        BY <3>1, RequestType
      <3>. QED BY <2>2, <3>2, SentInSlot
    <2>3. BlankForm \in RowForms /\ {} \in SUBSET Ids /\ 0 \in Int
      BY BlankFormType
    <2>4. (IF kind = "batch" THEN Rows ELSE {sheet.id}) \in SUBSET Ids /\ Values \in RowForms /\ Repeats \in Int
      BY <1>1, RowIds, FormsSet, RepeatsType DEF SheetState
    <2>5. CASE TableRendered
      BY <2>2, <2>3, <2>5 DEF TableRendered
    <2>6. CASE FetchModels
      BY <2>2, <2>3, <2>6 DEF FetchModels
    <2>7. CASE Submit
      BY <2>2, <2>4, <2>7 DEF Submit
    <2>. QED BY <2>1, <2>5, <2>6, <2>7 DEF Cancel, Multiply, SubmitEmpty
  <1>. QED BY <1>1, <1>2, <1>3, <1>4, <1>5, SheetTypesKept

\* The request of a slot is what it was, or one that may be.
SlotTyped == slot' \in [Slots -> Requests \cup {NoRequest}]
LEMMA SlotSet ==
    ASSUME SheetTypes, NEW c \in Slots, NEW r \in Requests, slot' = [slot EXCEPT ![c] = r]
    PROVE  SlotTyped
  BY DEF SlotTyped, SheetTypes

LEMMA TargetType ==
    ASSUME NEW r \in Requests, kind # "batch"
    PROVE  Target(r) = r.id /\ r.id \in Ids
  BY DEF Target, Requests

\* What the server does with a request.
LEMMA HandleSlot ==
    ASSUME SheetTypes, NEW c \in Slots, Handle(c)
    PROVE  /\ slot[c] \in Requests /\ slot[c].pc = "sent"
           /\ \/ slot' = [slot EXCEPT ![c] = [slot[c] EXCEPT !.pc = "back", !.data = RowForm(slot[c].id)]]
              \/ slot' = [slot EXCEPT ![c] = [slot[c] EXCEPT !.pc = "back"]]
  <1>1. slot[c].pc = "sent"
    BY DEF Handle
  <1>2. slot[c] \in Requests
    BY <1>1, AskedIsRequest
  <1>3. \/ slot' = [slot EXCEPT ![c].pc = "back", ![c].data = RowForm(slot[c].id)]
        \/ slot' = [slot EXCEPT ![c].pc = "back"]
    BY DEF Handle
  <1>4. slot \in [Slots -> Requests \cup {NoRequest}]
    BY DEF SheetTypes
  <1>5. \A d : [slot EXCEPT ![c].pc = "back", ![c].data = d] = [slot EXCEPT ![c] = [slot[c] EXCEPT !.pc = "back", !.data = d]]
    BY <1>4
  <1>6. [slot EXCEPT ![c].pc = "back"] = [slot EXCEPT ![c] = [slot[c] EXCEPT !.pc = "back"]]
    BY <1>4
  <1>. QED BY <1>1, <1>2, <1>3, <1>5, <1>6

LEMMA HandleTypes ==
    ASSUME SheetTypes, NEW c \in Slots, Handle(c)
    PROVE  SheetTypes'
  <1>1. /\ UNCHANGED <<kind, sheet, form, count>>
        /\ kind \in Kinds /\ sheet \in SheetState /\ form \in RowForms /\ count \in Int
        /\ stored \in [Rows -> RowForms] /\ unlisted \in BOOLEAN
    BY DEF SheetTypes, Handle
  <1>2. slot[c] \in Requests /\ slot[c].id \in Ids
    BY HandleSlot DEF Requests
  <1>3. RowForm(slot[c].id) \in RowForms
    BY <1>2, RowFormType
  <1>4. slot' \in [Slots -> Requests \cup {NoRequest}]
    <2>1. \A d \in RowForms : [slot[c] EXCEPT !.pc = "back", !.data = d] \in Requests
      <3>. HIDE DEF RowForms, Ids
      <3>. QED BY <1>2 DEF Requests
    <2>2. [slot[c] EXCEPT !.pc = "back"] \in Requests
      <3>. HIDE DEF RowForms, Ids
      <3>. QED BY <1>2 DEF Requests
    <2>3. [slot[c] EXCEPT !.pc = "back", !.data = RowForm(slot[c].id)] \in Requests
      BY <2>1, <1>3
    <2>4. \A r \in Requests : slot' = [slot EXCEPT ![c] = r] => SlotTyped
      BY SlotSet
    <2>5. SlotTyped
      BY <2>2, <2>3, <2>4, HandleSlot
    <2>. QED BY <2>5 DEF SlotTyped
  <1>5. unlisted' \in BOOLEAN
    BY <1>1 DEF Handle
  <1>6. stored' \in [Rows -> RowForms]
    <2>. DEFINE t == Target(slot[c])
                v == [f \in Fields |-> IF f = "group" THEN stored[t][f] ELSE slot[c].values[f]]
    <2>1. stored' = stored \/ (t # 0 /\ stored' = [stored EXCEPT ![t] = v])
      BY DEF Handle
    <2>2. slot[c].values \in RowForms
      BY <1>2 DEF Requests
    <2>3. ASSUME t \in Rows PROVE v \in RowForms
      <3>1. stored[t] \in RowForms
        BY <1>1, <2>3
      <3>. QED BY <2>2, <3>1 DEF RowForms
    <2>. HIDE DEF t, v
    <2>. QED BY <1>1, <2>1, <2>3
  <1>. QED BY <1>1, <1>4, <1>5, <1>6, SheetTypesKept

LEMMA TroubleSlot ==
    ASSUME SheetTypes, NEW c \in Slots, Trouble(c)
    PROVE  /\ slot[c] \in Requests
           /\ \E a \in {"refused", "broken"} :
                 /\ slot' = [slot EXCEPT ![c] = [slot[c] EXCEPT !.pc = "back", !.answer = a]]
                 /\ \/ events' = events \cup {a}
                    \/ a = "broken" /\ events' = events \cup {"lost"}
           /\ UNCHANGED <<kind, sheet, form, count, stored, unlisted>>
  <1>1. slot[c].pc \in {"sent", "back"}
    BY DEF Trouble
  <1>2. slot[c] \in Requests
    BY <1>1, AskedIsRequest
  <1>3. slot \in [Slots -> Requests \cup {NoRequest}]
    BY DEF SheetTypes
  <1>4. \A a : [slot EXCEPT ![c].pc = "back", ![c].answer = a] = [slot EXCEPT ![c] = [slot[c] EXCEPT !.pc = "back", !.answer = a]]
    BY <1>3
  <1>5. slot[c].pc = "back" =>
            [slot EXCEPT ![c].answer = "broken"] = [slot EXCEPT ![c] = [slot[c] EXCEPT !.pc = "back", !.answer = "broken"]]
    <2>. HIDE DEF RowForms, Ids
    <2>1. slot[c].pc = "back" => [slot[c] EXCEPT !.answer = "broken"] = [slot[c] EXCEPT !.pc = "back", !.answer = "broken"]
      BY <1>2 DEF Requests
    <2>2. [slot EXCEPT ![c].answer = "broken"] = [slot EXCEPT ![c] = [slot[c] EXCEPT !.answer = "broken"]]
      BY <1>3
    <2>. QED BY <2>1, <2>2
  <1>6. UNCHANGED <<kind, sheet, form, count, stored, unlisted>>
    BY DEF Trouble
  <1>7. \/ \E a \in {"refused", "broken"} : slot' = [slot EXCEPT ![c].pc = "back", ![c].answer = a] /\ events' = events \cup {a}
        \/ slot[c].pc = "back" /\ slot' = [slot EXCEPT ![c].answer = "broken"] /\ events' = events \cup {"lost"}
    BY DEF Trouble
  <1>. QED BY <1>2, <1>4, <1>5, <1>6, <1>7

LEMMA TroubleTypes ==
    ASSUME SheetTypes, NEW c \in Slots, Trouble(c)
    PROVE  SheetTypes'
  <1>1. slot[c] \in Requests
    BY TroubleSlot
  <1>2. \A a \in {"refused", "broken"} : [slot[c] EXCEPT !.pc = "back", !.answer = a] \in Requests
    <2>. HIDE DEF RowForms, Ids
    <2>. QED BY <1>1 DEF Requests
  <1>3. \A r \in Requests : slot' = [slot EXCEPT ![c] = r] => SlotTyped
    BY SlotSet
  <1>4. SlotTyped
    BY <1>2, <1>3, TroubleSlot
  <1>5. UNCHANGED <<kind, sheet, form, count, stored, unlisted>>
    BY TroubleSlot
  <1>. QED BY <1>4, <1>5, SheetTypesKept DEF SlotTyped, SheetTypes

\* The next of several rows is saved.
LEMMA SavedOneSlot ==
    ASSUME SheetTypes, NEW c \in Slots, SavedOne(c)
    PROVE  \E r \in Requests :
              /\ slot[c] \in Requests /\ slot' = [slot EXCEPT ![c] = r]
              /\ r.pc = "sent" /\ r.op = "save" /\ r.id = slot[c].id /\ r.values = slot[c].values /\ r.answer = "ok"
              /\ slot[c].pc = "back" /\ slot[c].op = "save" /\ slot[c].left # 1
              /\ Fine(c) \/ slot[c].kept > 0 => r.kept > 0
  <1>1. slot[c].pc = "back" /\ slot[c].op = "save" /\ slot[c].left > 1
    BY DEF SavedOne, Back, GoesOn
  <1>2. slot[c] \in Requests
    BY <1>1, AskedIsRequest
  <1>. DEFINE i == IF kind = "batch" THEN slot[c].ids \ {Target(slot[c])} ELSE slot[c].ids
              x == slot[c].fails + IF Fine(c) THEN 0 ELSE 1
              k == slot[c].kept + IF Fine(c) THEN 1 ELSE 0
              r == [slot[c] EXCEPT !.pc = "sent", !.left = slot[c].left - 1, !.answer = "ok",
                                   !.ids = i, !.fails = x, !.kept = k]
  <1>3. slot \in [Slots -> Requests \cup {NoRequest}]
    BY DEF SheetTypes
  <1>4. slot' = [slot EXCEPT ![c] = r]
    BY <1>3 DEF SavedOne
  <1>5. i \in SUBSET Ids /\ slot[c].left - 1 \in Int
    BY <1>2 DEF Requests
  <1>6. slot[c].fails \in Nat /\ slot[c].kept \in Nat /\ slot[c].left \in Int
    BY <1>2 DEF Requests
  <1>7. x \in Nat /\ k \in Nat /\ (Fine(c) \/ slot[c].kept > 0 => k > 0)
    <2>1. \A n, m \in Nat, b \in BOOLEAN : /\ n + (IF b THEN 0 ELSE 1) \in Nat /\ m + (IF b THEN 1 ELSE 0) \in Nat
                                           /\ b \/ m > 0 => m + (IF b THEN 1 ELSE 0) > 0
      OBVIOUS
    <2>2. Fine(c) \in BOOLEAN
      BY DEF Fine
    <2>. HIDE DEF Fine
    <2>. QED BY <2>1, <2>2, <1>6
  <1>8. slot[c].left # 1
    BY <1>1, <1>6
  <1>. HIDE DEF i, x, k
  <1>9. /\ r \in Requests /\ r.kept = k
        /\ r.pc = "sent" /\ r.op = slot[c].op /\ r.id = slot[c].id /\ r.values = slot[c].values /\ r.answer = "ok"
    <2>. HIDE DEF RowForms, Ids
    <2>. QED BY <1>2, <1>5, <1>7 DEF Requests
  <1>. HIDE DEF r
  <1>. QED BY <1>1, <1>2, <1>4, <1>7, <1>8, <1>9

LEMMA SavedOneTypes ==
    ASSUME SheetTypes, NEW c \in Slots, SavedOne(c)
    PROVE  SheetTypes'
  <1>1. SlotTyped
    <2>1. \A r \in Requests : slot' = [slot EXCEPT ![c] = r] => SlotTyped
      BY SlotSet
    <2>. QED BY <2>1, SavedOneSlot
  <1>2. UNCHANGED <<kind, sheet, form, count, stored, unlisted>>
    BY DEF SavedOne
  <1>. QED BY <1>1, <1>2, SheetTypesKept DEF SlotTyped, SheetTypes

\* A request that ended.
LEMMA FilledType ==
    ASSUME SheetTypes, NEW c \in Slots, slot[c].pc = "back"
    PROVE  Filled(c) \in RowForms
  <1>1. slot[c].data \in RowForms
    BY AskedIsRequest DEF Requests
  <1>2. form \in RowForms
    BY DEF SheetTypes
  <1>. QED BY <1>1, <1>2 DEF Filled, RowForms

LEMMA AnsweredTypes ==
    ASSUME SheetTypes, NEW c \in Slots, Loaded(c) \/ ModelsFetched(c) \/ AllSaved(c) \/ Aborted(c)
    PROVE  SheetTypes' /\ slot[c] \in Requests /\ slot[c].pc = "back"
  <1>1. slot[c].pc = "back"
    BY DEF Loaded, ModelsFetched, AllSaved, Aborted, Back
  <1>2. slot[c] \in Requests
    BY <1>1, AskedIsRequest
  <1>3. /\ kind' = kind /\ stored' = stored
        /\ stored \in [Rows -> RowForms] /\ unlisted \in BOOLEAN
        /\ sheet \in SheetState /\ form \in RowForms /\ count \in Int
    BY DEF SheetTypes, Loaded, ModelsFetched, AllSaved, Aborted
  <1>4. slot' \in [Slots -> Requests \cup {NoRequest}]
    BY DoneWith DEF Loaded, ModelsFetched, AllSaved, Aborted
  <1>5. unlisted' \in BOOLEAN
    BY <1>3 DEF Loaded, ModelsFetched, AllSaved, Aborted, Unrefreshed
  <1>6. count' \in Int
    BY <1>3 DEF Loaded, ModelsFetched, AllSaved, Aborted, CountIfGone
  <1>7. sheet' \in SheetState
    <2>1. \A s \in SheetState, b \in BOOLEAN : [s EXCEPT !.busy = b] \in SheetState /\ Hidden(s) \in SheetState /\ Rested(s) \in SheetState
      <3>1. \A s \in SheetState, a, b \in BOOLEAN, i \in Ids :
               [s EXCEPT !.busy = b] \in SheetState /\ Hidden(s) \in SheetState /\ Rested(s) \in SheetState
        BY SheetSet
      <3>. QED BY <3>1, RowIds
    <2>2. (sheet.busy /\ kind = "mytoken") \in BOOLEAN
      BY <1>3 DEF SheetState
    <2>3. Loaded(c) => sheet' = [sheet EXCEPT !.busy = (sheet.busy /\ kind = "mytoken")]
      BY DEF Loaded
    <2>4. AllSaved(c) => sheet' \in {Rested(Hidden(sheet)), Rested(sheet)}
      BY DEF AllSaved
    <2>5. ModelsFetched(c) \/ Aborted(c) => sheet' = sheet
      BY DEF ModelsFetched, Aborted
    <2>. QED BY <1>3, <2>1, <2>2, <2>3, <2>4, <2>5
  <1>8. form' \in RowForms
    <2>1. Loaded(c) => form' \in {Filled(c), form}
      BY DEF Loaded
    <2>2. ModelsFetched(c) => form' = form \/ form' = [form EXCEPT !.models = Typed(slot[c].id)]
      BY DEF ModelsFetched
    <2>3. [form EXCEPT !.models = Typed(slot[c].id)] \in RowForms
      <3>1. slot[c].id \in Ids
        BY <1>2 DEF Requests
      <3>2. \A v \in FieldValues : [form EXCEPT !["models"] = v] \in RowForms
        BY <1>3, FormSet, ValueTypes
      <3>. QED BY <3>1, <3>2, ValueTypes
    <2>4. AllSaved(c) => form' \in {[form EXCEPT !.inputs = Blank], Emptied, EmptyIfGone(form), form}
      BY DEF AllSaved
    <2>5. Aborted(c) => form' = form
      BY DEF Aborted
    <2>. QED BY <1>1, <1>3, <2>1, <2>2, <2>3, <2>4, <2>5, FormsSet, FilledType
  <1>. QED BY <1>1, <1>2, <1>3, <1>4, <1>5, <1>6, <1>7, <1>8, SheetTypesKept DEF SheetTypes

LEMMA SheetTypesStep ==
    ASSUME SheetTypes, SheetStep
    PROVE  SheetTypes'
  <1>1. CASE Change
    BY <1>1, ChangeTypes, SheetTypesKept DEF SheetTypes
  <1>2. CASE Cancel \/ TableRendered \/ FetchModels \/ Multiply \/ SubmitEmpty \/ Submit
    BY <1>2, CloseTypes
  <1>3. CASE Open
    BY <1>3, OpenTypes
  <1>4. ASSUME NEW c \in Slots, Handle(c) PROVE SheetTypes'
    BY <1>4, HandleTypes
  <1>5. ASSUME NEW c \in Slots, Trouble(c) PROVE SheetTypes'
    BY <1>5, TroubleTypes
  <1>6. ASSUME NEW c \in Slots, SavedOne(c) PROVE SheetTypes'
    BY <1>6, SavedOneTypes
  <1>7. ASSUME NEW c \in Slots, Loaded(c) \/ ModelsFetched(c) \/ AllSaved(c) \/ Aborted(c) PROVE SheetTypes'
    BY <1>7, AnsweredTypes
  <1>. QED BY <1>1, <1>2, <1>3, <1>4, <1>5, <1>6, <1>7 DEF SheetStep

-----------------------------------------------------------------------------
(* The sheets: the table is refreshed, the indicator goes off              *)

Single == {"channel", "user", "code", "newuser"}
Told(S) == events \cap S # {}
Waits(c, op) == slot[c].pc # "idle" /\ slot[c].op = op
\* A row was changed by a submit that will still end well, or have to say that it did in part.
WillList(c) == Waits(c, "save") /\ (slot[c].kept > 0 \/ (slot[c].pc = "back" /\ slot[c].answer = "ok"))
SheetEnding ==
    /\ kind \in Single => \A c \in Slots : Waits(c, "save") => slot[c].left = 1 /\ slot[c].kept = 0
    /\ \A c \in Slots : /\ slot[c].pc = "sent" => slot[c].answer = "ok"
                        /\ slot[c].pc = "back" /\ slot[c].answer = "broken" => Told({"broken", "lost"})
    /\ unlisted => Told({"partial", "lost"}) \/ \E c \in Slots : WillList(c)
    /\ sheet.busy => \/ Told({"broken", "lost", "incomplete"})
                     \/ kind # "mytoken" /\ \E c \in Slots : Waits(c, "load") \/ Waits(c, "save")

\* Nothing that happened is forgotten.
LEMMA EventsGrow ==
    ASSUME SheetStep
    PROVE  /\ kind' = kind /\ \A S : Told(S) => Told(S)'
  <1>1. events \subseteq events' /\ kind' = kind
    <2>1. CASE Open \/ Cancel \/ TableRendered \/ Change
      BY <2>1 DEF Open, Cancel, TableRendered, Change, Silent
    <2>2. CASE FetchModels \/ Multiply \/ Submit \/ SubmitEmpty
      BY <2>2 DEF FetchModels, Multiply, Submit, SubmitEmpty, Silent
    <2>3. ASSUME NEW c \in Slots, Handle(c) \/ Trouble(c) PROVE events \subseteq events' /\ kind' = kind
      BY <2>3 DEF Handle, Trouble
    <2>4. ASSUME NEW c \in Slots, Loaded(c) \/ ModelsFetched(c) PROVE events \subseteq events' /\ kind' = kind
      BY <2>4 DEF Loaded, ModelsFetched
    <2>5. ASSUME NEW c \in Slots, SavedOne(c) \/ AllSaved(c) \/ Aborted(c) PROVE events \subseteq events' /\ kind' = kind
      BY <2>5 DEF SavedOne, AllSaved, Aborted
    <2>. QED BY <2>1, <2>2, <2>3, <2>4, <2>5 DEF SheetStep
  <1>. QED BY <1>1 DEF Told

LEMMA SheetEndingInit ==
    ASSUME SheetInit
    PROVE  SheetEnding
  <1>1. sheet.busy = FALSE /\ unlisted = FALSE
    BY DEF SheetInit
  <1>2. \A c \in Slots : slot[c] = NoRequest \/ slot[c] = Request("load", 0, BlankForm, {}, 0)
    BY DEF SheetInit
  <1>3. \A c \in Slots : /\ ~Waits(c, "save") /\ slot[c].pc # "back"
                         /\ slot[c].pc = "sent" => slot[c].answer = "ok"
    BY <1>2 DEF NoRequest, Request, Waits
  <1>. QED BY <1>1, <1>3 DEF SheetEnding

\* A step that sends, or sends nothing, and changes no row.
LEMMA EndingSent ==
    ASSUME SheetTypes, SheetEnding, SheetStep, UNCHANGED unlisted,
           \/ UNCHANGED slot
           \/ \E c \in Slots, r \in Requests : /\ SentIn(c, r) /\ r.pc = "sent" /\ r.answer = "ok"
                                               /\ kind \in Single => r.left = 1 \/ r.op # "save"
                                               /\ r.kept = 0,
           \/ sheet'.busy = sheet.busy
           \/ Told({"broken", "lost", "incomplete"})'
           \/ kind # "mytoken" /\ \E c \in Slots : Waits(c, "load")' \/ Waits(c, "save")'
    PROVE  SheetEnding'
  <1>1. kind' = kind /\ \A S : Told(S) => Told(S)'
    BY EventsGrow
  <1>2. \A c \in Slots : \/ slot'[c] = slot[c]
                         \/ /\ slot[c].pc = "idle" /\ slot'[c].pc = "sent" /\ slot'[c].answer = "ok" /\ slot'[c].kept = 0
                            /\ kind \in Single => slot'[c].left = 1 \/ slot'[c].op # "save"
    BY DEF SentIn
  <1>3. kind \in Single => \A c \in Slots : Waits(c, "save")' => slot'[c].left = 1 /\ slot'[c].kept = 0
    BY <1>2 DEF SheetEnding, Waits
  <1>4. \A c \in Slots : /\ slot'[c].pc = "sent" => slot'[c].answer = "ok"
                         /\ slot'[c].pc = "back" /\ slot'[c].answer = "broken" => Told({"broken", "lost"})'
    BY <1>1, <1>2 DEF SheetEnding
  <1>5. \A c \in Slots : /\ Waits(c, "load") => Waits(c, "load")'
                         /\ Waits(c, "save") => Waits(c, "save")'
                         /\ WillList(c) => WillList(c)'
    BY <1>2 DEF Waits, WillList
  <1>6. unlisted' => Told({"partial", "lost"})' \/ \E c \in Slots : WillList(c)'
    <2>1. unlisted => Told({"partial", "lost"}) \/ \E c \in Slots : WillList(c)
      BY DEF SheetEnding
    <2>. QED BY <1>1, <1>5, <2>1
  <1>7. sheet'.busy => \/ Told({"broken", "lost", "incomplete"})'
                       \/ kind' # "mytoken" /\ \E c \in Slots : Waits(c, "load")' \/ Waits(c, "save")'
    <2>1. sheet.busy => \/ Told({"broken", "lost", "incomplete"})
                        \/ kind # "mytoken" /\ \E c \in Slots : Waits(c, "load") \/ Waits(c, "save")
      BY DEF SheetEnding
    <2>. QED BY <1>1, <1>5, <2>1
  <1>. QED BY <1>1, <1>3, <1>4, <1>6, <1>7 DEF SheetEnding

\* A request that is sent.
SentNow(c, op, i, values, n) ==
    \E r \in Requests : /\ SentIn(c, r) /\ r.pc = "sent" /\ r.answer = "ok" /\ r.kept = 0
                        /\ r.op = op /\ r.id = i /\ r.values = values /\ r.left = n
LEMMA SendSends ==
    ASSUME SheetTypes, NEW c \in Slots, NEW op \in {"load", "save", "models"}, NEW i \in Ids, NEW v \in RowForms,
           NEW s \in SUBSET Ids, NEW n \in Int, Send(c, Request(op, i, v, s, n))
    PROVE  SentNow(c, op, i, v, n)
  <1>1. /\ Request(op, i, v, s, n) \in Requests
        /\ Request(op, i, v, s, n).pc = "sent" /\ Request(op, i, v, s, n).op = op
        /\ Request(op, i, v, s, n).id = i /\ Request(op, i, v, s, n).values = v
        /\ Request(op, i, v, s, n).left = n /\ Request(op, i, v, s, n).kept = 0
        /\ Request(op, i, v, s, n).answer = "ok"
    BY RequestType
  <1>2. SentIn(c, Request(op, i, v, s, n))
    BY <1>1, SentInSlot
  <1>. HIDE DEF Requests
  <1>. QED BY <1>1, <1>2 DEF SentNow

\* What is sent waits.
LEMMA SentWaits ==
    ASSUME SheetTypes, NEW c \in Slots, NEW op \in {"load", "save", "models"}, NEW i, NEW v, NEW n, SentNow(c, op, i, v, n)
    PROVE  Waits(c, op)' /\ ~Waits(c, op) /\ \A d \in Slots \ {c} : slot'[d] = slot[d]
  BY DEF SentNow, SentIn, Waits

\* Which request each step of the sheet sends.
LEMMA OpenSends ==
    ASSUME SheetTypes, Open
    PROVE  \/ /\ UNCHANGED <<slot, form, events>> /\ sheet'.busy = sheet.busy /\ sheet'.id = sheet.id
           \/ /\ UNCHANGED slot /\ sheet'.busy = sheet.busy /\ sheet'.id = 0 /\ events' = events \cup KeptBy(Emptied) \cup Late
           \/ /\ \E c \in Slots : SentNow(c, "load", sheet'.id, BlankForm, 0)
              /\ UNCHANGED form /\ events' = events \cup Late
              /\ sheet'.busy = (sheet.busy \/ kind # "mytoken")
  <1>1. PICK i \in Ids :
        /\ IF i = sheet.id \/ kind = "newuser"
           THEN /\ sheet' = [sheet EXCEPT !.shown = TRUE]
                /\ Silent /\ UNCHANGED <<form, count, events>>
           ELSE /\ IF LoadsOn(i)
                   THEN /\ \E c \in Slots : Send(c, Request("load", i, BlankForm, {}, 0))
                        /\ events' = events \cup Late
                        /\ UNCHANGED form
                   ELSE /\ form' = Emptied
                        /\ events' = events \cup KeptBy(Emptied) \cup Late
                        /\ Silent
                /\ sheet' = [sheet EXCEPT !.shown = TRUE, !.id = i,
                                 !.busy = @ \/ (LoadsOn(i) /\ kind # "mytoken")]
    BY DEF Open, Ids
  <1>2. sheet \in SheetState
    BY DEF SheetTypes
  <1>3. CASE i = sheet.id \/ kind = "newuser"
    <2>1. sheet' = [sheet EXCEPT !.shown = TRUE] /\ UNCHANGED <<slot, form, events>>
      BY <1>1, <1>3 DEF Silent
    <2>2. sheet'.busy = sheet.busy /\ sheet'.id = sheet.id
      <3>. HIDE DEF Ids
      <3>. QED BY <1>2, <2>1 DEF SheetState
    <2>. QED BY <2>1, <2>2
  <1>4. ASSUME ~(i = sheet.id \/ kind = "newuser")
        PROVE  sheet'.id = i /\ sheet'.busy = (sheet.busy \/ (LoadsOn(i) /\ kind # "mytoken"))
    <2>1. sheet' = [sheet EXCEPT !.shown = TRUE, !.id = i, !.busy = (sheet.busy \/ (LoadsOn(i) /\ kind # "mytoken"))]
      BY <1>1, <1>4
    <2>2. \A b : LET s == [sheet EXCEPT !.shown = TRUE, !.id = i, !.busy = b] IN s.id = i /\ s.busy = b
      <3>. HIDE DEF Ids
      <3>. QED BY <1>2 DEF SheetState
    <2>. QED BY <2>1, <2>2
  <1>5. CASE ~(i = sheet.id \/ kind = "newuser") /\ LoadsOn(i)
    <2>1. PICK c \in Slots : Send(c, Request("load", i, BlankForm, {}, 0))
      BY <1>1, <1>5
    <2>2. SentNow(c, "load", i, BlankForm, 0)
      <3>1. \A op \in {"load", "save", "models"}, v \in RowForms, s \in SUBSET Ids, n \in Int :
               Send(c, Request(op, i, v, s, n)) => SentNow(c, op, i, v, n)
        BY SendSends
      <3>. QED BY <2>1, <3>1, BlankFormType
    <2>3. sheet'.id = i /\ sheet'.busy = (sheet.busy \/ kind # "mytoken")
      BY <1>4, <1>5
    <2>4. UNCHANGED form /\ events' = events \cup Late
      BY <1>1, <1>5
    <2>. QED BY <2>2, <2>3, <2>4
  <1>6. CASE ~(i = sheet.id \/ kind = "newuser") /\ ~LoadsOn(i)
    <2>1. i = 0
      BY <1>6 DEF LoadsOn
    <2>2. sheet.busy \in BOOLEAN
      BY <1>2 DEF SheetState
    <2>3. sheet'.id = 0 /\ sheet'.busy = sheet.busy
      BY <1>4, <1>6, <2>1, <2>2
    <2>4. UNCHANGED slot /\ events' = events \cup KeptBy(Emptied) \cup Late
      BY <1>1, <1>6 DEF Silent
    <2>. QED BY <2>3, <2>4
  <1>. QED BY <1>3, <1>5, <1>6

LEMMA SubmitSends ==
    ASSUME SheetTypes, Submit
    PROVE  /\ \E c \in Slots : SentNow(c, "save", sheet.id, Values, Repeats)
           /\ form' = Values /\ sheet'.id = sheet.id
           /\ events' = events \cup Late \cup {e \in {"suffixed"} : kind = "mytoken" /\ sheet.id # 0 /\ count > 1}
           /\ sheet'.busy => sheet.busy \/ kind # "mytoken"
  <1>1. PICK c \in Slots : Send(c, Request("save", sheet.id, Values, IF kind = "batch" THEN Rows ELSE {sheet.id}, Repeats))
    BY DEF Submit
  <1>2. (IF kind = "batch" THEN Rows ELSE {sheet.id}) \in SUBSET Ids /\ Values \in RowForms /\ Repeats \in Int /\ sheet.id \in Ids
    BY RowIds, FormsSet, RepeatsType DEF SheetTypes, SheetState
  <1>3. SentNow(c, "save", sheet.id, Values, Repeats)
    <2>1. \A op \in {"load", "save", "models"}, i \in Ids, v \in RowForms, s \in SUBSET Ids, n \in Int :
             Send(c, Request(op, i, v, s, n)) => SentNow(c, op, i, v, n)
      BY SendSends
    <2>. HIDE DEF Ids, Values, Repeats
    <2>. QED BY <1>1, <1>2, <2>1
  <1>4. sheet' = [sheet EXCEPT !.busy = sheet.busy \/ kind \in {"token", "user", "code", "newuser"},
                               !.submitting = (kind = "mytoken")]
    BY DEF Submit
  <1>5. sheet \in SheetState
    BY DEF SheetTypes
  <1>6. sheet'.id = sheet.id /\ sheet'.busy = (sheet.busy \/ kind \in {"token", "user", "code", "newuser"})
    <2>. HIDE DEF Ids
    <2>. QED BY <1>4, <1>5 DEF SheetState
  <1>. QED BY <1>3, <1>6 DEF Submit

LEMMA OtherSends ==
    ASSUME SheetTypes
    PROVE  /\ TableRendered => kind = "batch" /\ \E c \in Slots : SentNow(c, "load", sheet.id, BlankForm, 0)
           /\ FetchModels => \E c \in Slots : SentNow(c, "models", sheet.id, BlankForm, 0)
  <1>1. sheet.id \in Ids /\ BlankForm \in RowForms /\ {} \in SUBSET Ids /\ 0 \in Int
    BY BlankFormType DEF SheetTypes, SheetState
  <1>2. \A c \in Slots, op \in {"load", "save", "models"}, i \in Ids, v \in RowForms, s \in SUBSET Ids, n \in Int :
           Send(c, Request(op, i, v, s, n)) => SentNow(c, op, i, v, n)
    BY SendSends
  <1>3. \A c \in Slots : /\ Send(c, Request("load", sheet.id, BlankForm, {}, 0)) => SentNow(c, "load", sheet.id, BlankForm, 0)
                         /\ Send(c, Request("models", sheet.id, BlankForm, {}, 0)) => SentNow(c, "models", sheet.id, BlankForm, 0)
    BY <1>1, <1>2
  <1>. QED BY <1>3 DEF TableRendered, FetchModels

\* A step that sends a request, or none.
LEMMA SendingEnds ==
    ASSUME SheetTypes, SheetEnding,
           Open \/ Cancel \/ TableRendered \/ Change \/ FetchModels \/ Multiply \/ Submit \/ SubmitEmpty
    PROVE  SheetEnding'
  <1>1. SheetStep /\ UNCHANGED unlisted
    BY DEF SheetStep, Open, Cancel, TableRendered, Change, FetchModels, Multiply, Submit, SubmitEmpty
  <1>2. sheet \in SheetState
    BY DEF SheetTypes
  <1>3. \A i, v, n : \A c \in Slots, op \in {"load", "save", "models"} :
           SentNow(c, op, i, v, n) /\ (kind \in Single => n = 1 \/ op # "save") =>
               \E r \in Requests : /\ SentIn(c, r) /\ r.pc = "sent" /\ r.answer = "ok"
                                   /\ kind \in Single => r.left = 1 \/ r.op # "save"
                                   /\ r.kept = 0
    BY DEF SentNow
  <1>4. \A i, v, n : \A c \in Slots, op \in {"load", "save", "models"} : SentNow(c, op, i, v, n) => Waits(c, op)'
    BY SentWaits
  <1>5. CASE UNCHANGED slot /\ sheet'.busy = sheet.busy
    BY <1>1, <1>5, EndingSent
  <1>6. CASE Open
    <2>1. CASE \E c \in Slots : SentNow(c, "load", sheet'.id, BlankForm, 0) /\ sheet'.busy = (sheet.busy \/ kind # "mytoken")
      <3>1. PICK c \in Slots : SentNow(c, "load", sheet'.id, BlankForm, 0) /\ sheet'.busy = (sheet.busy \/ kind # "mytoken")
        BY <2>1
      <3>2. \E r \in Requests : /\ SentIn(c, r) /\ r.pc = "sent" /\ r.answer = "ok"
                                /\ kind \in Single => r.left = 1 \/ r.op # "save"
                                /\ r.kept = 0
        BY <1>3, <3>1
      <3>3. Waits(c, "load")'
        BY <1>4, <3>1
      <3>4. \/ sheet'.busy = sheet.busy
            \/ kind # "mytoken" /\ \E d \in Slots : Waits(d, "load")' \/ Waits(d, "save")'
        <4>1. sheet.busy \in BOOLEAN
          BY <1>2 DEF SheetState
        <4>. QED BY <3>1, <3>3, <4>1
      <3>. QED BY <1>1, <3>2, <3>4, EndingSent
    <2>. QED BY <1>5, <1>6, <2>1, OpenSends
  <1>7. CASE Submit
    <2>1. PICK c \in Slots : SentNow(c, "save", sheet.id, Values, Repeats)
      BY <1>7, SubmitSends
    <2>2. kind \in Single => Repeats = 1
      BY RepeatsType DEF Single
    <2>3. \E r \in Requests : /\ SentIn(c, r) /\ r.pc = "sent" /\ r.answer = "ok"
                              /\ kind \in Single => r.left = 1 \/ r.op # "save"
                              /\ r.kept = 0
      BY <1>3, <2>1, <2>2
    <2>4. Waits(c, "save")'
      BY <1>4, <2>1
    <2>5. \/ sheet'.busy = sheet.busy
          \/ kind # "mytoken" /\ \E d \in Slots : Waits(d, "load")' \/ Waits(d, "save")'
      <3>1. sheet' = [sheet EXCEPT !.busy = sheet.busy \/ kind \in {"token", "user", "code", "newuser"},
                                   !.submitting = (kind = "mytoken")]
        BY <1>7 DEF Submit
      <3>2. sheet'.busy = (sheet.busy \/ kind \in {"token", "user", "code", "newuser"}) /\ sheet.busy \in BOOLEAN
        <4>. HIDE DEF Ids
        <4>. QED BY <1>2, <3>1 DEF SheetState
      <3>. QED BY <2>4, <3>2
    <2>. QED BY <1>1, <2>3, <2>5, EndingSent
  <1>8. CASE FetchModels
    <2>1. PICK c \in Slots : SentNow(c, "models", sheet.id, BlankForm, 0)
      BY <1>8, OtherSends
    <2>2. \E r \in Requests : /\ SentIn(c, r) /\ r.pc = "sent" /\ r.answer = "ok"
                              /\ kind \in Single => r.left = 1 \/ r.op # "save"
                              /\ r.kept = 0
      BY <1>3, <2>1
    <2>3. sheet'.busy = sheet.busy
      BY <1>8 DEF FetchModels
    <2>. QED BY <1>1, <2>2, <2>3, EndingSent
  <1>9. CASE TableRendered
    <2>1. PICK c \in Slots : SentNow(c, "load", sheet.id, BlankForm, 0) /\ kind = "batch"
      BY <1>9, OtherSends
    <2>2. \E r \in Requests : /\ SentIn(c, r) /\ r.pc = "sent" /\ r.answer = "ok"
                              /\ kind \in Single => r.left = 1 \/ r.op # "save"
                              /\ r.kept = 0
      BY <1>3, <2>1
    <2>3. kind # "mytoken" /\ \E d \in Slots : Waits(d, "load")' \/ Waits(d, "save")'
      BY <1>4, <2>1
    <2>. QED BY <1>1, <2>2, <2>3, EndingSent
  <1>10. CASE SubmitEmpty
    <2>1. UNCHANGED slot /\ Told({"broken", "lost", "incomplete"})'
      BY <1>10 DEF SubmitEmpty, Silent, Told
    <2>. QED BY <1>1, <2>1, EndingSent
  <1>11. CASE Cancel \/ Change \/ Multiply
    <2>1. UNCHANGED slot
      BY <1>11 DEF Cancel, Change, Multiply, Silent
    <2>2. Hidden(sheet).busy = sheet.busy
      <3>. HIDE DEF Ids
      <3>. QED BY <1>2 DEF Hidden, SheetState
    <2>3. sheet'.busy = sheet.busy
      BY <1>11, <2>2 DEF Cancel, Change, Multiply
    <2>. QED BY <1>5, <2>1, <2>3
  <1>. QED BY <1>6, <1>7, <1>8, <1>9, <1>10, <1>11

\* The server, and what goes wrong on the way to it.
LEMMA HandlingEnds ==
    ASSUME SheetTypes, SheetEnding, NEW c \in Slots, Handle(c)
    PROVE  SheetEnding'
  <1>1. kind' = kind /\ \A S : Told(S) => Told(S)'
    BY EventsGrow DEF SheetStep
  <1>2. slot[c] \in Requests /\ slot[c].pc = "sent" /\ slot[c].answer = "ok"
    BY HandleSlot DEF SheetEnding
  <1>3. /\ slot'[c].pc = "back" /\ slot'[c].op = slot[c].op /\ slot'[c].left = slot[c].left
        /\ slot'[c].kept = slot[c].kept /\ slot'[c].answer = slot[c].answer
        /\ \A d \in Slots \ {c} : slot'[d] = slot[d]
    <2>1. slot \in [Slots -> Requests \cup {NoRequest}]
      BY DEF SheetTypes
    <2>. DEFINE Keeps(r) == r.pc = "back" /\ r.op = slot[c].op /\ r.left = slot[c].left /\ r.kept = slot[c].kept /\ r.answer = slot[c].answer
    <2>2. \E r : slot' = [slot EXCEPT ![c] = r] /\ Keeps(r)
      <3>. HIDE DEF Ids, RowForms
      <3>1. \A x : Keeps([slot[c] EXCEPT !.pc = "back", !.data = x])
        BY <1>2 DEF Requests
      <3>2. Keeps([slot[c] EXCEPT !.pc = "back"])
        BY <1>2 DEF Requests
      <3>. HIDE DEF Requests, Keeps
      <3>. QED BY <3>1, <3>2, HandleSlot
    <2>. QED BY <2>1, <2>2
  <1>4. \A d \in Slots : /\ Waits(d, "load") => Waits(d, "load")'
                         /\ Waits(d, "save") <=> Waits(d, "save")'
                         /\ WillList(d) => WillList(d)'
    BY <1>2, <1>3 DEF Waits, WillList
  <1>5. kind \in Single => \A d \in Slots : Waits(d, "save")' => slot'[d].left = 1 /\ slot'[d].kept = 0
    BY <1>3, <1>4 DEF SheetEnding
  <1>6. \A d \in Slots : /\ slot'[d].pc = "sent" => slot'[d].answer = "ok"
                         /\ slot'[d].pc = "back" /\ slot'[d].answer = "broken" => Told({"broken", "lost"})'
    BY <1>1, <1>2, <1>3 DEF SheetEnding
  <1>7. unlisted' => Told({"partial", "lost"})' \/ \E d \in Slots : WillList(d)'
    <2>1. unlisted => Told({"partial", "lost"}) \/ \E d \in Slots : WillList(d)
      BY DEF SheetEnding
    <2>2. unlisted' = unlisted \/ slot[c].op = "save"
      BY DEF Handle
    <2>3. slot[c].op = "save" => WillList(c)'
      BY <1>2, <1>3 DEF WillList, Waits
    <2>. QED BY <1>1, <1>4, <2>1, <2>2, <2>3
  <1>8. sheet'.busy => \/ Told({"broken", "lost", "incomplete"})'
                       \/ kind' # "mytoken" /\ \E d \in Slots : Waits(d, "load")' \/ Waits(d, "save")'
    <2>1. sheet.busy => \/ Told({"broken", "lost", "incomplete"})
                        \/ kind # "mytoken" /\ \E d \in Slots : Waits(d, "load") \/ Waits(d, "save")
      BY DEF SheetEnding
    <2>2. sheet' = sheet
      BY DEF Handle
    <2>. QED BY <1>1, <1>4, <2>1, <2>2
  <1>. QED BY <1>1, <1>5, <1>6, <1>7, <1>8 DEF SheetEnding

LEMMA TroubleEnds ==
    ASSUME SheetTypes, SheetEnding, NEW c \in Slots, Trouble(c)
    PROVE  SheetEnding'
  <1>1. kind' = kind /\ \A S : Told(S) => Told(S)'
    BY EventsGrow DEF SheetStep
  <1>2. slot[c] \in Requests /\ UNCHANGED <<sheet, unlisted>>
    BY TroubleSlot
  <1>3. /\ slot'[c].pc = "back" /\ slot'[c].op = slot[c].op /\ slot'[c].left = slot[c].left
        /\ slot'[c].kept = slot[c].kept
        /\ slot'[c].answer = "broken" => Told({"broken", "lost"})'
        /\ \A d \in Slots \ {c} : slot'[d] = slot[d]
    <2>1. slot \in [Slots -> Requests \cup {NoRequest}]
      BY DEF SheetTypes
    <2>2. PICK a \in {"refused", "broken"} :
                 /\ slot' = [slot EXCEPT ![c] = [slot[c] EXCEPT !.pc = "back", !.answer = a]]
                 /\ \/ events' = events \cup {a}
                    \/ a = "broken" /\ events' = events \cup {"lost"}
      BY TroubleSlot
    <2>3. a = "broken" => Told({"broken", "lost"})'
      BY <2>2 DEF Told
    <2>. HIDE DEF Ids, RowForms
    <2>4. LET r == [slot[c] EXCEPT !.pc = "back", !.answer = a] IN
             r.pc = "back" /\ r.op = slot[c].op /\ r.left = slot[c].left /\ r.kept = slot[c].kept /\ r.answer = a
      BY <1>2 DEF Requests
    <2>. HIDE DEF Requests
    <2>. QED BY <2>1, <2>2, <2>3, <2>4
  <1>4. slot[c].pc # "idle"
    <2>1. slot[c].pc \in {"sent", "back"}
      BY DEF Trouble
    <2>. QED BY <2>1
  <1>5. \A d \in Slots : /\ Waits(d, "load") => Waits(d, "load")'
                         /\ Waits(d, "save") <=> Waits(d, "save")'
                         /\ d # c /\ WillList(d) => WillList(d)'
    BY <1>3, <1>4 DEF Waits, WillList
  <1>6. kind \in Single => \A d \in Slots : Waits(d, "save")' => slot'[d].left = 1 /\ slot'[d].kept = 0
    BY <1>3, <1>5 DEF SheetEnding
  <1>7. \A d \in Slots : /\ slot'[d].pc = "sent" => slot'[d].answer = "ok"
                         /\ slot'[d].pc = "back" /\ slot'[d].answer = "broken" => Told({"broken", "lost"})'
    BY <1>1, <1>3 DEF SheetEnding
  <1>8. unlisted' => Told({"partial", "lost"})' \/ \E d \in Slots : WillList(d)'
    <2>1. unlisted => Told({"partial", "lost"}) \/ \E d \in Slots : WillList(d)
      BY DEF SheetEnding
    <2>2. WillList(c) => Told({"partial", "lost"})' \/ WillList(c)'
      <3>1. CASE slot[c].pc = "sent"
        BY <1>3, <3>1 DEF WillList, Waits
      <3>2. CASE slot[c].pc # "sent"
        <4>1. events' = events \cup {"lost"}
          BY <3>2 DEF Trouble
        <4>. QED BY <4>1 DEF Told
      <3>. QED BY <3>1, <3>2
    <2>. QED BY <1>1, <1>2, <1>5, <2>1, <2>2
  <1>9. sheet'.busy => \/ Told({"broken", "lost", "incomplete"})'
                       \/ kind' # "mytoken" /\ \E d \in Slots : Waits(d, "load")' \/ Waits(d, "save")'
    <2>1. sheet.busy => \/ Told({"broken", "lost", "incomplete"})
                        \/ kind # "mytoken" /\ \E d \in Slots : Waits(d, "load") \/ Waits(d, "save")
      BY DEF SheetEnding
    <2>. QED BY <1>1, <1>2, <1>5, <2>1
  <1>. QED BY <1>1, <1>6, <1>7, <1>8, <1>9 DEF SheetEnding

\* The rows of a submit, one after the other.
LEMMA SavingOneEnds ==
    ASSUME SheetTypes, SheetEnding, NEW c \in Slots, SavedOne(c)
    PROVE  SheetEnding'
  <1>1. UNCHANGED <<kind, sheet, unlisted, events>>
    BY DEF SavedOne
  <1>2. PICK r \in Requests :
              /\ slot[c] \in Requests /\ slot' = [slot EXCEPT ![c] = r]
              /\ r.pc = "sent" /\ r.op = "save" /\ r.id = slot[c].id /\ r.values = slot[c].values /\ r.answer = "ok"
              /\ slot[c].pc = "back" /\ slot[c].op = "save" /\ slot[c].left # 1
              /\ Fine(c) \/ slot[c].kept > 0 => r.kept > 0
    BY SavedOneSlot
  <1>3. slot'[c] = r /\ \A d \in Slots \ {c} : slot'[d] = slot[d]
    <2>1. slot \in [Slots -> Requests \cup {NoRequest}]
      BY DEF SheetTypes
    <2>. HIDE DEF Requests
    <2>. QED BY <1>2, <2>1
  <1>4. kind \notin Single
    BY <1>2 DEF SheetEnding, Waits
  <1>5. \A d \in Slots : /\ Waits(d, "load") => Waits(d, "load")'
                         /\ Waits(d, "save") => Waits(d, "save")'
                         /\ WillList(d) => WillList(d)'
    BY <1>2, <1>3 DEF Waits, WillList, Fine
  <1>6. \A S : Told(S)' <=> Told(S)
    BY <1>1 DEF Told
  <1>7. \A d \in Slots : /\ slot'[d].pc = "sent" => slot'[d].answer = "ok"
                         /\ slot'[d].pc = "back" /\ slot'[d].answer = "broken" => Told({"broken", "lost"})'
    BY <1>2, <1>3, <1>6 DEF SheetEnding
  <1>8. unlisted' => Told({"partial", "lost"})' \/ \E d \in Slots : WillList(d)'
    <2>1. unlisted => Told({"partial", "lost"}) \/ \E d \in Slots : WillList(d)
      BY DEF SheetEnding
    <2>. QED BY <1>1, <1>5, <1>6, <2>1
  <1>9. sheet'.busy => \/ Told({"broken", "lost", "incomplete"})'
                       \/ kind' # "mytoken" /\ \E d \in Slots : Waits(d, "load")' \/ Waits(d, "save")'
    <2>1. sheet.busy => \/ Told({"broken", "lost", "incomplete"})
                        \/ kind # "mytoken" /\ \E d \in Slots : Waits(d, "load") \/ Waits(d, "save")
      BY DEF SheetEnding
    <2>. QED BY <1>1, <1>5, <1>6, <2>1
  <1>. QED BY <1>1, <1>4, <1>7, <1>8, <1>9 DEF SheetEnding

\* A request is done with.
LEMMA AnsweringEnds ==
    ASSUME SheetTypes, SheetEnding, NEW c \in Slots, Loaded(c) \/ ModelsFetched(c) \/ AllSaved(c) \/ Aborted(c)
    PROVE  SheetEnding'
  <1>1. kind' = kind /\ \A S : Told(S) => Told(S)'
    BY EventsGrow DEF SheetStep
  <1>2. slot[c] \in Requests /\ slot[c].pc = "back"
    BY AnsweredTypes
  <1>3. slot'[c].pc = "idle" /\ \A d \in Slots \ {c} : slot'[d] = slot[d]
    BY DoneWith DEF Loaded, ModelsFetched, AllSaved, Aborted
  <1>4. \A d \in Slots : /\ d # c /\ Waits(d, "load") => Waits(d, "load")'
                         /\ d # c /\ Waits(d, "save") => Waits(d, "save")'
                         /\ d # c /\ WillList(d) => WillList(d)'
                         /\ Waits(d, "save")' => d # c /\ Waits(d, "save")
    BY <1>3 DEF Waits, WillList
  <1>5. kind \in Single => \A d \in Slots : Waits(d, "save")' => slot'[d].left = 1 /\ slot'[d].kept = 0
    BY <1>3, <1>4 DEF SheetEnding
  <1>6. \A d \in Slots : /\ slot'[d].pc = "sent" => slot'[d].answer = "ok"
                         /\ slot'[d].pc = "back" /\ slot'[d].answer = "broken" => Told({"broken", "lost"})'
    BY <1>1, <1>3 DEF SheetEnding
  <1>7. unlisted' => Told({"partial", "lost"})' \/ \E d \in Slots : WillList(d)'
    <2>1. unlisted => Told({"partial", "lost"}) \/ \E d \in Slots : WillList(d)
      BY DEF SheetEnding
    <2>2. unlisted' => unlisted
      BY DEF Loaded, ModelsFetched, AllSaved, Aborted, Unrefreshed
    <2>3. ASSUME unlisted', WillList(c) PROVE Told({"partial", "lost"})'
      <3>1. slot[c].op = "save" /\ (slot[c].kept > 0 \/ Fine(c))
        BY <2>3 DEF WillList, Waits, Fine
      <3>2. CASE AllSaved(c)
        <4>1. ~Closes(c)
          BY <2>3, <3>2 DEF AllSaved, Unrefreshed
        <4>2. "partial" \in events'
          BY <3>1, <3>2, <4>1 DEF AllSaved
        <4>. QED BY <4>2 DEF Told
      <3>3. ~Aborted(c)
        <4>1. SUFFICES ASSUME Aborted(c) PROVE FALSE
          OBVIOUS
        <4>2. slot[c].answer = "broken" /\ kind \in Single
          BY <3>1, <4>1 DEF Aborted, Threw, Single
        <4>3. slot[c].kept = 0
          BY <1>2, <3>1, <4>2 DEF SheetEnding, Waits
        <4>. QED BY <3>1, <4>2, <4>3 DEF Fine
      <3>4. ~Loaded(c) /\ ~ModelsFetched(c)
        BY <3>1 DEF Loaded, ModelsFetched, Back
      <3>. QED BY <3>2, <3>3, <3>4
    <2>. QED BY <1>1, <1>4, <2>1, <2>2, <2>3
  <1>8. sheet'.busy => \/ Told({"broken", "lost", "incomplete"})'
                       \/ kind' # "mytoken" /\ \E d \in Slots : Waits(d, "load")' \/ Waits(d, "save")'
    <2>1. sheet.busy => \/ Told({"broken", "lost", "incomplete"})
                        \/ kind # "mytoken" /\ \E d \in Slots : Waits(d, "load") \/ Waits(d, "save")
      BY DEF SheetEnding
    <2>2. CASE Loaded(c)
      <3>1. sheet'.busy = (sheet.busy /\ kind = "mytoken")
        <4>1. sheet \in SheetState /\ sheet' = [sheet EXCEPT !.busy = (sheet.busy /\ kind = "mytoken")]
          BY <2>2 DEF Loaded, SheetTypes
        <4>. HIDE DEF Ids
        <4>. QED BY <4>1 DEF SheetState
      <3>. QED BY <1>1, <2>1, <3>1
    <2>3. CASE AllSaved(c)
      <3>1. sheet'.busy = FALSE
        <4>1. sheet \in SheetState /\ sheet' \in {Rested(Hidden(sheet)), Rested(sheet)}
          BY <2>3 DEF AllSaved, SheetTypes
        <4>2. Hidden(sheet) \in SheetState
          <5>1. \A s \in SheetState, a, b \in BOOLEAN, i \in Ids : Hidden(s) \in SheetState
            BY SheetSet
          <5>. QED BY <4>1, <5>1, RowIds
        <4>3. \A s \in SheetState : Rested(s).busy = FALSE
          <5>. HIDE DEF Ids
          <5>. QED BY DEF Rested, SheetState
        <4>. QED BY <4>1, <4>2, <4>3
      <3>. QED BY <3>1
    <2>4. CASE ModelsFetched(c)
      <3>1. sheet' = sheet /\ slot[c].op = "models"
        BY <2>4 DEF ModelsFetched
      <3>2. ~Waits(c, "load") /\ ~Waits(c, "save")
        BY <3>1 DEF Waits
      <3>. QED BY <1>1, <1>4, <2>1, <3>1, <3>2
    <2>5. CASE Aborted(c)
      <3>1. Told({"broken", "lost"})
        BY <1>2, <2>5 DEF Aborted, Threw, SheetEnding
      <3>2. Told({"broken", "lost", "incomplete"})
        BY <3>1 DEF Told
      <3>. QED BY <1>1, <3>2
    <2>. QED BY <2>2, <2>3, <2>4, <2>5
  <1>. QED BY <1>1, <1>5, <1>6, <1>7, <1>8 DEF SheetEnding

LEMMA SheetEndingStep ==
    ASSUME SheetTypes, SheetEnding, SheetStep
    PROVE  SheetEnding'
  <1>1. CASE Open \/ Cancel \/ TableRendered \/ Change \/ FetchModels \/ Multiply \/ Submit \/ SubmitEmpty
    BY <1>1, SendingEnds
  <1>2. ASSUME NEW c \in Slots, Handle(c) \/ Trouble(c) \/ Loaded(c) \/ ModelsFetched(c) \/ SavedOne(c) \/ AllSaved(c) \/ Aborted(c)
        PROVE  SheetEnding'
    BY <1>2, HandlingEnds, TroubleEnds, AnsweringEnds, SavingOneEnds
  <1>. QED BY <1>1, <1>2 DEF SheetStep

LEMMA SheetIsEnded ==
    ASSUME SheetEnding
    PROVE  ListedOnceSaved /\ SpinsForAReason
  <1>1. AllIdle => \A c \in Slots : ~WillList(c) /\ ~Waits(c, "load") /\ ~Waits(c, "save")
    BY DEF AllIdle, Unused, WillList, Waits
  <1>. QED BY <1>1 DEF SheetEnding, ListedOnceSaved, SpinsForAReason, Told

-----------------------------------------------------------------------------
(* The sheets: what is saved for a row is its own                          *)

Missed == {"late", "unloaded", "wiped", "kept", "overtaken"}
OwnForm(v, i) == \A f \in Fields \ {"group"} : Own(v[f], f, i)
\* While nothing happened that a sheet misses: rows and submits are their own; what
\* is loaded is meant for the row that is shown, and the form is that row's, or its
\* answer is still to come.
SheetOwn ==
    Told(Missed) \/ kind = "batch" \/
    /\ \A i \in Rows : OwnForm(stored[i], i)
    /\ \A c \in Slots : Waits(c, "load") =>
          /\ slot[c].id = sheet.id \/ sheet.id = 0
          /\ slot[c].pc = "back" /\ slot[c].answer = "ok" => OwnForm(slot[c].data, slot[c].id)
    /\ \A c \in Slots : Waits(c, "save") => slot[c].id = 0 \/ OwnForm(slot[c].values, slot[c].id)
    /\ sheet.id = 0 \/ OwnForm(form, sheet.id) \/ \E c \in Slots : Waits(c, "load")

\* The same with the four parts named.
RowsOwn == \A i \in Rows : OwnForm(stored[i], i)
LoadsOwn == \A c \in Slots : Waits(c, "load") =>
               /\ slot[c].id = sheet.id \/ sheet.id = 0
               /\ slot[c].pc = "back" /\ slot[c].answer = "ok" => OwnForm(slot[c].data, slot[c].id)
SubmitsOwn == \A c \in Slots : Waits(c, "save") => slot[c].id = 0 \/ OwnForm(slot[c].values, slot[c].id)
FormOwn == sheet.id = 0 \/ OwnForm(form, sheet.id) \/ \E c \in Slots : Waits(c, "load")
LEMMA SheetOwnParts == SheetOwn <=> Told(Missed) \/ kind = "batch" \/ (RowsOwn /\ LoadsOwn /\ SubmitsOwn /\ FormOwn)
  BY DEF SheetOwn, RowsOwn, LoadsOwn, SubmitsOwn, FormOwn

LEMMA OwnValues ==
    ASSUME NEW i, NEW f
    PROVE  Own(OfRow(i), f, i) /\ Own(Typed(i), f, i)
  BY DEF Own, OfRow, Typed

\* The same sheet, one step later.
LEMMA OwnFormSame ==
    ASSUME kind' = kind
    PROVE  Fields' = Fields /\ \A v, i : OwnForm(v, i)' <=> OwnForm(v, i)
  <1>1. Fields' = Fields
    BY DEF Fields
  <1>. QED BY <1>1 DEF OwnForm, Own

LEMMA SheetOwnInit ==
    ASSUME SheetInit
    PROVE  SheetOwn
  <1>1. \A i \in Rows : OwnForm(stored[i], i)
    <2>1. \A i \in Rows, f \in Fields : stored[i][f] = (IF f = "config" /\ i \in Plain THEN Blank ELSE OfRow(i))
      BY DEF SheetInit
    <2>. QED BY <2>1, OwnValues DEF OwnForm, Own
  <1>2. \A c \in Slots : slot[c] = NoRequest \/ slot[c] = Request("load", 0, BlankForm, {}, 0)
    BY DEF SheetInit
  <1>3. \A c \in Slots : ~Waits(c, "save") /\ slot[c].pc # "back"
    BY <1>2 DEF NoRequest, Request, Waits
  <1>4. sheet.id = 0
    BY DEF SheetInit
  <1>. QED BY <1>1, <1>3, <1>4 DEF SheetOwn

\* A load that is under way when another thing happens is told of.
LEMMA LateIsTold ==
    ASSUME NEW c \in Slots, Waits(c, "load"), Late \subseteq events'
    PROVE  Told(Missed)'
  BY DEF Late, Waits, Unused, Told, Missed

\* What is submitted of a form of the row.
LEMMA ValuesOwn ==
    ASSUME SheetTypes, NEW i, OwnForm(form, i)
    PROVE  OwnForm(Values, i)
  <1>1. CASE kind = "channel" /\ form.config # Blank
    <2>1. Values = [form EXCEPT !.key = form.config]
      BY <1>1 DEF Values
    <2>2. form \in RowForms
      BY DEF SheetTypes
    <2>3. {"config", "key"} \subseteq Fields
      BY <1>1 DEF Fields, ChannelFields
    <2>4. Own(form.config, "config", i)
      BY <2>3 DEF OwnForm
    <2>5. Own(form.config, "key", i)
      BY <1>1, <2>4 DEF Own
    <2>6. \A f \in Fields : Values[f] = IF f = "key" THEN form.config ELSE form[f]
      BY <2>1, <2>2 DEF RowForms
    <2>. QED BY <2>5, <2>6 DEF OwnForm
  <1>2. CASE ~(kind = "channel" /\ form.config # Blank)
    BY <1>2 DEF Values
  <1>. QED BY <1>1, <1>2

\* A step that changes no row, and no request but those it sends.
LEMMA OwnKept ==
    ASSUME SheetOwn, SheetStep, UNCHANGED stored, ~Told(Missed)', kind # "batch",
           SubmitsOwn', LoadsOwn', FormOwn'
    PROVE  SheetOwn'
  <1>1. kind' = kind /\ ~Told(Missed)
    BY EventsGrow
  <1>2. RowsOwn
    BY <1>1 DEF SheetOwn, RowsOwn
  <1>3. RowsOwn'
    BY <1>1, <1>2, OwnFormSame DEF RowsOwn
  <1>. QED BY <1>3 DEF SheetOwn, RowsOwn, LoadsOwn, SubmitsOwn, FormOwn

\* Requests stay as they are.
LEMMA RequestsOwn ==
    ASSUME SheetOwn, kind' = kind, ~Told(Missed), kind # "batch", UNCHANGED slot
    PROVE  /\ SubmitsOwn'
           /\ sheet'.id \in {0, sheet.id} => LoadsOwn'
           /\ (\A c \in Slots : ~Waits(c, "load")) => LoadsOwn'
           /\ OwnForm(form', sheet.id) /\ sheet'.id = sheet.id => FormOwn'
           /\ sheet'.id = sheet.id /\ UNCHANGED form => FormOwn'
           /\ sheet'.id = 0 => FormOwn'
  <1>1. RowsOwn /\ LoadsOwn /\ SubmitsOwn /\ FormOwn
    BY SheetOwnParts
  <1>2. \A v, i : OwnForm(v, i)' <=> OwnForm(v, i)
    BY OwnFormSame
  <1>3. \A c \in Slots : /\ Waits(c, "load")' <=> Waits(c, "load")
                         /\ Waits(c, "save")' <=> Waits(c, "save")
    BY DEF Waits
  <1>4. SubmitsOwn'
    BY <1>1, <1>2, <1>3 DEF SubmitsOwn
  <1>5. sheet'.id \in {0, sheet.id} => LoadsOwn'
    BY <1>1, <1>2, <1>3 DEF LoadsOwn
  <1>6. (\A c \in Slots : ~Waits(c, "load")) => LoadsOwn'
    BY <1>3 DEF LoadsOwn
  <1>7. /\ OwnForm(form', sheet.id) /\ sheet'.id = sheet.id => FormOwn'
        /\ sheet'.id = sheet.id /\ UNCHANGED form => FormOwn'
        /\ sheet'.id = 0 => FormOwn'
    BY <1>1, <1>2, <1>3 DEF FormOwn
  <1>. QED BY <1>4, <1>5, <1>6, <1>7

LEMMA HandlingOwn ==
    ASSUME SheetTypes, SheetOwn, NEW c \in Slots, Handle(c)
    PROVE  SheetOwn'
  <1>1. kind' = kind /\ UNCHANGED <<sheet, form, events>>
    BY DEF Handle
  <1>2. SUFFICES ASSUME ~Told(Missed), kind # "batch" PROVE RowsOwn' /\ LoadsOwn' /\ SubmitsOwn' /\ FormOwn'
    BY <1>1 DEF SheetOwn, RowsOwn, LoadsOwn, SubmitsOwn, FormOwn, Told
  <1>3. RowsOwn /\ LoadsOwn /\ SubmitsOwn /\ FormOwn
    BY <1>2, SheetOwnParts
  <1>4. \A v, i : OwnForm(v, i)' <=> OwnForm(v, i)
    BY <1>1, OwnFormSame
  <1>5. slot[c] \in Requests /\ slot[c].pc = "sent"
    BY HandleSlot
  <1>6. /\ slot'[c].pc = "back" /\ slot'[c].op = slot[c].op /\ slot'[c].id = slot[c].id
        /\ slot'[c].values = slot[c].values
        /\ slot[c].op = "load" => slot'[c].data = RowForm(slot[c].id)
        /\ \A d \in Slots \ {c} : slot'[d] = slot[d]
    <2>1. slot \in [Slots -> Requests \cup {NoRequest}]
      BY DEF SheetTypes
    <2>. DEFINE Keeps(r) == /\ r.pc = "back" /\ r.op = slot[c].op /\ r.id = slot[c].id /\ r.values = slot[c].values
                            /\ slot[c].op = "load" => r.data = RowForm(slot[c].id)
    <2>2. \E r : slot' = [slot EXCEPT ![c] = r] /\ Keeps(r)
      <3>1. CASE slot[c].op = "load"
        <4>1. slot' = [slot EXCEPT ![c] = [slot[c] EXCEPT !.pc = "back", !.data = RowForm(slot[c].id)]]
          <5>1. slot' = [slot EXCEPT ![c].pc = "back", ![c].data = RowForm(slot[c].id)]
            BY <3>1 DEF Handle
          <5>2. \A d : [slot EXCEPT ![c].pc = "back", ![c].data = d] = [slot EXCEPT ![c] = [slot[c] EXCEPT !.pc = "back", !.data = d]]
            BY <2>1
          <5>. QED BY <5>1, <5>2
        <4>2. \A x : x = RowForm(slot[c].id) => Keeps([slot[c] EXCEPT !.pc = "back", !.data = x])
          <5>. HIDE DEF Ids, RowForms
          <5>. QED BY <1>5 DEF Requests
        <4>. HIDE DEF Requests, Keeps
        <4>. QED BY <4>1, <4>2
      <3>2. CASE slot[c].op # "load"
        <4>1. slot' = [slot EXCEPT ![c] = [slot[c] EXCEPT !.pc = "back"]]
          <5>1. slot' = [slot EXCEPT ![c].pc = "back"]
            BY <3>2 DEF Handle
          <5>. QED BY <2>1, <5>1
        <4>2. Keeps([slot[c] EXCEPT !.pc = "back"])
          <5>. HIDE DEF Ids, RowForms
          <5>. QED BY <1>5, <3>2 DEF Requests
        <4>. HIDE DEF Requests, Keeps
        <4>. QED BY <4>1, <4>2
      <3>. QED BY <3>1, <3>2
    <2>. QED BY <2>1, <2>2
  <1>7. \A d \in Slots : /\ Waits(d, "load")' <=> Waits(d, "load")
                         /\ Waits(d, "save")' <=> Waits(d, "save")
                         /\ slot'[d].id = slot[d].id /\ slot'[d].values = slot[d].values
    <2>1. \A d \in Slots \ {c} : slot'[d] = slot[d]
      BY <1>6
    <2>. QED BY <1>5, <1>6, <2>1 DEF Waits
  <1>8. SubmitsOwn' /\ FormOwn'
    <2>1. SubmitsOwn'
      BY <1>3, <1>4, <1>7 DEF SubmitsOwn
    <2>2. FormOwn'
      BY <1>1, <1>3, <1>4, <1>7 DEF FormOwn
    <2>. QED BY <2>1, <2>2
  <1>9. LoadsOwn'
    <2>1. slot[c].op = "load" => OwnForm(RowForm(slot[c].id), slot[c].id)
      <3>1. CASE slot[c].id = 0
        <4>1. \A f \in Fields : RowForm(slot[c].id)[f] = OfRow(0)
          BY <3>1 DEF RowForm
        <4>. QED BY <3>1, <4>1, OwnValues DEF OwnForm
      <3>2. CASE slot[c].id # 0
        <4>1. slot[c].id \in Rows
          BY <1>5, <3>2 DEF Requests, Ids
        <4>2. OwnForm(stored[slot[c].id], slot[c].id)
          BY <1>3, <4>1 DEF RowsOwn
        <4>3. \A f \in Fields : RowForm(slot[c].id)[f] = stored[slot[c].id][f]
          BY <3>2 DEF RowForm
        <4>. QED BY <4>2, <4>3 DEF OwnForm
      <3>. QED BY <3>1, <3>2
    <2>2. \A d \in Slots : Waits(d, "load") =>
               /\ slot[d].id = sheet.id \/ sheet.id = 0
               /\ slot[d].pc = "back" /\ slot[d].answer = "ok" => OwnForm(slot[d].data, slot[d].id)
      BY <1>3 DEF LoadsOwn
    <2>3. \A d \in Slots : Waits(d, "load")' =>
               /\ slot'[d].id = sheet.id \/ sheet.id = 0
               /\ slot'[d].pc = "back" /\ slot'[d].answer = "ok" => OwnForm(slot'[d].data, slot'[d].id)
      <3>1. TAKE d \in Slots
      <3>2. CASE d = c
        BY <1>6, <1>7, <2>1, <2>2, <3>2 DEF Waits
      <3>3. CASE d # c
        BY <1>6, <1>7, <2>2, <3>3
      <3>. QED BY <3>2, <3>3
    <2>. QED BY <1>1, <1>4, <2>3 DEF LoadsOwn
  <1>10. RowsOwn'
    <2>1. CASE stored' = stored
      BY <1>3, <1>4, <2>1 DEF RowsOwn
    <2>2. CASE stored' # stored
      <3>. DEFINE t == slot[c].id
                  v == [f \in Fields |-> IF f = "group" THEN stored[t][f] ELSE slot[c].values[f]]
      <3>1. slot[c].op = "save" /\ t # 0 /\ stored' = [stored EXCEPT ![t] = v]
        <4>1. Target(slot[c]) = t
          BY <1>2, <1>5, TargetType
        <4>. QED BY <2>2, <4>1 DEF Handle
      <3>2. OwnForm(slot[c].values, t)
        BY <1>3, <1>5, <3>1 DEF SubmitsOwn, Waits
      <3>3. OwnForm(v, t)
        BY <3>2 DEF OwnForm
      <3>4. stored \in [Rows -> RowForms]
        BY DEF SheetTypes
      <3>. HIDE DEF t, v
      <3>5. \A i \in Rows : OwnForm(stored'[i], i)
        BY <1>3, <3>1, <3>3, <3>4 DEF RowsOwn
      <3>. QED BY <1>4, <3>5 DEF RowsOwn
    <2>. QED BY <2>1, <2>2
  <1>. QED BY <1>8, <1>9, <1>10

\* A request goes wrong, or the next row of a submit is saved.
LEMMA TroubleOwn ==
    ASSUME SheetTypes, SheetOwn, NEW c \in Slots, Trouble(c) \/ SavedOne(c)
    PROVE  SheetOwn'
  <1>1. UNCHANGED <<kind, sheet, form, stored>> /\ SheetStep
    BY DEF Trouble, SavedOne, SheetStep
  <1>2. SUFFICES ASSUME ~Told(Missed)', kind # "batch" PROVE LoadsOwn' /\ SubmitsOwn' /\ FormOwn'
    BY <1>1, OwnKept DEF SheetOwn
  <1>3. RowsOwn /\ LoadsOwn /\ SubmitsOwn /\ FormOwn
    BY <1>1, <1>2, EventsGrow, SheetOwnParts
  <1>4. \A v, i : OwnForm(v, i)' <=> OwnForm(v, i)
    BY <1>1, OwnFormSame
  <1>5. /\ \A d \in Slots \ {c} : slot'[d] = slot[d]
        /\ slot[c].pc # "idle" /\ slot'[c].pc # "idle" /\ slot'[c].op = slot[c].op /\ slot'[c].id = slot[c].id
        /\ slot'[c].values = slot[c].values
        /\ slot[c].op = "save" \/ slot'[c].answer # "ok"
    <2>1. slot \in [Slots -> Requests \cup {NoRequest}]
      BY DEF SheetTypes
    <2>2. \E r : /\ slot' = [slot EXCEPT ![c] = r] /\ r.pc # "idle" /\ r.op = slot[c].op /\ r.id = slot[c].id
                 /\ r.values = slot[c].values /\ (slot[c].op = "save" \/ r.answer # "ok")
      <3>1. CASE Trouble(c)
        <4>1. PICK a \in {"refused", "broken"} : slot' = [slot EXCEPT ![c] = [slot[c] EXCEPT !.pc = "back", !.answer = a]]
          BY <3>1, TroubleSlot
        <4>2. slot[c] \in Requests
          BY <3>1, TroubleSlot
        <4>3. \A r : r = [slot[c] EXCEPT !.pc = "back", !.answer = a] =>
                 r.pc = "back" /\ r.op = slot[c].op /\ r.id = slot[c].id /\ r.values = slot[c].values /\ r.answer = a
          <5>. HIDE DEF Ids, RowForms
          <5>. QED BY <4>2 DEF Requests
        <4>. HIDE DEF Requests
        <4>. QED BY <4>1, <4>3
      <3>2. CASE SavedOne(c)
        <4>. HIDE DEF Requests
        <4>. QED BY <3>2, SavedOneSlot
      <3>. QED BY <3>1, <3>2
    <2>3. slot[c].pc # "idle"
      <3>1. slot[c].pc \in {"sent", "back"}
        BY DEF Trouble, SavedOne, Back
      <3>. QED BY <3>1
    <2>. QED BY <2>1, <2>2, <2>3
  <1>6. \A d \in Slots : /\ Waits(d, "load")' <=> Waits(d, "load")
                         /\ Waits(d, "save")' <=> Waits(d, "save")
                         /\ slot'[d].id = slot[d].id /\ slot'[d].values = slot[d].values
    <2>1. \A d \in Slots \ {c} : slot'[d] = slot[d]
      BY <1>5
    <2>. QED BY <1>5, <2>1 DEF Waits
  <1>7. SubmitsOwn'
    BY <1>3, <1>4, <1>6 DEF SubmitsOwn
  <1>8. FormOwn'
    BY <1>1, <1>3, <1>4, <1>6 DEF FormOwn
  <1>9. LoadsOwn'
    <2>1. \A d \in Slots : Waits(d, "load") =>
               /\ slot[d].id = sheet.id \/ sheet.id = 0
               /\ slot[d].pc = "back" /\ slot[d].answer = "ok" => OwnForm(slot[d].data, slot[d].id)
      BY <1>3 DEF LoadsOwn
    <2>2. \A d \in Slots : Waits(d, "load")' =>
               /\ slot'[d].id = sheet.id \/ sheet.id = 0
               /\ slot'[d].pc = "back" /\ slot'[d].answer = "ok" => OwnForm(slot'[d].data, slot'[d].id)
      <3>1. TAKE d \in Slots
      <3>2. CASE d = c
        BY <1>5, <1>6, <2>1, <3>2 DEF Waits
      <3>3. CASE d # c
        BY <1>5, <1>6, <2>1, <3>3
      <3>. QED BY <3>2, <3>3
    <2>. QED BY <1>1, <1>4, <2>2 DEF LoadsOwn
  <1>. QED BY <1>7, <1>8, <1>9

\* A request is sent: a load for the id shown from then on, or the values of the form.
LEMMA SentOwn ==
    ASSUME SheetTypes, SheetOwn, kind' = kind, ~Told(Missed), kind # "batch",
           NEW c \in Slots, NEW op \in {"load", "save", "models"}, NEW i \in Ids, NEW v \in RowForms, NEW n,
           SentNow(c, op, i, v, n)
    PROVE  /\ op = "save" => (i = 0 \/ OwnForm(v, i) => SubmitsOwn')
           /\ op # "save" => SubmitsOwn'
           /\ op # "load" /\ sheet'.id = sheet.id => LoadsOwn'
           /\ op = "load" /\ sheet'.id = i /\ (\A d \in Slots : ~Waits(d, "load")) => LoadsOwn'
           /\ op = "load" => FormOwn'
           /\ sheet'.id = sheet.id /\ UNCHANGED form => FormOwn'
  <1>1. RowsOwn /\ LoadsOwn /\ SubmitsOwn /\ FormOwn
    BY SheetOwnParts
  <1>2. \A w, j : OwnForm(w, j)' <=> OwnForm(w, j)
    BY OwnFormSame
  <1>3. /\ slot[c].pc = "idle" /\ slot'[c].pc = "sent" /\ slot'[c].op = op /\ slot'[c].id = i /\ slot'[c].values = v
        /\ \A d \in Slots \ {c} : slot'[d] = slot[d]
    BY DEF SentNow, SentIn
  <1>4. \A d \in Slots \ {c} : /\ Waits(d, "load")' <=> Waits(d, "load")
                               /\ Waits(d, "save")' <=> Waits(d, "save")
    BY <1>3 DEF Waits
  <1>5. /\ Waits(c, "load")' <=> op = "load"
        /\ Waits(c, "save")' <=> op = "save"
        /\ ~Waits(c, "load") /\ ~Waits(c, "save")
    BY <1>3 DEF Waits
  <1>6. (op = "save" => i = 0 \/ OwnForm(v, i)) => SubmitsOwn'
    BY <1>1, <1>2, <1>3, <1>4, <1>5 DEF SubmitsOwn
  <1>7. op # "load" /\ sheet'.id = sheet.id => LoadsOwn'
    BY <1>1, <1>2, <1>3, <1>4, <1>5 DEF LoadsOwn
  <1>8. op = "load" /\ sheet'.id = i /\ (\A d \in Slots : ~Waits(d, "load")) => LoadsOwn'
    BY <1>3, <1>4, <1>5 DEF LoadsOwn
  <1>9. op = "load" => FormOwn'
    BY <1>5 DEF FormOwn
  <1>10. sheet'.id = sheet.id /\ UNCHANGED form => FormOwn'
    <2>1. \A d \in Slots : Waits(d, "load") => Waits(d, "load")'
      BY <1>4, <1>5
    <2>. QED BY <1>1, <1>2, <2>1 DEF FormOwn
  <1>. QED BY <1>6, <1>7, <1>8, <1>9, <1>10

\* What sends a request or none, while no event is missed.
LEMMA OpeningOwn ==
    ASSUME SheetTypes, SheetOwn, Open
    PROVE  SheetOwn'
  <1>1. UNCHANGED <<kind, stored>> /\ SheetStep
    BY DEF Open, SheetStep
  <1>2. SUFFICES ASSUME ~Told(Missed)', kind # "batch" PROVE LoadsOwn' /\ SubmitsOwn' /\ FormOwn'
    BY <1>1, OwnKept DEF SheetOwn
  <1>3. ~Told(Missed)
    BY <1>1, <1>2, EventsGrow
  <1>4. CASE UNCHANGED <<slot, form>> /\ sheet'.id = sheet.id
    BY <1>1, <1>2, <1>3, <1>4, RequestsOwn
  <1>5. CASE UNCHANGED slot /\ sheet'.id = 0
    BY <1>1, <1>2, <1>3, <1>5, RequestsOwn
  <1>6. CASE events' = events \cup Late /\ \E c \in Slots : SentNow(c, "load", sheet'.id, BlankForm, 0)
    <2>1. PICK c \in Slots : SentNow(c, "load", sheet'.id, BlankForm, 0)
      BY <1>6
    <2>2. \A d \in Slots : ~Waits(d, "load")
      BY <1>2, <1>6, LateIsTold
    <2>3. sheet'.id \in Ids
      <3>1. SheetTypes'
        BY OpenTypes
      <3>2. sheet' \in SheetState
        BY <3>1 DEF SheetTypes, SheetState, Ids
      <3>. QED BY <3>2 DEF SheetState
    <2>4. \A i \in Ids : SentNow(c, "load", i, BlankForm, 0) /\ sheet'.id = i => LoadsOwn' /\ SubmitsOwn' /\ FormOwn'
      BY <1>1, <1>2, <1>3, <2>2, SentOwn, BlankFormType
    <2>. QED BY <2>1, <2>3, <2>4
  <1>. QED BY <1>4, <1>5, <1>6, OpenSends

LEMMA TypingOwn ==
    ASSUME SheetTypes, SheetOwn, Cancel \/ Change \/ Multiply \/ SubmitEmpty
    PROVE  SheetOwn'
  <1>1. UNCHANGED <<kind, stored, slot>> /\ SheetStep
    BY DEF Cancel, Change, Multiply, SubmitEmpty, Silent, SheetStep
  <1>2. SUFFICES ASSUME ~Told(Missed)', kind # "batch" PROVE LoadsOwn' /\ SubmitsOwn' /\ FormOwn'
    BY <1>1, OwnKept DEF SheetOwn
  <1>3. ~Told(Missed)
    BY <1>1, <1>2, EventsGrow
  <1>4. sheet \in SheetState
    BY DEF SheetTypes
  <1>5. CASE UNCHANGED form /\ sheet'.id = sheet.id
    BY <1>1, <1>2, <1>3, <1>5, RequestsOwn
  <1>6. CASE sheet'.id = 0
    BY <1>1, <1>2, <1>3, <1>6, RequestsOwn
  <1>7. CASE Cancel
    <2>1. IF kind = "mytoken" THEN Hidden(sheet).id = 0 ELSE Hidden(sheet).id = sheet.id
      <3>. HIDE DEF Ids
      <3>. QED BY <1>4 DEF Hidden, SheetState
    <2>2. sheet' = Hidden(sheet) /\ (kind # "mytoken" => UNCHANGED form)
      BY <1>7 DEF Cancel, EmptyIfGone
    <2>. QED BY <1>5, <1>6, <2>1, <2>2
  <1>8. CASE Change
    <2>1. UNCHANGED sheet
      BY <1>8 DEF Change
    <2>2. PICK f, g : form' = [form EXCEPT ![f] = Typed(sheet.id), ![g] = Typed(sheet.id)]
      BY <1>8, ChangeTypes
    <2>3. form \in RowForms
      BY DEF SheetTypes
    <2>4. \A x \in Fields : form'[x] = form[x] \/ form'[x] = Typed(sheet.id)
      BY <2>2, <2>3 DEF RowForms
    <2>5. OwnForm(form, sheet.id) => OwnForm(form', sheet.id)
      BY <2>4, OwnValues DEF OwnForm
    <2>6. FormOwn /\ LoadsOwn
      BY <1>2, <1>3, SheetOwnParts
    <2>7. FormOwn'
      <3>1. \A c \in Slots : Waits(c, "load") => Waits(c, "load")'
        BY <1>1 DEF Waits
      <3>2. sheet.id = 0 \/ OwnForm(form', sheet.id) \/ \E c \in Slots : Waits(c, "load")'
        BY <2>5, <2>6, <3>1 DEF FormOwn
      <3>3. \A v, i : OwnForm(v, i)' <=> OwnForm(v, i)
        BY <1>1, OwnFormSame
      <3>. QED BY <2>1, <3>2, <3>3 DEF FormOwn
    <2>. QED BY <1>1, <1>2, <1>3, <2>1, <2>7, RequestsOwn
  <1>9. CASE Multiply
    BY <1>5, <1>9 DEF Multiply
  <1>10. CASE SubmitEmpty
    <2>1. [sheet EXCEPT !.busy = TRUE].id = sheet.id
      <3>. HIDE DEF Ids
      <3>. QED BY <1>4 DEF SheetState
    <2>. QED BY <1>5, <1>10, <2>1 DEF SubmitEmpty
  <1>. QED BY <1>7, <1>8, <1>9, <1>10

LEMMA SubmittingOwn ==
    ASSUME SheetTypes, SheetOwn, Submit \/ FetchModels \/ TableRendered
    PROVE  SheetOwn'
  <1>1. UNCHANGED <<kind, stored>> /\ SheetStep
    BY DEF Submit, FetchModels, TableRendered, SheetStep
  <1>2. SUFFICES ASSUME ~Told(Missed)', kind # "batch" PROVE LoadsOwn' /\ SubmitsOwn' /\ FormOwn'
    BY <1>1, OwnKept DEF SheetOwn
  <1>3. ~Told(Missed) /\ ~TableRendered
    BY <1>1, <1>2, EventsGrow DEF TableRendered
  <1>4. sheet.id \in Ids /\ BlankForm \in RowForms /\ Values \in RowForms
    BY BlankFormType, FormsSet DEF SheetTypes, SheetState
  <1>5. CASE FetchModels
    <2>1. UNCHANGED <<sheet, form>>
      BY <1>5 DEF FetchModels
    <2>2. PICK c \in Slots : SentNow(c, "models", sheet.id, BlankForm, 0)
      BY <1>5, OtherSends
    <2>. QED BY <1>1, <1>2, <1>3, <1>4, <2>1, <2>2, SentOwn
  <1>6. CASE Submit
    <2>1. PICK c \in Slots : SentNow(c, "save", sheet.id, Values, Repeats)
      BY <1>6, SubmitSends
    <2>2. form' = Values /\ sheet'.id = sheet.id /\ Late \subseteq events'
      BY <1>6, SubmitSends
    <2>3. \A d \in Slots : ~Waits(d, "load")
      BY <1>2, <2>2, LateIsTold
    <2>4. sheet.id = 0 \/ OwnForm(form, sheet.id)
      BY <1>2, <1>3, <2>3, SheetOwnParts DEF FormOwn
    <2>5. sheet.id = 0 \/ OwnForm(Values, sheet.id)
      BY <2>4, ValuesOwn
    <2>6. FormOwn'
      <3>1. \A v, i : OwnForm(v, i)' <=> OwnForm(v, i)
        BY <1>1, OwnFormSame
      <3>. QED BY <2>2, <2>5, <3>1 DEF FormOwn
    <2>. QED BY <1>1, <1>2, <1>3, <1>4, <2>1, <2>2, <2>5, <2>6, SentOwn
  <1>. QED BY <1>3, <1>5, <1>6

\* A request is done with: what it leaves in the form.
LEMMA AnsweringOwn ==
    ASSUME SheetTypes, SheetOwn, NEW c \in Slots, Loaded(c) \/ ModelsFetched(c) \/ AllSaved(c) \/ Aborted(c)
    PROVE  SheetOwn'
  <1>1. UNCHANGED <<kind, stored>> /\ SheetStep
    BY DEF Loaded, ModelsFetched, AllSaved, Aborted, SheetStep
  <1>2. SUFFICES ASSUME ~Told(Missed)', kind # "batch" PROVE LoadsOwn' /\ SubmitsOwn' /\ FormOwn'
    BY <1>1, OwnKept DEF SheetOwn
  <1>3. RowsOwn /\ LoadsOwn /\ SubmitsOwn /\ FormOwn
    BY <1>1, <1>2, EventsGrow, SheetOwnParts
  <1>4. \A v, i : OwnForm(v, i)' <=> OwnForm(v, i)
    BY <1>1, OwnFormSame
  <1>5. slot'[c].pc = "idle" /\ \A d \in Slots \ {c} : slot'[d] = slot[d]
    BY DoneWith DEF Loaded, ModelsFetched, AllSaved, Aborted
  <1>6. \A d \in Slots : /\ Waits(d, "load")' => d # c /\ Waits(d, "load")
                         /\ Waits(d, "save")' => d # c /\ Waits(d, "save")
                         /\ d # c /\ Waits(d, "load") => Waits(d, "load")'
    BY <1>5 DEF Waits
  <1>7. SubmitsOwn'
    BY <1>3, <1>4, <1>5, <1>6 DEF SubmitsOwn
  <1>8. slot[c] \in Requests /\ slot[c].pc = "back"
    BY AnsweredTypes
  <1>9. sheet \in SheetState /\ form \in RowForms
    BY DEF SheetTypes
  <1>10. sheet'.id = sheet.id \/ (sheet'.id = 0 /\ AllSaved(c))
    <2>1. CASE Loaded(c)
      <3>1. sheet' = [sheet EXCEPT !.busy = (sheet.busy /\ kind = "mytoken")]
        BY <2>1 DEF Loaded
      <3>. HIDE DEF Ids
      <3>. QED BY <1>9, <3>1 DEF SheetState
    <2>2. CASE AllSaved(c)
      <3>1. sheet' \in {Rested(Hidden(sheet)), Rested(sheet)}
        BY <2>2 DEF AllSaved
      <3>2. \A s \in SheetState : Rested(s).id = s.id
        <4>. HIDE DEF Ids
        <4>. QED BY DEF Rested, SheetState
      <3>3. Hidden(sheet) \in SheetState /\ Hidden(sheet).id \in {0, sheet.id}
        <4>1. 0 \in Ids
          BY RowIds
        <4>. HIDE DEF Ids
        <4>. QED BY <1>9, <4>1 DEF Hidden, SheetState
      <3>. QED BY <1>9, <2>2, <3>1, <3>2, <3>3
    <2>. QED BY <2>1, <2>2 DEF ModelsFetched, Aborted
  <1>11. LoadsOwn'
    BY <1>3, <1>4, <1>5, <1>6, <1>10 DEF LoadsOwn
  <1>12. SUFFICES ASSUME sheet'.id = sheet.id, sheet.id # 0
                  PROVE  OwnForm(form', sheet.id) \/ \E d \in Slots : Waits(d, "load")'
    BY <1>4, <1>7, <1>10, <1>11 DEF FormOwn
  <1>13. OwnForm(form, sheet.id) \/ Waits(c, "load") \/ \E d \in Slots : Waits(d, "load")'
    BY <1>3, <1>6, <1>12 DEF FormOwn
  <1>14. CASE Loaded(c)
    <2>1. Fine(c)
      <3>1. ~Fine(c) => "unloaded" \in events'
        BY <1>14 DEF Loaded
      <3>. QED BY <1>2, <3>1 DEF Told, Missed
    <2>2. form' = Filled(c)
      BY <1>14, <2>1 DEF Loaded
    <2>3. slot[c].id = sheet.id /\ OwnForm(slot[c].data, sheet.id)
      BY <1>3, <1>8, <1>12, <1>14, <2>1 DEF LoadsOwn, Waits, Loaded, Back, Fine
    <2>4. \A f \in Fields : form'[f] = slot[c].data[f] \/ (f = "config" /\ slot[c].data[f] = Blank /\ form'[f] = form[f])
      <3>1. "groups" \notin Fields
        BY <1>2 DEF Fields, ChannelFields, TokenFields, MyTokenFields, UserFields, NewUserFields, CodeFields, BatchFields
      <3>2. \A f \in Fields : form'[f] = IF f = "groups" \/ (f = "config" /\ slot[c].data[f] = Blank) THEN form[f] ELSE slot[c].data[f]
        BY <2>2 DEF Filled
      <3>. QED BY <3>1, <3>2
    <2>5. \A f \in Fields : form'[f] = slot[c].data[f]
      <3>1. SUFFICES ASSUME "config" \in Fields, slot[c].data.config = Blank PROVE form.config = Blank
        BY <2>4
      <3>2. kind = "channel"
        BY <1>2, <3>1 DEF Fields, TokenFields, MyTokenFields, UserFields, NewUserFields, CodeFields, BatchFields
      <3>3. form.config # Blank => "kept" \in events'
        BY <1>14, <2>1, <3>1, <3>2 DEF Loaded
      <3>. QED BY <1>2, <3>3 DEF Told, Missed
    <2>. QED BY <2>3, <2>5 DEF OwnForm
  <1>15. CASE ModelsFetched(c)
    <2>1. slot[c].id = sheet.id
      <3>1. sheet.id # slot[c].id => "late" \in events'
        BY <1>15 DEF ModelsFetched
      <3>. QED BY <1>2, <3>1 DEF Told, Missed
    <2>2. form' = form \/ form' = [form EXCEPT !["models"] = Typed(sheet.id)]
      BY <1>15, <2>1 DEF ModelsFetched
    <2>3. \A f \in Fields : form'[f] = form[f] \/ form'[f] = Typed(sheet.id)
      BY <1>9, <2>2 DEF RowForms
    <2>4. OwnForm(form, sheet.id) => OwnForm(form', sheet.id)
      BY <2>3, OwnValues DEF OwnForm
    <2>5. ~Waits(c, "load")
      BY <1>15 DEF ModelsFetched, Waits
    <2>. QED BY <1>13, <2>4, <2>5
  <1>16. CASE AllSaved(c)
    <2>1. slot[c].id = sheet.id
      <3>1. sheet.id # slot[c].id => "overtaken" \in events'
        BY <1>16 DEF AllSaved
      <3>. QED BY <1>2, <3>1 DEF Told, Missed
    <2>2. kind # "token"
      <3>1. kind = "token" => "wiped" \in events'
        BY <1>16 DEF AllSaved
      <3>. QED BY <1>2, <3>1 DEF Told, Missed
    <2>3. ~Waits(c, "load")
      BY <1>16 DEF AllSaved, Back, Waits
    <2>4. form' = form
      <3>1. form' \in {form, EmptyIfGone(form)}
        BY <1>12, <1>16, <2>1, <2>2 DEF AllSaved
      <3>2. kind = "mytoken" => ~Closes(c)
        <4>1. SUFFICES ASSUME kind = "mytoken", Closes(c) PROVE FALSE
          OBVIOUS
        <4>2. sheet' = Rested(Hidden(sheet))
          BY <1>16, <4>1 DEF AllSaved
        <4>3. Rested(Hidden(sheet)).id = 0
          <5>. HIDE DEF Ids
          <5>. QED BY <1>9, <4>1 DEF Rested, Hidden, SheetState
        <4>. QED BY <1>12, <4>2, <4>3
      <3>3. kind = "mytoken" => form' = form
        BY <1>16, <3>2 DEF AllSaved
      <3>. QED BY <3>1, <3>3 DEF EmptyIfGone
    <2>. QED BY <1>13, <2>3, <2>4
  <1>17. CASE Aborted(c)
    <2>1. slot[c].op # "load"
      <3>1. slot[c].op = "load" => "unloaded" \in events'
        BY <1>17 DEF Aborted
      <3>. QED BY <1>2, <3>1 DEF Told, Missed
    <2>2. form' = form
      BY <1>17 DEF Aborted
    <2>. QED BY <1>13, <2>1, <2>2 DEF Waits
  <1>. QED BY <1>14, <1>15, <1>16, <1>17

LEMMA SheetOwnStep ==
    ASSUME SheetTypes, SheetOwn, SheetStep
    PROVE  SheetOwn'
  <1>1. CASE Open \/ Cancel \/ TableRendered \/ Change \/ FetchModels \/ Multiply \/ Submit \/ SubmitEmpty
    BY <1>1, OpeningOwn, TypingOwn, SubmittingOwn
  <1>2. ASSUME NEW c \in Slots, Handle(c) \/ Trouble(c) \/ Loaded(c) \/ ModelsFetched(c) \/ SavedOne(c) \/ AllSaved(c) \/ Aborted(c)
        PROVE  SheetOwn'
    BY <1>2, HandlingOwn, TroubleOwn, AnsweringOwn
  <1>. QED BY <1>1, <1>2 DEF SheetStep

LEMMA SheetSaves ==
    ASSUME SheetOwn
    PROVE  SavesOwn
  BY DEF SheetOwn, SavesOwn, OwnForm, Told, Missed
-----------------------------------------------------------------------------
(* Settings: what the pages show and save                                  *)

Urls == {"ServerAddress", "OutProxyUrl", "WeChatServerAddress", "PayAddress"}
Jsons == {"ModelRatio", "ModelPrice", "CompletionRatio", "GroupRatio", "GroupUserRatio",
          "TopupRatio", "TopupGroupRatio", "TopupAmount"}
Compared == {"SMTPServer", "SMTPAccount", "SMTPFrom", "SMTPPort", "SMTPToken", "AppToken", "Uids", "NotificationEmail",
             "EmailDomainWhitelist", "WeChatServerAddress", "WeChatAccountQRCodeImageURL", "WeChatServerToken",
             "GitHubClientId", "GitHubClientSecret", "TurnstileSiteKey", "TurnstileSecretKey",
             "ModelRatio", "ModelPrice", "GroupRatio", "CompletionRatio",
             "TopupGroupRatio", "TopupRatio", "TopupAmount"}

\* What each form shows as an address or as a text of JSON, and where nothing is chosen.
ShownRight(f) == \A k \in DOMAIN f : /\ f[k] = "url" => k \in Urls
                                     /\ f[k] = "json" => k \in Jsons
NoneChosen(f) == DOMAIN f \cap Chosen = {}

LEMMA MergedShownRight ==
    ASSUME NEW f, NEW g
    PROVE  /\ ShownRight(f) /\ ShownRight(g) => ShownRight(f ++ g)
           /\ NoneChosen(f) /\ NoneChosen(g) => NoneChosen(f ++ g)
  BY DEF ++, ShownRight, NoneChosen

LEMMA ShowsRight ==
    ASSUME NEW S, NEW how, how = "url" => S \subseteq Urls, how = "json" => S \subseteq Jsons
    PROVE  ShownRight(Shows(S, how)) /\ (S \cap Chosen = {} => NoneChosen(Shows(S, how)))
  BY DEF ShownRight, Shows, NoneChosen

LEMMA SystemForms ==
    ShownRight(AddressForm ++ ProxyForm ++ RegisterForm ++ PusherForm ++ WhitelistForm ++ SMTPForm ++ LoginForms)
  <1>1. \A S : \A how : how \notin {"url", "json"} => ShownRight(Shows(S, how))
    BY ShowsRight
  <1>2. \A f, g : ShownRight(f) /\ ShownRight(g) => ShownRight(f ++ g)
    BY MergedShownRight
  <1>3. \A S : ShownRight(Shows(S, "tick")) /\ ShownRight(Shows(S, "text")) /\ ShownRight(Shows(S, "list"))
               /\ ShownRight(Shows(S, "blankable")) /\ ShownRight(Shows(S, "chosen"))
    BY <1>1
  <1>4. \A S : S \subseteq Urls => ShownRight(Shows(S, "url"))
    BY ShowsRight
  <1>5. {"ServerAddress"} \subseteq Urls /\ {"OutProxyUrl"} \subseteq Urls /\ {"WeChatServerAddress"} \subseteq Urls
    BY DEF Urls
  <1>6. ShownRight(AddressForm) /\ ShownRight(ProxyForm) /\ ShownRight(Shows({"WeChatServerAddress"}, "url"))
    BY <1>4, <1>5 DEF AddressForm, ProxyForm
  <1>7. ShownRight(RegisterForm)
    BY <1>2, <1>3 DEF RegisterForm
  <1>8. ShownRight(PusherForm)
    BY <1>2, <1>3 DEF PusherForm
  <1>9. ShownRight(WhitelistForm)
    BY <1>2, <1>3 DEF WhitelistForm
  <1>10. ShownRight(SMTPForm)
    BY <1>2, <1>3 DEF SMTPForm
  <1>11. ShownRight(LoginForms)
    BY <1>2, <1>3, <1>6 DEF LoginForms
  <1>. QED BY <1>2, <1>6, <1>7, <1>8, <1>9, <1>10, <1>11

LEMMA OperationForms ==
    /\ ShownRight(GeneralForm ++ ScreenForm ++ ChannelForm ++ QuotaForm ++ RatioForm)
    /\ NoneChosen(GeneralForm ++ ScreenForm ++ ChannelForm ++ QuotaForm ++ RatioForm)
  <1>. DEFINE Good(f) == ShownRight(f) /\ NoneChosen(f)
  <1>1. \A f, g : Good(f) /\ Good(g) => Good(f ++ g)
    BY MergedShownRight
  <1>2. \A S : S \cap Chosen = {} => /\ Good(Shows(S, "tick")) /\ Good(Shows(S, "text")) /\ Good(Shows(S, "blankable"))
                                     /\ S \subseteq Jsons => Good(Shows(S, "json"))
    BY ShowsRight
  <1>. HIDE DEF Good
  <1>3. Good(Shows({"ChatLink"}, "text")) /\ Good(Shows({"QuotaPerUnit", "RetryTimes"}, "blankable"))
        /\ Good(Shows({"DisplayInCurrencyEnabled", "DisplayTokenStatEnabled", "BlankReplyRetryEnabled"}, "tick"))
    <2>1. /\ {"ChatLink"} \cap Chosen = {} /\ {"QuotaPerUnit", "RetryTimes"} \cap Chosen = {}
          /\ {"DisplayInCurrencyEnabled", "DisplayTokenStatEnabled", "BlankReplyRetryEnabled"} \cap Chosen = {}
      BY DEF Chosen
    <2>. QED BY <1>2, <2>1
  <1>4. Good(GeneralForm)
    BY <1>1, <1>3 DEF GeneralForm
  <1>5. Good(Shows({"DataExportInterval"}, "text")) /\ Good(Shows({"LogConsumeEnabled", "LogContentEnabled"}, "tick"))
        /\ Good(Shows({"ChannelDisableThreshold", "QuotaRemindThreshold"}, "text"))
        /\ Good(Shows({"AutomaticDisableChannelEnabled"}, "tick"))
    <2>1. /\ {"DataExportInterval"} \cap Chosen = {} /\ {"LogConsumeEnabled", "LogContentEnabled"} \cap Chosen = {}
          /\ {"ChannelDisableThreshold", "QuotaRemindThreshold"} \cap Chosen = {}
          /\ {"AutomaticDisableChannelEnabled"} \cap Chosen = {}
      BY DEF Chosen
    <2>. QED BY <1>2, <2>1
  <1>6. Good(ScreenForm) /\ Good(ChannelForm)
    BY <1>1, <1>5 DEF ScreenForm, ChannelForm
  <1>7. Good(QuotaForm)
    <2>1. {"QuotaForNewUser", "PreConsumedQuota", "QuotaForInvitee", "QuotaForInviter", "MiniQuota", "ProporTions"} \cap Chosen = {}
      BY DEF Chosen
    <2>. QED BY <1>2, <2>1 DEF QuotaForm
  <1>8. Good(RatioForm)
    <2>1. /\ {"ModelRatio", "ModelPrice", "CompletionRatio", "GroupRatio", "GroupUserRatio"} \cap Chosen = {}
          /\ {"ModelRatio", "ModelPrice", "CompletionRatio", "GroupRatio", "GroupUserRatio"} \subseteq Jsons
          /\ {"ModelRatioEnabled", "BillingByRequestEnabled", "UserGroupEnabled"} \cap Chosen = {}
      BY DEF Chosen, Jsons
    <2>2. /\ Good(Shows({"ModelRatio", "ModelPrice", "CompletionRatio", "GroupRatio", "GroupUserRatio"}, "json"))
          /\ Good(Shows({"ModelRatioEnabled", "BillingByRequestEnabled", "UserGroupEnabled"}, "tick"))
      BY <1>2, <2>1
    <2>. QED BY <1>1, <2>2 DEF RatioForm
  <1>9. Good(GeneralForm ++ ScreenForm ++ ChannelForm ++ QuotaForm ++ RatioForm)
    BY <1>1, <1>4, <1>6, <1>7, <1>8
  <1>. QED BY <1>9 DEF Good

LEMMA PaymentForms ==
    /\ ShownRight(PayForm ++ TopUpForm ++ Shows({"ServerAddress"}, "hidden"))
    /\ NoneChosen(PayForm ++ TopUpForm ++ Shows({"ServerAddress"}, "hidden"))
  <1>. DEFINE Good(f) == ShownRight(f) /\ NoneChosen(f)
  <1>1. \A f, g : Good(f) /\ Good(g) => Good(f ++ g)
    BY MergedShownRight
  <1>2. \A S : S \cap Chosen = {} => /\ Good(Shows(S, "tick")) /\ Good(Shows(S, "text")) /\ Good(Shows(S, "blankable"))
                                     /\ Good(Shows(S, "hidden"))
                                     /\ S \subseteq Jsons => Good(Shows(S, "json"))
                                     /\ S \subseteq Urls => Good(Shows(S, "url"))
    BY ShowsRight
  <1>. HIDE DEF Good
  <1>3. Good(PayForm)
    <2>1. /\ {"PayAddress"} \cap Chosen = {} /\ {"EpayId", "EpayKey"} \cap Chosen = {} /\ {"YzfZfb", "YzfWx"} \cap Chosen = {}
          /\ {"PayAddress"} \subseteq Urls
      BY DEF Chosen, Urls
    <2>2. Good(Shows({"PayAddress"}, "url")) /\ Good(Shows({"EpayId", "EpayKey"}, "blankable")) /\ Good(Shows({"YzfZfb", "YzfWx"}, "tick"))
      BY <1>2, <2>1
    <2>. QED BY <1>1, <2>2 DEF PayForm
  <1>4. Good(TopUpForm)
    <2>1. /\ {"TopupRatio", "TopupGroupRatio", "TopupAmount"} \cap Chosen = {}
          /\ {"TopupRatio", "TopupGroupRatio", "TopupAmount"} \subseteq Jsons
          /\ {"TopupAmountEnabled"} \cap Chosen = {} /\ {"TopUpLink", "RedempTionCount"} \cap Chosen = {}
      BY DEF Chosen, Jsons
    <2>2. /\ Good(Shows({"TopupRatio", "TopupGroupRatio", "TopupAmount"}, "json"))
          /\ Good(Shows({"TopupAmountEnabled"}, "tick")) /\ Good(Shows({"TopUpLink", "RedempTionCount"}, "text"))
      BY <1>2, <2>1
    <2>. QED BY <1>1, <2>2 DEF TopUpForm
  <1>5. Good(Shows({"ServerAddress"}, "hidden"))
    <2>1. {"ServerAddress"} \cap Chosen = {}
      BY DEF Chosen
    <2>. QED BY <1>2, <2>1
  <1>6. Good(PayForm ++ TopUpForm ++ Shows({"ServerAddress"}, "hidden"))
    BY <1>1, <1>3, <1>4, <1>5
  <1>. QED BY <1>6 DEF Good

\* The form of the page.
LEMMA FormRight ==
    ASSUME tab \in Tabs
    PROVE  ShownRight(Form) /\ (tab # "system" => NoneChosen(Form))
  <1>1. Form = CASE tab = "system" -> AddressForm ++ ProxyForm ++ RegisterForm ++ PusherForm ++ WhitelistForm ++ SMTPForm ++ LoginForms
                 [] tab = "operation" -> GeneralForm ++ ScreenForm ++ ChannelForm ++ QuotaForm ++ RatioForm
                 [] tab = "payment" -> PayForm ++ TopUpForm ++ Shows({"ServerAddress"}, "hidden")
                 [] OTHER -> OtherForm
    BY DEF Form, FormOn
  <1>2. ShownRight(OtherForm) /\ NoneChosen(OtherForm)
    <2>1. Lone \cap Chosen = {}
      BY DEF Lone, Chosen
    <2>2. ShownRight(Shows(Lone, "text")) /\ (Lone \cap Chosen = {} => NoneChosen(Shows(Lone, "text")))
      BY ShowsRight
    <2>. QED BY <2>1, <2>2 DEF OtherForm
  <1>. QED BY <1>1, <1>2, SystemForms, OperationForms, PaymentForms

\* What is saved is compared, checked and trimmed by what it is, not by the group it is in.
StepRight(s) == /\ s.changed <=> s.key \in Compared
                /\ s.key \in Urls => s.trim
                /\ s.key \in Jsons \ {"CompletionRatio"} => s.json = s.key
Unlike == Compared \cup Urls \cup (Jsons \ {"CompletionRatio"})
RightList(q) == DOMAIN q = 1..Len(q) /\ Len(q) \in Nat /\ \A n \in DOMAIN q : StepRight(q[n])

LEMMA StepsRight ==
    ASSUME NEW k, NEW j
    PROVE  /\ k \notin Unlike => StepRight(Save(k)) /\ StepRight(IfFilled(k))
           /\ k \in Urls \ (Compared \cup Jsons) => StepRight(Trimmed(Save(k)))
           /\ k \in Compared \ Jsons => StepRight(Trimmed(IfChanged(k)))
           /\ k \in Compared \ (Urls \cup Jsons) => /\ StepRight(IfChanged(k)) /\ StepRight(IfChangedAndFilled(k))
                                                    /\ StepRight([IfChanged(k) EXCEPT !.filled = j])
           /\ k \in Compared \ Urls => StepRight(Checked(k))
           /\ StepRight(CheckedBy("CompletionRatio", j))
           /\ k \notin Compared \cup Urls => StepRight([Checked(k) EXCEPT !.changed = FALSE])
  <1>1. "CompletionRatio" \in Compared \ Urls
    BY DEF Compared, Urls
  <1>. HIDE DEF Compared, Urls, Jsons
  <1>2. k \notin Unlike => StepRight(Save(k)) /\ StepRight(IfFilled(k))
    BY DEF Save, IfFilled, StepRight, Unlike
  <1>3. k \in Urls \ (Compared \cup Jsons) => StepRight(Trimmed(Save(k)))
    BY DEF Save, Trimmed, StepRight
  <1>4. k \in Compared \ Jsons => StepRight(Trimmed(IfChanged(k)))
    BY DEF Save, Trimmed, IfChanged, StepRight
  <1>5. k \in Compared \ (Urls \cup Jsons) => /\ StepRight(IfChanged(k)) /\ StepRight(IfChangedAndFilled(k))
                                              /\ StepRight([IfChanged(k) EXCEPT !.filled = j])
    BY DEF Save, IfChanged, IfChangedAndFilled, StepRight
  <1>6. k \in Compared \ Urls => StepRight(Checked(k))
    BY DEF Save, IfChanged, Checked, CheckedBy, StepRight
  <1>7. StepRight(CheckedBy("CompletionRatio", j))
    BY <1>1 DEF Save, IfChanged, CheckedBy, StepRight
  <1>8. k \notin Compared \cup Urls => StepRight([Checked(k) EXCEPT !.changed = FALSE])
    BY DEF Save, IfChanged, Checked, CheckedBy, StepRight
  <1>. QED BY <1>2, <1>3, <1>4, <1>5, <1>6, <1>7, <1>8

LEMMA ListRight ==
    ASSUME NEW a, StepRight(a)
    PROVE  /\ RightList(<<a>>)
           /\ \A b : StepRight(b) => RightList(<<a, b>>)
           /\ \A b, c : StepRight(b) /\ StepRight(c) => RightList(<<a, b, c>>)
           /\ \A b, c, d : StepRight(b) /\ StepRight(c) /\ StepRight(d) => RightList(<<a, b, c, d>>)
           /\ \A b, c, d, e : StepRight(b) /\ StepRight(c) /\ StepRight(d) /\ StepRight(e) => RightList(<<a, b, c, d, e>>)
           /\ \A b, c, d, e, f : StepRight(b) /\ StepRight(c) /\ StepRight(d) /\ StepRight(e) /\ StepRight(f) =>
                 RightList(<<a, b, c, d, e, f>>)
  <1>. HIDE DEF StepRight
  <1>. QED BY DEF RightList

\* The options saved in any case, one after the other.
LEMMA AllRight ==
    ASSUME NEW keys, DOMAIN keys = 1..Len(keys), Len(keys) \in Nat, \A n \in DOMAIN keys : keys[n] \notin Unlike
    PROVE  RightList(AllOf(keys))
  <1>1. AllOf(keys) = [n \in 1..Len(keys) |-> Save(keys[n])]
    BY DEF AllOf
  <1>2. DOMAIN AllOf(keys) = 1..Len(AllOf(keys)) /\ Len(AllOf(keys)) \in Nat
    BY <1>1
  <1>3. \A n \in DOMAIN AllOf(keys) : AllOf(keys)[n] = Save(keys[n]) /\ keys[n] \notin Unlike
    BY <1>1
  <1>. HIDE DEF AllOf
  <1>. QED BY <1>2, <1>3, StepsRight DEF RightList

LEMMA ListsRight ==
    /\ RightList(SMTPSaves) /\ RightList(PusherSaves) /\ RightList(WhitelistSaves)
    /\ RightList(WeChatSaves) /\ RightList(GitHubSaves) /\ RightList(TurnstileSaves)
    /\ RightList(AddressSaves) /\ RightList(ProxySaves)
    /\ RightList(UserGroupSaves) /\ RightList(PaySaves) /\ RightList(TopUpSaves)
  <1>. DEFINE Sometimes == {"SMTPServer", "SMTPAccount", "SMTPFrom", "SMTPPort", "SMTPToken", "AppToken", "Uids", "NotificationEmail",
                            "EmailDomainWhitelist", "WeChatAccountQRCodeImageURL", "WeChatServerToken",
                            "GitHubClientId", "GitHubClientSecret", "TurnstileSiteKey", "TurnstileSecretKey"}
              Always == {"EmailNotificationsEnabled", "WxPusherNotificationsEnabled", "EmailDomainRestrictionEnabled",
                         "UserGroupEnabled", "YzfZfb", "YzfWx", "EpayId", "EpayKey", "TopupAmountEnabled"}
  <1>1. Sometimes \subseteq Compared \ (Urls \cup Jsons)
    BY DEF Compared, Urls, Jsons
  <1>2. Always \cap Unlike = {}
    BY DEF Compared, Urls, Jsons, Unlike
  <1>3. \A k \in Sometimes : StepRight(IfChanged(k)) /\ StepRight(IfChangedAndFilled(k))
    BY <1>1, StepsRight
  <1>4. \A k \in Always : StepRight(Save(k)) /\ StepRight(IfFilled(k))
    BY <1>2, StepsRight
  <1>5. /\ StepRight([IfChanged("EmailDomainWhitelist") EXCEPT !.filled = "SMTPToken"])
        /\ StepRight(Trimmed(IfChanged("WeChatServerAddress")))
        /\ StepRight(Trimmed(Save("ServerAddress"))) /\ StepRight(Trimmed(Save("OutProxyUrl")))
        /\ StepRight(Trimmed(Save("PayAddress")))
        /\ StepRight([Checked("GroupUserRatio") EXCEPT !.changed = FALSE])
        /\ \A k \in {"TopupGroupRatio", "TopupRatio", "TopupAmount"} : StepRight(Checked(k))
    <2>1. /\ "EmailDomainWhitelist" \in Compared \ (Urls \cup Jsons) /\ "WeChatServerAddress" \in Compared \ Jsons
          /\ {"ServerAddress", "OutProxyUrl", "PayAddress"} \subseteq Urls \ (Compared \cup Jsons)
          /\ "GroupUserRatio" \notin Compared \cup Urls
          /\ {"TopupGroupRatio", "TopupRatio", "TopupAmount"} \subseteq Compared \ Urls
      BY DEF Compared, Urls, Jsons
    <2>2. \A k, j :
             /\ k \in Urls \ (Compared \cup Jsons) => StepRight(Trimmed(Save(k)))
             /\ k \in Compared \ Jsons => StepRight(Trimmed(IfChanged(k)))
             /\ k \in Compared \ (Urls \cup Jsons) => StepRight([IfChanged(k) EXCEPT !.filled = j])
             /\ k \in Compared \ Urls => StepRight(Checked(k))
             /\ k \notin Compared \cup Urls => StepRight([Checked(k) EXCEPT !.changed = FALSE])
      BY StepsRight
    <2>. HIDE DEF Compared, Urls, Jsons
    <2>. QED BY <2>1, <2>2
  <1>. HIDE DEF StepRight, RightList
  <1>6. RightList(SMTPSaves) /\ RightList(PusherSaves)
    <2>1. RightList(SMTPSaves)
      BY <1>3, ListRight DEF SMTPSaves
    <2>2. RightList(PusherSaves)
      BY <1>3, <1>4, ListRight DEF PusherSaves
    <2>. QED BY <2>1, <2>2
  <1>7. RightList(WhitelistSaves)
    BY <1>4, <1>5, ListRight DEF WhitelistSaves
  <1>8. RightList(WeChatSaves) /\ RightList(GitHubSaves) /\ RightList(TurnstileSaves)
    <2>1. RightList(WeChatSaves)
      BY <1>3, <1>5, ListRight DEF WeChatSaves
    <2>. QED BY <1>3, <2>1, ListRight DEF GitHubSaves, TurnstileSaves
  <1>9. RightList(AddressSaves) /\ RightList(ProxySaves)
    BY <1>5, ListRight DEF AddressSaves, ProxySaves
  <1>10. RightList(UserGroupSaves)
    BY <1>4, <1>5, ListRight DEF UserGroupSaves
  <1>11. RightList(PaySaves)
    BY <1>4, <1>5, ListRight DEF PaySaves
  <1>12. RightList(TopUpSaves)
    BY <1>4, <1>5, ListRight DEF TopUpSaves
  <1>. QED BY <1>6, <1>7, <1>8, <1>9, <1>10, <1>11, <1>12

LEMMA PlainListsRight ==
    /\ RightList(RegisterSaves) /\ RightList(ScreenSaves) /\ RightList(ChannelSaves)
    /\ RightList(QuotaSaves) /\ RightList(CodeSaves)
    /\ RightList(GeneralSaves) /\ RightList(RatioSaves)
    /\ \A k \in Chosen \cup Lone : RightList(<<Save(k)>>)
  <1>. DEFINE Always == {"ChatLink", "QuotaPerUnit", "RetryTimes", "DisplayInCurrencyEnabled", "DisplayTokenStatEnabled",
                         "BlankReplyRetryEnabled", "ModelRatioEnabled", "BillingByRequestEnabled"} \cup Chosen \cup Lone
              Ratios == {"ModelRatio", "ModelPrice", "GroupRatio"}
              Free(keys) == DOMAIN keys = 1..Len(keys) /\ Len(keys) \in Nat /\ \A n \in DOMAIN keys : keys[n] \notin Unlike
  <1>1. Free(<<"PasswordRegisterEnabled", "EmailVerificationEnabled", "GitHubOAuthEnabled",
               "WeChatAuthEnabled", "RegisterEnabled", "TurnstileCheckEnabled", "GroupEnable">>)
    BY DEF Unlike, Compared, Urls, Jsons
  <1>2. Free(<<"DataExportInterval", "LogConsumeEnabled", "LogContentEnabled">>)
    BY DEF Unlike, Compared, Urls, Jsons
  <1>3. Free(<<"ChannelDisableThreshold", "QuotaRemindThreshold", "AutomaticDisableChannelEnabled">>)
    BY DEF Unlike, Compared, Urls, Jsons
  <1>4. Free(<<"QuotaForNewUser", "PreConsumedQuota", "QuotaForInvitee", "QuotaForInviter", "MiniQuota", "ProporTions">>)
    BY DEF Unlike, Compared, Urls, Jsons
  <1>5. Free(<<"TopUpLink", "RedempTionCount">>)
    BY DEF Unlike, Compared, Urls, Jsons
  <1>6. \A keys : Free(keys) => RightList(AllOf(keys))
    BY AllRight
  <1>7. \A k \in Always : StepRight(Save(k)) /\ StepRight(IfFilled(k))
    <2>1. Always \cap Unlike = {}
      BY DEF Unlike, Compared, Urls, Jsons, Chosen, Lone
    <2>. QED BY <2>1, StepsRight
  <1>8. StepRight(CheckedBy("CompletionRatio", "GroupRatio")) /\ \A k \in Ratios : StepRight(Checked(k))
    <2>1. Ratios \subseteq Compared \ Urls
      BY DEF Compared, Urls
    <2>. QED BY <2>1, StepsRight
  <1>9. \A k \in Chosen \cup Lone : RightList(<<Save(k)>>)
    BY <1>7, ListRight
  <1>. HIDE DEF StepRight, RightList, Free
  <1>10. /\ RightList(RegisterSaves) /\ RightList(ScreenSaves) /\ RightList(ChannelSaves)
         /\ RightList(QuotaSaves) /\ RightList(CodeSaves)
    BY <1>1, <1>2, <1>3, <1>4, <1>5, <1>6 DEF RegisterSaves, ScreenSaves, ChannelSaves, QuotaSaves, CodeSaves
  <1>11. RightList(GeneralSaves)
    BY <1>7, ListRight DEF GeneralSaves
  <1>12. RightList(RatioSaves)
    BY <1>7, <1>8, ListRight DEF RatioSaves
  <1>. QED BY <1>9, <1>10, <1>11, <1>12

\* Whatever the page: its groups, those of the selects, and the other page's, on
\* which nothing is compared.
LEMMA SavesRight ==
    ASSUME tab \in Tabs
    PROVE  /\ \A g \in DOMAIN Saves : RightList(Saves[g])
           /\ tab = "system" => \A k \in Chosen : k \in DOMAIN Saves /\ Saves[k] = <<Save(k)>>
  <1>1. Saves = CASE tab = "system" -> SystemSaves [] tab = "operation" -> OperationSaves
                  [] tab = "payment" -> PaymentSaves [] OTHER -> OtherSaves
    BY DEF Saves, SavesOn
  <1>. DEFINE F == [Register |-> RegisterSaves, SMTP |-> SMTPSaves, Pusher |-> PusherSaves,
                    Whitelist |-> WhitelistSaves, WeChat |-> WeChatSaves, GitHub |-> GitHubSaves,
                    Turnstile |-> TurnstileSaves, Address |-> AddressSaves, Proxy |-> ProxySaves]
              C == [k \in Chosen |-> <<Save(k)>>]
  <1>2. /\ \A g \in DOMAIN SystemSaves : RightList(SystemSaves[g])
        /\ \A k \in Chosen : k \in DOMAIN SystemSaves /\ SystemSaves[k] = <<Save(k)>>
    <2>1. \A g \in DOMAIN F : RightList(F[g])
      <3>. HIDE DEF RightList
      <3>. QED BY ListsRight, PlainListsRight
    <2>2. DOMAIN F \cap Chosen = {}
      BY DEF Chosen
    <2>3. SystemSaves = F ++ C
      BY DEF SystemSaves
    <2>4. DOMAIN C = Chosen /\ \A k \in Chosen : C[k] = <<Save(k)>>
      OBVIOUS
    <2>. HIDE DEF F, C
    <2>5. DOMAIN SystemSaves = DOMAIN F \cup Chosen /\ \A g \in DOMAIN SystemSaves : SystemSaves[g] = IF g \in DOMAIN F THEN F[g] ELSE C[g]
      BY <2>3, <2>4 DEF ++
    <2>. QED BY <2>1, <2>2, <2>4, <2>5, PlainListsRight
  <1>3. \A g \in DOMAIN OperationSaves : RightList(OperationSaves[g])
    <2>. HIDE DEF RightList
    <2>. QED BY ListsRight, PlainListsRight DEF OperationSaves
  <1>4. \A g \in DOMAIN PaymentSaves : RightList(PaymentSaves[g])
    <2>. HIDE DEF RightList
    <2>. QED BY ListsRight, PlainListsRight DEF PaymentSaves
  <1>5. \A g \in DOMAIN OtherSaves : RightList(OtherSaves[g])
    BY PlainListsRight DEF OtherSaves
  <1>. QED BY <1>1, <1>2, <1>3, <1>4, <1>5

\* What the tables of forms and groups say of an option.
LEMMA TablesRight ==
    ASSUME tab \in Tabs
    PROVE  /\ \A g \in DOMAIN Saves : RightList(Saves[g])
           /\ \A k : Guarded(k) => k \in Options /\ k \in Compared /\ k # "EmailDomainWhitelist" /\ tab # "other"
           /\ \A k \in Options : /\ Form[k] = "url" => k \in Urls
                                 /\ Form[k] = "json" => k \in Jsons
           /\ \A k \in Chosen \cap Options : k \in DOMAIN Saves /\ Saves[k] = <<Save(k)>>
           /\ \A k \in Chosen : ~Guarded(k)
  <1>1. Options \subseteq DOMAIN Form /\ Form = FormOn[tab]
    BY DEF Options, OptionsOn, Form
  <1>2. \A k \in Options : /\ Form[k] = "url" => k \in Urls
                           /\ Form[k] = "json" => k \in Jsons
    BY <1>1, FormRight DEF ShownRight
  <1>3. \A k \in Chosen \cap Options : k \in DOMAIN Saves /\ Saves[k] = <<Save(k)>>
    BY <1>1, FormRight, SavesRight DEF NoneChosen
  <1>4. \A k : Guarded(k) => /\ k \in Options /\ k # "EmailDomainWhitelist"
                             /\ \E g \in DOMAIN Saves : \E n \in DOMAIN Saves[g] : Saves[g][n].key = k /\ Saves[g][n].changed
    BY DEF Guarded, GuardedOn, Options, Saves
  <1>5. \A k : Guarded(k) => k \in Compared
    BY <1>4, SavesRight DEF RightList, StepRight
  <1>6. \A k : Guarded(k) => tab # "other"
    <2>1. SUFFICES ASSUME NEW k, Guarded(k), tab = "other" PROVE FALSE
      OBVIOUS
    <2>2. Saves = OtherSaves
      BY <2>1 DEF Saves, SavesOn
    <2>3. PICK g \in DOMAIN OtherSaves : \E n \in DOMAIN OtherSaves[g] : OtherSaves[g][n].changed
      BY <1>4, <2>1, <2>2
    <2>4. OtherSaves[g] = <<Save(g)>>
      BY <2>3 DEF OtherSaves
    <2>5. \A x : \A n \in DOMAIN <<x>> : <<x>>[n] = x
      OBVIOUS
    <2>6. Save(g).changed
      BY <2>3, <2>4, <2>5
    <2>. QED BY <2>6 DEF Save
  <1>7. \A k \in Chosen : ~Guarded(k)
    <2>1. Chosen \cap Compared = {}
      BY DEF Chosen, Compared
    <2>. QED BY <1>5, <2>1
  <1>. HIDE DEF RightList
  <1>. QED BY <1>2, <1>3, <1>4, <1>5, <1>6, <1>7, SavesRight

-----------------------------------------------------------------------------
(* Settings: types                                                         *)

Texts == {"first", "new", "new/", "", "bad", "undefined", "0", "array"}
Forms8 == [Options -> Texts]
Faces == [load : {"sent", "read", "none"}, data : Forms8, loaded : BOOLEAN, early : BOOLEAN, waiting : BOOLEAN, text : BOOLEAN]
LineStates == [pc : {"idle", "sent", "back"}, group : DOMAIN Saves \cup {""}, at : Nat, seen : Forms8 \cup {<<>>}, base : Forms8 \cup {<<>>},
               text : BOOLEAN, here : BOOLEAN, loaded : BOOLEAN, answer : {"", "ok", "refused", "broken"}]

\* A submit under way is at a step of its group that is saved.
AtStep(r) == /\ r.group \in DOMAIN Saves /\ r.seen \in Forms8 /\ r.base \in Forms8
             /\ r.at \in DOMAIN Steps(r) /\ ~Skips(r, Steps(r)[r.at]) /\ ~Stops(r, Steps(r)[r.at])
\* Types of the settings, with the submits under way.
SettingTypes ==
    /\ tab \in Tabs
    /\ option \in Forms8 /\ inputs \in Forms8 /\ origin \in Forms8
    /\ face \in Faces
    /\ line \in [Lines -> LineStates]
    /\ \A l \in Lines : line[l].pc # "idle" => AtStep(line[l])
    /\ meant \in [Options -> SUBSET Texts]

\* The page stays the page.
SamePage == /\ Options' = Options /\ Saves' = Saves /\ Form' = Form /\ \A k : Guarded(k)' <=> Guarded(k)
LEMMA PageStays ==
    ASSUME tab' = tab
    PROVE  /\ SamePage /\ Forms8' = Forms8 /\ Faces' = Faces /\ LineStates' = LineStates
           /\ \A r : AtStep(r)' <=> AtStep(r)
  <1>1. SamePage
    BY DEF SamePage, Options, Saves, Form, Guarded
  <1>2. Forms8' = Forms8
    BY <1>1 DEF SamePage, Forms8
  <1>3. Faces' = Faces /\ LineStates' = LineStates
    BY <1>1, <1>2 DEF SamePage, Faces, LineStates
  <1>4. \A r : AtStep(r)' <=> AtStep(r)
    BY <1>1, <1>2 DEF SamePage, AtStep, Steps, Skips, Stops
  <1>. QED BY <1>1, <1>2, <1>3, <1>4

LEMMA IdleType == Idle \in LineStates /\ Idle.pc = "idle"
  <1>1. 0 \in Nat
    OBVIOUS
  <1>. QED BY <1>1 DEF Idle, LineStates

LEMMA FreshTypes == FirstInputs \in Forms8 /\ Nothing \in Forms8 /\ FreshFace \in Faces
  <1>1. FirstInputs \in Forms8 /\ Nothing \in Forms8
    BY DEF FirstInputs, Nothing, Forms8, Texts
  <1>. QED BY <1>1 DEF FreshFace, Faces

LEMMA CanBeTexts ==
    ASSUME NEW k, NEW v \in CanBe(k)
    PROVE  /\ v \in {"first", "new", "new/", "", "bad"} /\ v \in Texts /\ Trim(v) \in Texts /\ Trim(v) \notin {"undefined", "new/"}
           /\ v = "new/" => Form[k] = "url"
           /\ Form[k] = "json" => v # ""
  <1>1. CanBe(k) \in {{"first", "new", "new/"}, {"first", "new", "bad"}, {"", "new"}, {"first", "new", ""}, {"first", "new"}}
    BY DEF CanBe
  <1>2. v \in {"first", "new", "new/", "", "bad"}
    BY <1>1
  <1>3. v = "new/" => Form[k] = "url"
    BY DEF CanBe
  <1>4. Form[k] = "json" => v # ""
    BY DEF CanBe
  <1>. QED BY <1>2, <1>3, <1>4 DEF Texts, Trim

\* Numbers have a least one.
LEMMA LeastOfNumbers ==
    ASSUME NEW S, S \subseteq Nat, S # {}
    PROVE  \E n \in S : \A m \in S : n <= m
  <1>. DEFINE R == OpToRel(<, Nat)
  <1>1. IsWellFoundedOn(R, Nat)
    BY NatLessThanWellFounded
  <1>2. \A m, n \in Nat : m < n => <<m, n>> \in R
    <2>1. \A m, n \in Nat : m < n => \E p \in Nat, q \in Nat : <<m, n>> = <<p, q>> /\ p < q
      OBVIOUS
    <2>. QED BY <2>1, Zenon DEF OpToRel
  <1>. HIDE DEF R
  <1>3. \E n \in S : \A m \in S : ~ (<<m, n>> \in R)
    BY <1>1, WFMin, Zenon
  <1>4. \E n \in S : \A m \in S : ~ (m < n)
    BY <1>2, <1>3
  <1>. QED BY <1>4

\* The step a submit goes on with is the first that is left.
LEMMA NextStep ==
    ASSUME NEW r, tab \in Tabs, r.group \in DOMAIN Saves, LeftOf(r) # {}
    PROVE  /\ Min(LeftOf(r)) \in LeftOf(r) /\ \A n \in LeftOf(r) : Min(LeftOf(r)) <= n
           /\ LeftOf(r) \subseteq Nat /\ DOMAIN Steps(r) = 1..Len(Steps(r)) /\ Len(Steps(r)) \in Nat
  <1>1. RightList(Steps(r))
    BY SavesRight DEF Steps
  <1>2. DOMAIN Steps(r) = 1..Len(Steps(r)) /\ Len(Steps(r)) \in Nat
    BY <1>1 DEF RightList
  <1>3. LeftOf(r) \subseteq DOMAIN Steps(r)
    BY DEF LeftOf
  <1>4. LeftOf(r) \subseteq Nat
    <2>. HIDE DEF Steps, LeftOf
    <2>. QED BY <1>2, <1>3
  <1>5. \E n \in LeftOf(r) : \A m \in LeftOf(r) : n <= m
    <2>. HIDE DEF LeftOf
    <2>. QED BY <1>4, LeastOfNumbers
  <1>. QED BY <1>2, <1>4, <1>5 DEF Min

\* What the closure holds decides, whatever else the submit comes to.
LEMMA SameClosure ==
    ASSUME NEW r, NEW q, q.group = r.group, q.seen = r.seen, q.base = r.base, q.text = r.text
    PROVE  /\ Steps(q) = Steps(r)
           /\ \A s : (Skips(q, s) <=> Skips(r, s)) /\ (Stops(q, s) <=> Stops(r, s)) /\ Value(q, s) = Value(r, s)
  BY DEF Steps, Skips, Stops, Value

\* Where a submit is after it went on.
Ended(r, q, pardoned) ==
    /\ q.pc = "idle" /\ LeftOf(r) = {} /\ forgiven' = pardoned
    /\ origin' = IF r.here /\ Remembers(r.group) THEN Remembered(r) ELSE origin
Halted(r, q, pardoned) ==
    /\ q.pc = "idle" /\ LeftOf(r) # {} /\ origin' = origin
    /\ forgiven' = IF r.here THEN pardoned \cup NotSaved(r, Min(LeftOf(r))) ELSE pardoned
SendsNext(r, q, pardoned) ==
    /\ LeftOf(r) # {} /\ q = [r EXCEPT !.pc = "sent", !.at = Min(LeftOf(r)), !.answer = ""] /\ AtStep(q)
    /\ q.pc = "sent" /\ q.at = Min(LeftOf(r)) /\ q.group = r.group /\ q.seen = r.seen /\ q.base = r.base /\ q.text = r.text
    /\ q.here = r.here /\ q.loaded = r.loaded
    /\ origin' = origin /\ forgiven' = pardoned
GoesTo(l, r, q, shown, pardoned) ==
    /\ line' = [line EXCEPT ![l] = q] /\ q \in LineStates
    /\ Ended(r, q, pardoned) \/ Halted(r, q, pardoned) \/ SendsNext(r, q, pardoned)
    /\ face' \in Faces /\ face'.load = shown.load /\ face'.data = shown.data /\ face'.loaded = shown.loaded /\ face'.early = shown.early
LEMMA ProceedGoes ==
    ASSUME NEW l \in Lines, tab \in Tabs, NEW r \in LineStates, NEW shown \in Faces, NEW pardoned,
           r.group \in DOMAIN Saves, r.seen \in Forms8, r.base \in Forms8, Proceed(l, r, shown, pardoned)
    PROVE  \E q : GoesTo(l, r, q, shown, pardoned)
  <1>. DEFINE stopped == LeftOf(r) # {} /\ Stops(r, Steps(r)[Min(LeftOf(r))])
              ended == LeftOf(r) = {}
              sends == ~ended /\ ~stopped
              S == [r EXCEPT !.pc = "sent", !.at = Min(LeftOf(r)), !.answer = ""]
              q == IF sends THEN S ELSE Idle
  <1>1. /\ line' = [line EXCEPT ![l] = q]
        /\ face' = [shown EXCEPT !.waiting = shown.waiting \/ (sends /\ r.here)]
        /\ origin' = IF ended /\ r.here /\ Remembers(r.group) THEN Remembered(r) ELSE origin
        /\ forgiven' = IF stopped /\ r.here THEN pardoned \cup NotSaved(r, Min(LeftOf(r))) ELSE pardoned
    BY DEF Proceed
  <1>2. /\ face' \in Faces /\ face'.load = shown.load /\ face'.data = shown.data
        /\ face'.loaded = shown.loaded /\ face'.early = shown.early
    <2>1. \A b \in BOOLEAN : LET f == [shown EXCEPT !.waiting = b] IN
             f \in Faces /\ f.load = shown.load /\ f.data = shown.data /\ f.loaded = shown.loaded /\ f.early = shown.early
      <3>. HIDE DEF Forms8
      <3>. QED BY DEF Faces
    <2>2. (shown.waiting \/ (sends /\ r.here)) \in BOOLEAN
      <3>1. shown.waiting \in BOOLEAN /\ r.here \in BOOLEAN
        BY DEF Faces, LineStates
      <3>. QED BY <3>1
    <2>. HIDE DEF Faces, sends
    <2>. QED BY <1>1, <2>1, <2>2
  <1>3. ASSUME sends
        PROVE  /\ S \in LineStates /\ S.pc = "sent" /\ S.at = Min(LeftOf(r)) /\ S.group = r.group /\ S.seen = r.seen
               /\ S.base = r.base /\ S.text = r.text /\ S.here = r.here /\ S.loaded = r.loaded /\ AtStep(S)
    <2>1. Min(LeftOf(r)) \in LeftOf(r) /\ Min(LeftOf(r)) \in Nat
      BY <1>3, NextStep
    <2>2. /\ S \in LineStates /\ S.pc = "sent" /\ S.at = Min(LeftOf(r)) /\ S.group = r.group /\ S.seen = r.seen
          /\ S.base = r.base /\ S.text = r.text /\ S.here = r.here /\ S.loaded = r.loaded
      <3>1. \A m \in Nat : LET t == [r EXCEPT !.pc = "sent", !.at = m, !.answer = ""] IN
               /\ t \in LineStates /\ t.pc = "sent" /\ t.at = m /\ t.group = r.group /\ t.seen = r.seen
               /\ t.base = r.base /\ t.text = r.text /\ t.here = r.here /\ t.loaded = r.loaded
        <4>. HIDE DEF Forms8
        <4>. QED BY DEF LineStates
      <3>. HIDE DEF LineStates
      <3>. QED BY <2>1, <3>1
    <2>. HIDE DEF S
    <2>3. /\ Steps(S) = Steps(r)
          /\ \A s : (Skips(S, s) <=> Skips(r, s)) /\ (Stops(S, s) <=> Stops(r, s))
      BY <2>2, SameClosure
    <2>4. S.at \in DOMAIN Steps(r) /\ ~Skips(r, Steps(r)[S.at]) /\ ~Stops(r, Steps(r)[S.at])
      BY <1>3, <2>1, <2>2 DEF LeftOf
    <2>. QED BY <2>2, <2>3, <2>4 DEF AtStep
  <1>4. CASE ended
    <2>1. q = Idle /\ ~stopped
      BY <1>4
    <2>2. Ended(r, q, pardoned)
      BY <1>1, <1>4, <2>1, IdleType DEF Ended
    <2>. HIDE DEF q
    <2>. QED BY <1>1, <1>2, <2>1, <2>2, IdleType DEF GoesTo
  <1>5. CASE ~ended /\ stopped
    <2>1. q = Idle
      BY <1>5
    <2>2. Halted(r, q, pardoned)
      BY <1>1, <1>5, <2>1, IdleType DEF Halted
    <2>. HIDE DEF q
    <2>. QED BY <1>1, <1>2, <2>1, <2>2, IdleType DEF GoesTo
  <1>6. CASE sends
    <2>1. q = S
      BY <1>6
    <2>2. SendsNext(r, S, pardoned)
      <3>. HIDE DEF Steps
      <3>. QED BY <1>1, <1>3, <1>6 DEF SendsNext
    <2>. HIDE DEF q, S
    <2>. QED BY <1>1, <1>2, <1>3, <1>6, <2>1, <2>2 DEF GoesTo
  <1>. QED BY <1>4, <1>5, <1>6

LEMMA TypesFrom ==
    ASSUME SettingTypes, tab' = tab, option' \in Forms8, inputs' \in Forms8, origin' \in Forms8, face' \in Faces,
           line' \in [Lines -> LineStates], \A l \in Lines : line'[l].pc # "idle" => AtStep(line'[l]),
           meant' \in [Options -> SUBSET Texts]
    PROVE  SettingTypes'
  <1>1. Options' = Options /\ Forms8' = Forms8 /\ Faces' = Faces /\ LineStates' = LineStates /\ \A r : AtStep(r)' <=> AtStep(r)
    BY PageStays DEF SamePage
  <1>2. tab' \in Tabs
    BY DEF SettingTypes
  <1>3. \A l \in Lines : line'[l].pc # "idle" => AtStep(line[l])'
    BY <1>1
  <1>. HIDE DEF Forms8, Faces, LineStates, AtStep
  <1>. QED BY <1>1, <1>2, <1>3 DEF SettingTypes

LEMMA FaceChanges ==
    ASSUME NEW r \in Faces, NEW f \in Forms8, NEW b \in BOOLEAN, NEW c \in BOOLEAN
    PROVE  /\ [r EXCEPT !.load = "read", !.data = f] \in Faces
           /\ [r EXCEPT !.load = "none", !.data = f, !.loaded = b, !.text = c] \in Faces
           /\ [r EXCEPT !.load = "none", !.data = f] \in Faces
           /\ [r EXCEPT !.text = b] \in Faces
           /\ [r EXCEPT !.early = b] \in Faces
           /\ [r EXCEPT !.waiting = b, !.text = c] \in Faces
  <1>. HIDE DEF Forms8
  <1>. QED BY DEF Faces

LEMMA FaceFields ==
    ASSUME NEW r \in Faces
    PROVE  /\ r.data \in Forms8 /\ r.loaded \in BOOLEAN /\ r.text \in BOOLEAN /\ r.early \in BOOLEAN /\ r.waiting \in BOOLEAN
  <1>. HIDE DEF Forms8
  <1>. QED BY DEF Faces

LEMMA SentType ==
    ASSUME option \in Forms8
    PROVE  Sent \in Forms8
  <1>1. \A k \in Options : Sent[k] \in Texts
    BY DEF Sent, Forms8, Texts
  <1>. QED BY <1>1 DEF Sent, Forms8

LEMMA FormChanged ==
    ASSUME NEW f \in Forms8, NEW k, NEW v \in Texts
    PROVE  [f EXCEPT ![k] = v] \in Forms8
  <1>. HIDE DEF Texts
  <1>. QED BY DEF Forms8

LEMMA ReadingTypes ==
    ASSUME SettingTypes, ReadOptions \/ OptionsLoaded \/ OptionsNotLoaded
    PROVE  SettingTypes'
  <1>1. option \in Forms8 /\ face \in Faces /\ face.data \in Forms8 /\ Nothing \in Forms8 /\ Sent \in Forms8
        /\ face.loaded \in BOOLEAN /\ face.text \in BOOLEAN
    BY SentType, FaceFields, FreshTypes DEF SettingTypes
  <1>2. CASE ReadOptions
    <2>1. face' \in Faces
      BY <1>1, <1>2, FaceChanges DEF ReadOptions
    <2>. QED BY <1>2, <2>1, TypesFrom DEF ReadOptions, SettingTypes
  <1>3. CASE OptionsLoaded
    <2>1. face' \in Faces
      <3>1. (face.loaded \/ ~Unreadable) \in BOOLEAN /\ (face.text /\ Unreadable) \in BOOLEAN
        BY <1>1
      <3>. QED BY <1>1, <1>3, <3>1, FaceChanges DEF OptionsLoaded
    <2>2. inputs' \in Forms8 /\ origin' \in Forms8
      BY <1>1, <1>3 DEF OptionsLoaded, SettingTypes
    <2>. QED BY <1>3, <2>1, <2>2, TypesFrom DEF OptionsLoaded, SettingTypes
  <1>4. CASE OptionsNotLoaded
    <2>1. face' \in Faces
      BY <1>1, <1>4, FaceChanges DEF OptionsNotLoaded
    <2>. QED BY <1>4, <2>1, TypesFrom DEF OptionsNotLoaded, SettingTypes
  <1>. QED BY <1>2, <1>3, <1>4

LEMMA LineFields ==
    ASSUME NEW r \in LineStates
    PROVE  /\ [r EXCEPT !.here = FALSE] \in LineStates
           /\ \A a \in {"ok", "refused", "broken"} : [r EXCEPT !.pc = "back", !.answer = a] \in LineStates
           /\ [r EXCEPT !.answer = "broken"] \in LineStates
           /\ r.here \in BOOLEAN /\ r.loaded \in BOOLEAN /\ r.text \in BOOLEAN
  <1>. HIDE DEF Forms8
  <1>. QED BY DEF LineStates

LEMMA AtStepKept ==
    ASSUME NEW r, NEW q, q.group = r.group, q.seen = r.seen, q.base = r.base, q.text = r.text, q.at = r.at, AtStep(r)
    PROVE  AtStep(q)
  <1>1. Steps(q) = Steps(r) /\ \A s : (Skips(q, s) <=> Skips(r, s)) /\ (Stops(q, s) <=> Stops(r, s))
    BY SameClosure
  <1>. QED BY <1>1 DEF AtStep

LEMMA ReopenTypes ==
    ASSUME SettingTypes, Reopen
    PROVE  SettingTypes'
  <1>. DEFINE Left(l) == [line[l] EXCEPT !.here = FALSE]
  <1>1. line' = [l \in Lines |-> Left(l)]
    BY DEF Reopen
  <1>2. ASSUME NEW l \in Lines
        PROVE  line'[l] \in LineStates /\ (line'[l].pc # "idle" => AtStep(line'[l]))
    <2>1. line[l] \in LineStates /\ (line[l].pc # "idle" => AtStep(line[l]))
      BY DEF SettingTypes
    <2>2. line'[l] = Left(l)
      BY <1>1
    <2>3. /\ Left(l).pc = line[l].pc /\ Left(l).group = line[l].group /\ Left(l).seen = line[l].seen /\ Left(l).base = line[l].base
          /\ Left(l).text = line[l].text /\ Left(l).at = line[l].at /\ Left(l) \in LineStates
      <3>1. \A r \in LineStates : LET q == [r EXCEPT !.here = FALSE] IN
               /\ q.pc = r.pc /\ q.group = r.group /\ q.seen = r.seen /\ q.base = r.base /\ q.text = r.text /\ q.at = r.at
               /\ q \in LineStates
        <4>. HIDE DEF Forms8
        <4>. QED BY DEF LineStates
      <3>. HIDE DEF LineStates
      <3>. QED BY <2>1, <3>1
    <2>. HIDE DEF Left
    <2>. QED BY <2>1, <2>2, <2>3, AtStepKept
  <1>3. line' \in [Lines -> LineStates]
    <2>1. \A l \in Lines : Left(l) \in LineStates
      BY <1>1, <1>2
    <2>. HIDE DEF Left
    <2>. QED BY <1>1, <2>1
  <1>. QED BY <1>2, <1>3, FreshTypes, TypesFrom DEF Reopen, SettingTypes

LEMMA FieldChangeTypes ==
    ASSUME SettingTypes, ChangeField \/ ChangedElsewhere
    PROVE  SettingTypes'
  <1>1. CASE ChangeField
    <2>0. PICK k \in Edited \cap Options : \E v \in CanBe(k) :
             /\ inputs' = [inputs EXCEPT ![k] = v]
             /\ meant' = [meant EXCEPT ![k] = IF Guarded(k) THEN @ \cup {Trim(v)} ELSE @]
             /\ face' = [face EXCEPT !.text = @ /\ k # "EmailDomainWhitelist"]
      BY <1>1 DEF ChangeField
    <2>1. PICK v \in CanBe(k) :
             /\ inputs' = [inputs EXCEPT ![k] = v]
             /\ meant' = [meant EXCEPT ![k] = IF Guarded(k) THEN @ \cup {Trim(v)} ELSE @]
             /\ face' = [face EXCEPT !.text = @ /\ k # "EmailDomainWhitelist"]
      BY <2>0
    <2>2. v \in Texts /\ Trim(v) \in Texts
      BY CanBeTexts
    <2>3. inputs' \in Forms8
      BY <2>1, <2>2, FormChanged DEF SettingTypes
    <2>4. meant' \in [Options -> SUBSET Texts]
      <3>1. \A M \in [Options -> SUBSET Texts], U \in SUBSET Texts : [M EXCEPT ![k] = U] \in [Options -> SUBSET Texts]
        OBVIOUS
      <3>2. meant \in [Options -> SUBSET Texts]
        BY DEF SettingTypes
      <3>3. (IF Guarded(k) THEN meant[k] \cup {Trim(v)} ELSE meant[k]) \in SUBSET Texts
        <4>. HIDE DEF Texts
        <4>. QED BY <2>2, <3>2
      <3>. HIDE DEF Texts
      <3>. QED BY <2>1, <3>1, <3>2, <3>3
    <2>5. face' \in Faces
      <3>1. face \in Faces /\ face.text \in BOOLEAN
        BY FaceFields DEF SettingTypes
      <3>2. (face.text /\ k # "EmailDomainWhitelist") \in BOOLEAN
        BY <3>1
      <3>3. \A b \in BOOLEAN : [face EXCEPT !.text = b] \in Faces
        <4>. HIDE DEF Forms8
        <4>. QED BY <3>1 DEF Faces
      <3>. HIDE DEF Faces
      <3>. QED BY <2>1, <3>2, <3>3
    <2>. QED BY <1>1, <2>3, <2>4, <2>5, TypesFrom DEF ChangeField, SettingTypes
  <1>2. CASE ChangedElsewhere
    <2>0. PICK k \in Edited \cap Options : \E v \in CanBe(k) : option' = [option EXCEPT ![k] = v]
      BY <1>2 DEF ChangedElsewhere
    <2>1. PICK v \in CanBe(k) : option' = [option EXCEPT ![k] = v]
      BY <2>0
    <2>2. option' \in Forms8
      BY <2>1, FormChanged, CanBeTexts DEF SettingTypes
    <2>. QED BY <1>2, <2>2, TypesFrom DEF ChangedElsewhere, SettingTypes
  <1>. QED BY <1>1, <1>2

-----------------------------------------------------------------------------
(* Settings: what the steps of a submit do                                 *)

\* The step a submit is at, its option, what it sends, whether the page shows it.
StepAt(l) == Steps(line[l])[line[l].at]
KeyAt(l) == StepAt(l).key
ValueAt(l) == Value(line[l], StepAt(l))
ShownAt(l) == line[l].here /\ line[l].answer = "ok"

Goes(l, r, q, pardoned) ==
    /\ line' = [line EXCEPT ![l] = q] /\ q \in LineStates
    /\ Ended(r, q, pardoned) \/ Halted(r, q, pardoned) \/ SendsNext(r, q, pardoned)
    /\ face' \in Faces /\ face'.load = face.load /\ face'.data = face.data /\ face'.loaded = face.loaded
Begins(g, seen, l, r, q) ==
    /\ line[l].pc = "idle" /\ r \in LineStates
    /\ r.group = g /\ r.seen = seen /\ r.base = origin /\ r.at = 0 /\ r.here /\ (r.loaded <=> face.loaded /\ ~face.early)
    /\ Goes(l, r, q, (forgiven \ Keys(g)) \cup PassedOver(r))
    /\ face'.early <=> face.early \/ ~face.loaded
    /\ unsent' = unsent \ Keys(g) /\ UNCHANGED <<tab, option, inputs, meant>>
LEMMA StartBegins ==
    ASSUME SettingTypes, NEW g \in DOMAIN Saves, NEW seen \in Forms8, Start(g, seen)
    PROVE  \E l \in Lines : \E r, q : Begins(g, seen, l, r, q)
  <1>. DEFINE R == [Idle EXCEPT !.group = g, !.seen = seen, !.base = origin, !.text = face.text, !.loaded = face.loaded /\ ~face.early]
              shown == [face EXCEPT !.early = face.early \/ ~face.loaded]
              p == (forgiven \ Keys(g)) \cup PassedOver(R)
  <1>1. face \in Faces /\ face.text \in BOOLEAN /\ face.loaded \in BOOLEAN /\ face.early \in BOOLEAN /\ origin \in Forms8 /\ tab \in Tabs
    BY FaceFields DEF SettingTypes
  <1>2. PICK l \in Lines : line[l].pc = "idle" /\ Proceed(l, R, shown, p)
    <2>1. \E l \in Lines : LET r == R IN line[l].pc = "idle" /\ Proceed(l, r, shown, p)
      BY DEF Start
    <2>. QED BY <2>1
  <1>3. /\ R \in LineStates /\ R.group = g /\ R.seen = seen /\ R.base = origin /\ R.at = 0 /\ R.here
        /\ (R.loaded <=> face.loaded /\ ~face.early)
    <2>1. (face.loaded /\ ~face.early) \in BOOLEAN
      BY <1>1
    <2>2. R \in LineStates
      <3>1. \A i \in LineStates : [i EXCEPT !.group = g] \in LineStates
        <4>. HIDE DEF Forms8
        <4>. QED BY DEF LineStates
      <3>2. \A i \in LineStates : \A o \in Forms8 : [i EXCEPT !.seen = seen, !.base = o] \in LineStates
        <4>. HIDE DEF Forms8
        <4>. QED BY DEF LineStates
      <3>3. \A i \in LineStates : \A b, c \in BOOLEAN : [i EXCEPT !.text = b, !.loaded = c] \in LineStates
        <4>. HIDE DEF Forms8
        <4>. QED BY DEF LineStates
      <3>4. \A i, o, b, c : [i EXCEPT !.group = g, !.seen = seen, !.base = o, !.text = b, !.loaded = c]
                       = [[[i EXCEPT !.group = g] EXCEPT !.seen = seen, !.base = o] EXCEPT !.text = b, !.loaded = c]
        OBVIOUS
      <3>. HIDE DEF LineStates, Faces, Idle
      <3>. QED BY <1>1, <2>1, <3>1, <3>2, <3>3, <3>4, IdleType
    <2>3. R.group = g /\ R.seen = seen /\ R.base = origin /\ R.at = 0 /\ R.here
          /\ R.loaded = (face.loaded /\ ~face.early)
      BY DEF Idle
    <2>. QED BY <2>2, <2>3
  <1>4. /\ shown \in Faces /\ shown.load = face.load /\ shown.data = face.data /\ shown.loaded = face.loaded
        /\ shown.early = (face.early \/ ~face.loaded)
    <2>1. \A f \in Faces : \A b \in BOOLEAN : LET s == [f EXCEPT !.early = b] IN
             s \in Faces /\ s.load = f.load /\ s.data = f.data /\ s.loaded = f.loaded /\ s.early = b
      <3>. HIDE DEF Forms8
      <3>. QED BY DEF Faces
    <2>2. (face.early \/ ~face.loaded) \in BOOLEAN
      BY <1>1
    <2>. HIDE DEF Faces
    <2>. QED BY <1>1, <2>1, <2>2
  <1>. HIDE DEF R, shown, p
  <1>5. PICK q : GoesTo(l, R, q, shown, p)
    BY <1>1, <1>2, <1>3, <1>4, ProceedGoes
  <1>6. Goes(l, R, q, p) /\ face'.early = shown.early
    BY <1>4, <1>5 DEF GoesTo, Goes
  <1>7. Begins(g, seen, l, R, q)
    BY <1>2, <1>3, <1>4, <1>6 DEF Begins, Start, p
  <1>. QED BY <1>7

Answers(l, q) ==
    /\ line[l].pc = "back"
    /\ inputs' = IF ShownAt(l) THEN [inputs EXCEPT ![KeyAt(l)] = ValueAt(l)] ELSE inputs
    /\ Goes(l, line[l], q, forgiven \cup {j \in {KeyAt(l)} : line[l].here /\ (option[KeyAt(l)] # ValueAt(l) \/ ~ShownAt(l))})
    /\ face'.early = face.early
    /\ UNCHANGED <<tab, option, meant, unsent>>
LEMMA AnsweredGoesOn ==
    ASSUME SettingTypes, NEW l \in Lines, SaveAnswered(l)
    PROVE  \E q : Answers(l, q)
  <1>. DEFINE p == forgiven \cup {j \in {KeyAt(l)} : line[l].here /\ (option[KeyAt(l)] # ValueAt(l) \/ ~ShownAt(l))}
              text == face.text \/ (ShownAt(l) /\ KeyAt(l) = "EmailDomainWhitelist")
              waiting == face.waiting /\ ~line[l].here
              shown == [face EXCEPT !.waiting = waiting, !.text = text]
  <1>1. line[l].pc = "back" /\ inputs' = (IF ShownAt(l) THEN [inputs EXCEPT ![KeyAt(l)] = ValueAt(l)] ELSE inputs)
        /\ Proceed(l, line[l], shown, p) /\ UNCHANGED <<tab, option, meant, unsent>>
    BY DEF SaveAnswered, ShownAt, KeyAt, StepAt, ValueAt
  <1>2. /\ shown \in Faces /\ shown.load = face.load /\ shown.data = face.data /\ shown.loaded = face.loaded
        /\ shown.early = face.early
    <2>. DEFINE Faced(f, b, c) == [f EXCEPT !.waiting = b, !.text = c]
    <2>1. \A f \in Faces : \A b, c \in BOOLEAN :
             /\ Faced(f, b, c) \in Faces /\ Faced(f, b, c).load = f.load /\ Faced(f, b, c).data = f.data
             /\ Faced(f, b, c).loaded = f.loaded /\ Faced(f, b, c).early = f.early
      <3>. HIDE DEF Forms8, text, waiting, shown, p
      <3>. SUFFICES ASSUME NEW f \in Faces, NEW b \in BOOLEAN, NEW c \in BOOLEAN, NEW s, s = Faced(f, b, c)
                    PROVE  /\ s \in Faces /\ s.load = f.load /\ s.data = f.data
                           /\ s.loaded = f.loaded /\ s.early = f.early
        BY Zenon
      <3>1. s \in Faces
        BY DEF Faces
      <3>. QED BY DEF Faces
    <2>2. face \in Faces /\ text \in BOOLEAN /\ waiting \in BOOLEAN
      <3>1. face \in Faces
        BY DEF SettingTypes
      <3>. HIDE DEF Faces
      <3>. QED BY <3>1
    <2>3. shown = Faced(face, waiting, text)
      OBVIOUS
    <2>. HIDE DEF Faces, Faced, text, waiting, shown
    <2>. QED BY <2>1, <2>2, <2>3
  <1>3. tab \in Tabs /\ line[l] \in LineStates /\ line[l].group \in DOMAIN Saves /\ line[l].seen \in Forms8 /\ line[l].base \in Forms8
    BY <1>1 DEF SettingTypes, AtStep
  <1>. HIDE DEF shown, p
  <1>4. PICK q : GoesTo(l, line[l], q, shown, p)
    BY <1>1, <1>2, <1>3, ProceedGoes
  <1>5. Goes(l, line[l], q, p) /\ face'.early = face.early
    BY <1>2, <1>4 DEF GoesTo, Goes
  <1>6. Answers(l, q)
    BY <1>1, <1>5 DEF Answers, p
  <1>. QED BY <1>6

\* The closure of the second form of a submit: something is chosen and saved at once.
LEMMA ChosenForm ==
    ASSUME SettingTypes, NEW k \in Options, NEW v \in CanBe(k)
    PROVE  [inputs EXCEPT ![k] = v] \in Forms8
  BY FormChanged, CanBeTexts DEF SettingTypes

\* Of a step that went on, in the types.
LEMMA GoneTypes ==
    ASSUME SettingTypes, NEW l \in Lines, NEW r \in LineStates, NEW q, NEW p, Goes(l, r, q, p), r.seen \in Forms8,
           tab' = tab, option' = option, inputs' \in Forms8, meant' = meant
    PROVE  SettingTypes'
  <1>1. Remembered(r) \in Forms8
    <2>1. [r.seen EXCEPT !["EmailDomainWhitelist"] = "array"] \in Forms8
      BY FormChanged DEF Texts
    <2>. QED BY <2>1 DEF Remembered
  <1>2. origin' \in Forms8
    BY <1>1 DEF Goes, Ended, Halted, SendsNext, SettingTypes
  <1>3. line' \in [Lines -> LineStates] /\ \A m \in Lines : line'[m].pc # "idle" => AtStep(line'[m])
    <2>1. line \in [Lines -> LineStates] /\ line' = [line EXCEPT ![l] = q] /\ q \in LineStates /\ (q.pc # "idle" => AtStep(q))
      BY DEF Goes, Ended, Halted, SendsNext, SettingTypes
    <2>. HIDE DEF LineStates, AtStep
    <2>. QED BY <2>1 DEF SettingTypes
  <1>. QED BY <1>2, <1>3, TypesFrom DEF Goes, SettingTypes

\* What is saved at a step is a text, or not an option that is shown.
LEMMA ValueType ==
    ASSUME SettingTypes, NEW l \in Lines, line[l].pc # "idle"
    PROVE  /\ StepRight(StepAt(l))
           /\ KeyAt(l) \in Options => line[l].seen[KeyAt(l)] \in Texts /\ ValueAt(l) \in Texts
  <1>1. AtStep(line[l]) /\ tab \in Tabs
    BY DEF SettingTypes
  <1>2. StepRight(StepAt(l))
    BY <1>1, SavesRight DEF AtStep, StepAt, Steps, RightList
  <1>3. KeyAt(l) \in Options => line[l].seen[KeyAt(l)] \in Texts
    <2>. HIDE DEF Texts
    <2>. QED BY <1>1 DEF AtStep, Forms8
  <1>4. KeyAt(l) \in Options => ValueAt(l) \in Texts
    BY <1>3 DEF ValueAt, Value, KeyAt, Trim, Texts
  <1>. QED BY <1>2, <1>3, <1>4

LEMMA FormGiven ==
    ASSUME NEW f \in Forms8, NEW k, NEW v, k \in Options => v \in Texts
    PROVE  [f EXCEPT ![k] = v] \in Forms8
  <1>. HIDE DEF Texts
  <1>. QED BY DEF Forms8

LEMMA SubmitTypes ==
    ASSUME SettingTypes, SubmitGroup \/ Choose \/ \E l \in Lines : SaveAnswered(l)
    PROVE  SettingTypes'
  <1>1. ASSUME NEW g \in DOMAIN Saves, NEW seen \in Forms8, Start(g, seen)
        PROVE  SettingTypes'
    <2>1. PICK l \in Lines : \E r, q : Begins(g, seen, l, r, q)
      BY <1>1, StartBegins
    <2>2. PICK r, q : Begins(g, seen, l, r, q)
      BY <2>1
    <2>3. inputs' \in Forms8
      BY <2>2 DEF Begins, SettingTypes
    <2>. QED BY <2>2, <2>3, GoneTypes DEF Begins
  <1>2. CASE SubmitGroup
    BY <1>1, <1>2 DEF SubmitGroup, SettingTypes
  <1>3. CASE Choose
    <2>1. PICK k \in Buttons \cap Chosen \cap Options : \E v \in CanBe(k) : Start(k, [inputs EXCEPT ![k] = v])
      BY <1>3 DEF Choose
    <2>2. PICK v \in CanBe(k) : Start(k, [inputs EXCEPT ![k] = v])
      BY <2>1
    <2>3. k \in DOMAIN Saves
      BY TablesRight DEF SettingTypes
    <2>. QED BY <1>1, <2>2, <2>3, ChosenForm
  <1>4. ASSUME NEW l \in Lines, SaveAnswered(l)
        PROVE  SettingTypes'
    <2>1. PICK q : Answers(l, q)
      BY <1>4, AnsweredGoesOn
    <2>2. inputs' \in Forms8
      BY <2>1, ValueType, FormGiven DEF Answers, SettingTypes
    <2>3. line[l] \in LineStates /\ line[l].seen \in Forms8
      BY <2>1 DEF Answers, SettingTypes, AtStep
    <2>. QED BY <2>1, <2>2, <2>3, GoneTypes DEF Answers
  <1>. QED BY <1>2, <1>3, <1>4

\* What becomes of a submit that was handled, answered badly, or broke.
Rewritten(l, q) ==
    /\ line' = [line EXCEPT ![l] = q] /\ q \in LineStates /\ line[l].pc # "idle" /\ UNCHANGED <<tab, inputs, origin, face, meant, unsent>>
    /\ \/ q.pc = "idle" /\ option' = option
          /\ forgiven' = IF line[l].here THEN forgiven \cup NotSaved(line[l], line[l].at) ELSE forgiven
       \/ /\ q.pc = "back" /\ q.group = line[l].group /\ q.seen = line[l].seen /\ q.base = line[l].base
          /\ q.text = line[l].text /\ q.at = line[l].at /\ q.here = line[l].here /\ q.loaded = line[l].loaded
          /\ \/ option' = option /\ forgiven' = forgiven
             \/ HandleSave(l)
LEMMA LineRewritten ==
    ASSUME SettingTypes, NEW l \in Lines, HandleSave(l) \/ SaveTrouble(l) \/ SaveBroke(l)
    PROVE  \E q : Rewritten(l, q)
  <1>. DEFINE BackWith(a) == [line[l] EXCEPT !.pc = "back", !.answer = a]
  <1>1. line[l] \in LineStates
    BY DEF SettingTypes
  <1>2. ASSUME NEW a \in {"ok", "refused", "broken"}
        PROVE  /\ BackWith(a) \in LineStates /\ BackWith(a).pc = "back" /\ BackWith(a).group = line[l].group /\ BackWith(a).seen = line[l].seen
               /\ BackWith(a).base = line[l].base /\ BackWith(a).text = line[l].text /\ BackWith(a).at = line[l].at
               /\ BackWith(a).here = line[l].here /\ BackWith(a).loaded = line[l].loaded
    <2>1. \A r \in LineStates : LET q == [r EXCEPT !.pc = "back", !.answer = a] IN
             /\ q \in LineStates /\ q.pc = "back" /\ q.group = r.group /\ q.seen = r.seen /\ q.base = r.base
             /\ q.text = r.text /\ q.at = r.at /\ q.here = r.here /\ q.loaded = r.loaded
      <3>. HIDE DEF Forms8
      <3>. SUFFICES ASSUME NEW r \in LineStates, NEW q, q = [r EXCEPT !.pc = "back", !.answer = a]
                    PROVE  /\ q \in LineStates /\ q.pc = "back" /\ q.group = r.group /\ q.seen = r.seen /\ q.base = r.base
                           /\ q.text = r.text /\ q.at = r.at /\ q.here = r.here /\ q.loaded = r.loaded
        OBVIOUS
      <3>1. q \in LineStates
        BY DEF LineStates
      <3>. QED BY <3>1 DEF LineStates
    <2>. HIDE DEF LineStates
    <2>. QED BY <1>1, <2>1
  <1>3. ASSUME HandleSave(l) \/ SaveTrouble(l)
        PROVE  \E a \in {"ok", "refused", "broken"} : line' = [line EXCEPT ![l] = BackWith(a)]
    <2>1. line \in [Lines -> LineStates]
      BY DEF SettingTypes
    <2>2. CASE HandleSave(l)
      <3>. DEFINE r == line[l]
                  k == Steps(r)[r.at].key
                  v == IF Value(r, Steps(r)[r.at]) = "undefined" THEN "" ELSE Value(r, Steps(r)[r.at])
                  a == CASE v = "0" -> "broken" [] Refuses(k, v) \/ v = "bad" -> "refused" [] OTHER -> "ok"
      <3>2. line' = [line EXCEPT ![l].pc = "back", ![l].answer = a]
        BY <2>2, Zenon DEF HandleSave
      <3>3. a \in {"ok", "refused", "broken"}
        <4>. HIDE DEF v, k
        <4>. QED OBVIOUS
      <3>. HIDE DEF a
      <3>1. \E b \in {"ok", "refused", "broken"} : line' = [line EXCEPT ![l].pc = "back", ![l].answer = b]
        BY <3>2, <3>3
      <3>. HIDE DEF LineStates
      <3>. QED BY <2>1, <3>1
    <2>3. CASE SaveTrouble(l)
      <3>1. CASE \E a \in {"refused", "broken"} : line' = [line EXCEPT ![l].pc = "back", ![l].answer = a]
        <4>. HIDE DEF LineStates
        <4>. QED BY <2>1, <3>1
      <3>2. CASE line[l].pc = "back" /\ line' = [line EXCEPT ![l].answer = "broken"]
        <4>1. \A r \in LineStates : r.pc = "back" => [r EXCEPT !.answer = "broken"] = [r EXCEPT !.pc = "back", !.answer = "broken"]
          <5>. HIDE DEF Forms8
          <5>. QED BY DEF LineStates
        <4>. HIDE DEF LineStates
        <4>. QED BY <1>1, <3>2, <4>1
      <3>. QED BY <2>3, <3>1, <3>2 DEF SaveTrouble
    <2>. QED BY <1>3, <2>2, <2>3
  <1>4. CASE SaveBroke(l)
    <2>1. Rewritten(l, Idle)
      BY <1>4, IdleType DEF SaveBroke, Rewritten
    <2>. QED BY <2>1
  <1>5. CASE HandleSave(l) \/ SaveTrouble(l)
    <2>1. PICK a \in {"ok", "refused", "broken"} : line' = [line EXCEPT ![l] = BackWith(a)]
      BY <1>3, <1>5
    <2>2. line[l].pc # "idle"
      BY <1>5 DEF HandleSave, SaveTrouble
    <2>3. UNCHANGED <<tab, inputs, origin, face, meant, unsent>> /\ ((option' = option /\ forgiven' = forgiven) \/ HandleSave(l))
      BY <1>5 DEF HandleSave, SaveTrouble
    <2>4. Rewritten(l, BackWith(a))
      <3>. HIDE DEF BackWith
      <3>. QED BY <1>2, <2>1, <2>2, <2>3 DEF Rewritten
    <2>. QED BY <2>4
  <1>. QED BY <1>4, <1>5

LEMMA RewrittenTypes ==
    ASSUME SettingTypes, NEW l \in Lines, HandleSave(l) \/ SaveTrouble(l) \/ SaveBroke(l)
    PROVE  SettingTypes'
  <1>1. PICK q : Rewritten(l, q)
    BY LineRewritten
  <1>2. q.pc # "idle" => AtStep(q)
    <2>1. AtStep(line[l])
      BY <1>1 DEF Rewritten, SettingTypes
    <2>. QED BY <1>1, <2>1, AtStepKept DEF Rewritten
  <1>3. line' \in [Lines -> LineStates] /\ \A m \in Lines : line'[m].pc # "idle" => AtStep(line'[m])
    <2>1. line \in [Lines -> LineStates] /\ line' = [line EXCEPT ![l] = q] /\ q \in LineStates
      BY <1>1 DEF Rewritten, SettingTypes
    <2>. HIDE DEF LineStates, AtStep
    <2>. QED BY <1>2, <2>1 DEF SettingTypes
  <1>4. option' \in Forms8
    <2>1. CASE HandleSave(l)
      <3>1. (KeyAt(l) \in Options => ValueAt(l) \in Texts) /\ option \in Forms8 /\ "" \in Texts
        BY <1>1, ValueType DEF Rewritten, SettingTypes, Texts
      <3>2. PICK v : /\ v \in {ValueAt(l), ""}
                     /\ option' = [option EXCEPT ![KeyAt(l)] = v] \/ option' = option
        BY <2>1 DEF HandleSave, KeyAt, ValueAt, StepAt
      <3>3. KeyAt(l) \in Options => v \in Texts
        BY <3>1, <3>2
      <3>4. [option EXCEPT ![KeyAt(l)] = v] \in Forms8
        BY <3>1, <3>3, FormGiven
      <3>. QED BY <3>1, <3>2, <3>4
    <2>. QED BY <1>1, <2>1 DEF Rewritten, SettingTypes
  <1>. QED BY <1>1, <1>3, <1>4, TypesFrom DEF Rewritten, SettingTypes

LEMMA SettingTypesKept ==
    ASSUME SettingTypes, SettingsStep
    PROVE  SettingTypes'
  BY ReadingTypes, ReopenTypes, FieldChangeTypes, SubmitTypes, RewrittenTypes DEF SettingsStep

LEMMA SettingTypesInit ==
    ASSUME SettingsInit
    PROVE  SettingTypes
  <1>1. option \in Forms8
    BY DEF SettingsInit, Forms8, Texts
  <1>2. line \in [Lines -> LineStates] /\ \A l \in Lines : line[l].pc = "idle"
    <2>. HIDE DEF Idle, LineStates
    <2>. QED BY IdleType DEF SettingsInit
  <1>3. meant \in [Options -> SUBSET Texts]
    BY DEF SettingsInit
  <1>. QED BY <1>1, <1>2, <1>3, FreshTypes DEF SettingsInit, SettingTypes

-----------------------------------------------------------------------------
(* Settings: what is stored, and what was typed                            *)

Fits(k, v) == v # "array" /\ (v = "new/" => Form[k] = "url")
FormFits(f) == \A k \in Options : Fits(k, f[k])
Held(k, v) == /\ v \in {"first", "new", "", "bad"}
              /\ Form[k] = "json" /\ k # "CompletionRatio" => v \notin {"bad", ""}
\* Which values can be where: a slash at the end in addresses only, and nothing at the
\* server that a form could not have sent.
SettingValues ==
    /\ \A k \in Options : Held(k, option[k])
    /\ FormFits(inputs) /\ FormFits(face.data)
    /\ \A l \in Lines : line[l].pc # "idle" => FormFits(line[l].seen)
    /\ \A k \in Options : "undefined" \notin meant[k]

LEMMA ValuesFrom ==
    ASSUME tab' = tab, \A k \in Options : Held(k, option'[k]), FormFits(inputs'), FormFits(face'.data),
           \A l \in Lines : line'[l].pc # "idle" => FormFits(line'[l].seen),
           \A k \in Options : "undefined" \notin meant'[k]
    PROVE  SettingValues'
  <1>1. Options' = Options /\ Form' = Form
    BY PageStays DEF SamePage
  <1>2. \A k, v : (Held(k, v)' <=> Held(k, v)) /\ (Fits(k, v)' <=> Fits(k, v))
    BY <1>1 DEF Held, Fits
  <1>3. \A f : FormFits(f)' <=> FormFits(f)
    BY <1>1, <1>2 DEF FormFits
  <1>. HIDE DEF Held, FormFits
  <1>. QED BY <1>1, <1>2, <1>3 DEF SettingValues

LEMMA HeldIsPlain ==
    ASSUME NEW k, NEW v, Held(k, v)
    PROVE  v \notin {"array", "new/", "undefined"} /\ Trim(v) = v /\ Fits(k, v) /\ Fits(k, "undefined")
  BY DEF Held, Trim, Fits

LEMMA FirstFits == FormFits(FirstInputs) /\ FormFits(Nothing) /\ FormFits(FreshFace.data)
  BY DEF FirstInputs, Nothing, FreshFace, FormFits, Fits

\* What a step sends: never what no field can hold, and no JSON is checked.
LEMMA SentValue ==
    ASSUME SettingTypes, SettingValues, NEW l \in Lines, line[l].pc # "idle", KeyAt(l) \in Options
    PROVE  /\ ValueAt(l) \notin {"array", "new/"} /\ Fits(KeyAt(l), ValueAt(l)) /\ ValueAt(l) = Trim(line[l].seen[KeyAt(l)])
           /\ Form[KeyAt(l)] = "json" /\ KeyAt(l) # "CompletionRatio" => ValueAt(l) \notin {"bad", "", "undefined"}
  <1>. DEFINE k == KeyAt(l)
              u == line[l].seen[k]
  <1>1. StepRight(StepAt(l)) /\ u \in Texts
    BY ValueType
  <1>2. Fits(k, u)
    BY DEF SettingValues, FormFits
  <1>3. u = "new/" => StepAt(l).trim
    <2>1. u = "new/" => k \in Urls
      BY <1>2, TablesRight DEF Fits, SettingTypes
    <2>. HIDE DEF Urls, u
    <2>. QED BY <1>1, <2>1 DEF StepRight, KeyAt
  <1>4. ValueAt(l) = IF StepAt(l).trim THEN Trim(u) ELSE u
    BY DEF ValueAt, Value, KeyAt
  <1>5. ValueAt(l) = Trim(u)
    <2>. HIDE DEF u
    <2>. QED BY <1>3, <1>4 DEF Trim
  <1>6. ASSUME Form[k] = "json", k # "CompletionRatio"
        PROVE  u \notin {"bad", "", "undefined", "new/"}
    <2>1. k \in Jsons
      BY <1>6, TablesRight DEF SettingTypes
    <2>2. StepAt(l).json = k
      <3>. HIDE DEF Jsons
      <3>. QED BY <1>1, <1>6, <2>1 DEF StepRight, KeyAt
    <2>3. k # ""
      BY <2>1 DEF Jsons
    <2>4. ~Stops(line[l], StepAt(l))
      BY DEF SettingTypes, AtStep, StepAt
    <2>5. u \notin {"bad", "", "undefined"}
      BY <2>2, <2>3, <2>4 DEF Stops
    <2>. QED BY <2>5, <1>2, <1>6 DEF Fits
  <1>. HIDE DEF u, k
  <1>. QED BY <1>2, <1>5, <1>6 DEF Trim, Fits, u, k

LEMMA ReadingValues ==
    ASSUME SettingTypes, SettingValues, ReadOptions \/ OptionsLoaded \/ OptionsNotLoaded \/ Reopen
    PROVE  SettingValues'
  <1>1. CASE ReadOptions
    <2>1. face'.data = Sent
      <3>1. \A f \in Faces : [f EXCEPT !.load = "read", !.data = Sent].data = Sent
        <4>. HIDE DEF Forms8
        <4>. QED BY DEF Faces
      <3>. HIDE DEF Faces
      <3>. QED BY <1>1, <3>1 DEF ReadOptions, SettingTypes
    <2>2. FormFits(Sent)
      <3>1. \A k \in Options : Fits(k, option[k]) /\ Fits(k, "undefined")
        BY HeldIsPlain DEF SettingValues
      <3>. HIDE DEF Fits
      <3>. QED BY <3>1 DEF FormFits, Sent
    <2>. QED BY <1>1, <2>1, <2>2, ValuesFrom DEF ReadOptions, SettingValues
  <1>2. ASSUME OptionsLoaded \/ OptionsNotLoaded
        PROVE  face'.data = Nothing
    <2>1. \A f \in Faces : \A b, c \in BOOLEAN : /\ [f EXCEPT !.load = "none", !.data = Nothing, !.loaded = b, !.text = c].data = Nothing
                                              /\ [f EXCEPT !.load = "none", !.data = Nothing].data = Nothing
      <3>. HIDE DEF Forms8
      <3>. QED BY DEF Faces
    <2>2. face \in Faces /\ (face.loaded \/ ~Unreadable) \in BOOLEAN /\ (face.text /\ Unreadable) \in BOOLEAN
      BY FaceFields DEF SettingTypes
    <2>. HIDE DEF Faces
    <2>. QED BY <1>2, <2>1, <2>2 DEF OptionsLoaded, OptionsNotLoaded
  <1>3. CASE OptionsLoaded
    <2>1. FormFits(inputs')
      BY <1>3 DEF OptionsLoaded, SettingValues
    <2>. QED BY <1>2, <1>3, <2>1, FirstFits, ValuesFrom DEF OptionsLoaded, SettingValues
  <1>4. CASE OptionsNotLoaded
    BY <1>2, <1>4, FirstFits, ValuesFrom DEF OptionsNotLoaded, SettingValues
  <1>5. CASE Reopen
    <2>1. \A l \in Lines : line'[l].pc # "idle" => FormFits(line'[l].seen)
      <3>1. ASSUME NEW l \in Lines
            PROVE  line'[l].pc = line[l].pc /\ line'[l].seen = line[l].seen
        <4>1. \A r \in LineStates : [r EXCEPT !.here = FALSE].pc = r.pc /\ [r EXCEPT !.here = FALSE].seen = r.seen
          <5>. HIDE DEF Forms8
          <5>. QED BY DEF LineStates
        <4>. HIDE DEF LineStates
        <4>. QED BY <1>5, <4>1 DEF Reopen, SettingTypes
      <3>. HIDE DEF FormFits
      <3>. QED BY <3>1 DEF SettingValues
    <2>2. FormFits(inputs') /\ FormFits(face'.data)
      BY <1>5, FirstFits DEF Reopen
    <2>. QED BY <1>5, <2>1, <2>2, ValuesFrom DEF Reopen, SettingValues
  <1>. QED BY <1>1, <1>3, <1>4, <1>5

LEMMA FitsChanged ==
    ASSUME NEW f \in Forms8, NEW k, NEW v, k \in Options => Fits(k, v), FormFits(f)
    PROVE  FormFits([f EXCEPT ![k] = v])
  <1>1. \A j \in Options : [f EXCEPT ![k] = v][j] = IF j = k THEN v ELSE f[j]
    BY DEF Forms8
  <1>. QED BY <1>1 DEF FormFits

LEMMA CanBeFits ==
    ASSUME NEW k, NEW v \in CanBe(k)
    PROVE  Fits(k, v)
  BY CanBeTexts DEF Fits

LEMMA ChangeValues ==
    ASSUME SettingTypes, SettingValues, ChangeField \/ ChangedElsewhere
    PROVE  SettingValues'
  <1>1. CASE ChangeField
    <2>0. PICK k \in Edited \cap Options : \E v \in CanBe(k) :
             /\ inputs' = [inputs EXCEPT ![k] = v]
             /\ meant' = [meant EXCEPT ![k] = IF Guarded(k) THEN @ \cup {Trim(v)} ELSE @]
             /\ face' = [face EXCEPT !.text = @ /\ k # "EmailDomainWhitelist"]
      BY <1>1 DEF ChangeField
    <2>1. PICK v \in CanBe(k) :
             /\ inputs' = [inputs EXCEPT ![k] = v]
             /\ meant' = [meant EXCEPT ![k] = IF Guarded(k) THEN @ \cup {Trim(v)} ELSE @]
             /\ face' = [face EXCEPT !.text = @ /\ k # "EmailDomainWhitelist"]
      BY <2>0
    <2>2. FormFits(inputs')
      BY <2>1, FitsChanged, CanBeFits DEF SettingTypes, SettingValues
    <2>3. face'.data = face.data
      <3>1. face \in Faces
        BY DEF SettingTypes
      <3>. QED BY <2>1, <3>1 DEF Faces
    <2>4. Trim(v) # "undefined"
      BY CanBeTexts
    <2>5. \A j \in Options : "undefined" \notin meant'[j]
      <3>1. \A j \in Options : meant'[j] = meant[j] \/ meant'[j] = meant[j] \cup {Trim(v)}
        BY <2>1 DEF SettingTypes
      <3>. QED BY <2>4, <3>1 DEF SettingValues
    <2>. QED BY <1>1, <2>2, <2>3, <2>5, ValuesFrom DEF ChangeField, SettingValues
  <1>2. CASE ChangedElsewhere
    <2>0. PICK k \in Edited \cap Options : \E v \in CanBe(k) : v \notin {"new/", "bad"} /\ option' = [option EXCEPT ![k] = v]
      BY <1>2 DEF ChangedElsewhere
    <2>1. PICK v \in CanBe(k) : v \notin {"new/", "bad"} /\ option' = [option EXCEPT ![k] = v]
      BY <2>0
    <2>2. Held(k, v)
      BY <2>1, CanBeTexts DEF Held
    <2>3. \A j \in Options : Held(j, option'[j])
      <3>. HIDE DEF Held
      <3>. QED BY <2>1, <2>2 DEF SettingTypes, Forms8, SettingValues
    <2>. QED BY <1>2, <2>3, ValuesFrom DEF ChangedElsewhere, SettingValues
  <1>. QED BY <1>1, <1>2

LEMMA GoneValues ==
    ASSUME SettingTypes, SettingValues, NEW l \in Lines, NEW r \in LineStates, NEW q, NEW p, Goes(l, r, q, p),
           FormFits(r.seen), FormFits(inputs'), tab' = tab, option' = option, meant' = meant
    PROVE  SettingValues'
  <1>1. q.pc # "idle" => q.seen = r.seen
    BY DEF Goes, Ended, Halted, SendsNext
  <1>2. \A m \in Lines : line'[m].pc # "idle" => FormFits(line'[m].seen)
    <2>1. \A m \in Lines : line'[m] = IF m = l THEN q ELSE line[m]
      BY DEF Goes, SettingTypes
    <2>. HIDE DEF FormFits
    <2>. QED BY <1>1, <2>1 DEF SettingValues
  <1>. QED BY <1>2, ValuesFrom DEF Goes, SettingValues

LEMMA SubmitValues ==
    ASSUME SettingTypes, SettingValues, SubmitGroup \/ Choose \/ \E l \in Lines : SaveAnswered(l)
    PROVE  SettingValues'
  <1>1. ASSUME NEW g \in DOMAIN Saves, NEW seen \in Forms8, Start(g, seen), FormFits(seen)
        PROVE  SettingValues'
    <2>1. PICK l \in Lines : \E r, q : Begins(g, seen, l, r, q)
      BY <1>1, StartBegins
    <2>2. PICK r, q : Begins(g, seen, l, r, q)
      BY <2>1
    <2>. QED BY <1>1, <2>2, GoneValues DEF Begins, SettingValues
  <1>2. CASE SubmitGroup
    BY <1>1, <1>2 DEF SubmitGroup, SettingTypes, SettingValues
  <1>3. CASE Choose
    <2>1. PICK k \in Buttons \cap Chosen \cap Options : \E v \in CanBe(k) : Start(k, [inputs EXCEPT ![k] = v])
      BY <1>3 DEF Choose
    <2>2. PICK v \in CanBe(k) : Start(k, [inputs EXCEPT ![k] = v])
      BY <2>1
    <2>3. k \in DOMAIN Saves
      BY TablesRight DEF SettingTypes
    <2>4. FormFits([inputs EXCEPT ![k] = v])
      BY FitsChanged, CanBeFits DEF SettingTypes, SettingValues
    <2>. QED BY <1>1, <2>2, <2>3, <2>4, ChosenForm
  <1>4. ASSUME NEW l \in Lines, SaveAnswered(l)
        PROVE  SettingValues'
    <2>1. PICK q : Answers(l, q)
      BY <1>4, AnsweredGoesOn
    <2>2. FormFits(inputs')
      <3>1. line[l].pc # "idle"
        BY <2>1 DEF Answers
      <3>. QED BY <2>1, <3>1, SentValue, FitsChanged DEF Answers, SettingTypes, SettingValues
    <2>3. line[l] \in LineStates /\ FormFits(line[l].seen)
      BY <2>1 DEF Answers, SettingTypes, SettingValues
    <2>. QED BY <2>1, <2>2, <2>3, GoneValues DEF Answers
  <1>. QED BY <1>2, <1>3, <1>4

\* The option a request sets, and to what.
StoredAt(l) == IF ValueAt(l) = "undefined" THEN "" ELSE ValueAt(l)
LEMMA SaveStores ==
    ASSUME SettingTypes, SettingValues, NEW l \in Lines, HandleSave(l)
    PROVE  /\ line[l].pc = "sent"
           /\ \/ option' = option
              \/ option' = [option EXCEPT ![KeyAt(l)] = StoredAt(l)] /\ (KeyAt(l) \in Options => Held(KeyAt(l), StoredAt(l)))
           /\ forgiven \subseteq forgiven'
           /\ KeyAt(l) \in Options /\ option'[KeyAt(l)] # option[KeyAt(l)] /\ ~line[l].here => KeyAt(l) \in forgiven'
  <1>. DEFINE stores == ~Refuses(KeyAt(l), StoredAt(l)) /\ StoredAt(l) # "0"
  <1>1. /\ line[l].pc = "sent"
        /\ option' = IF stores THEN [option EXCEPT ![KeyAt(l)] = StoredAt(l)] ELSE option
        /\ forgiven' = IF stores /\ ~line[l].here /\ StoredAt(l) # option[KeyAt(l)] THEN forgiven \cup {KeyAt(l)} ELSE forgiven
    BY DEF HandleSave, KeyAt, StepAt, StoredAt, ValueAt
  <1>2. ASSUME stores, KeyAt(l) \in Options
        PROVE  Held(KeyAt(l), StoredAt(l))
    <2>1. ValueAt(l) \in Texts
      BY <1>1, <1>2, ValueType
    <2>2. /\ ValueAt(l) \notin {"array", "new/"}
          /\ Form[KeyAt(l)] = "json" /\ KeyAt(l) # "CompletionRatio" => ValueAt(l) \notin {"bad", "", "undefined"}
      BY <1>1, <1>2, SentValue
    <2>. QED BY <1>2, <2>1, <2>2 DEF StoredAt, Held, Texts
  <1>3. KeyAt(l) \in Options /\ option' = [option EXCEPT ![KeyAt(l)] = StoredAt(l)] => option'[KeyAt(l)] = StoredAt(l)
    BY DEF SettingTypes, Forms8
  <1>. HIDE DEF stores
  <1>4. option' = option \/ (option' = [option EXCEPT ![KeyAt(l)] = StoredAt(l)] /\ (KeyAt(l) \in Options => Held(KeyAt(l), StoredAt(l))))
    BY <1>1, <1>2
  <1>5. KeyAt(l) \in Options /\ option'[KeyAt(l)] # option[KeyAt(l)] /\ ~line[l].here => KeyAt(l) \in forgiven'
    BY <1>1, <1>3
  <1>. QED BY <1>1, <1>4, <1>5

LEMMA RewrittenValues ==
    ASSUME SettingTypes, SettingValues, NEW l \in Lines, HandleSave(l) \/ SaveTrouble(l) \/ SaveBroke(l)
    PROVE  SettingValues'
  <1>1. PICK q : Rewritten(l, q)
    BY LineRewritten
  <1>2. \A m \in Lines : line'[m].pc # "idle" => FormFits(line'[m].seen)
    <2>1. \A m \in Lines : line'[m] = IF m = l THEN q ELSE line[m]
      BY <1>1 DEF Rewritten, SettingTypes
    <2>2. (q.pc # "idle" => q.seen = line[l].seen) /\ line[l].pc # "idle"
      BY <1>1 DEF Rewritten
    <2>. HIDE DEF FormFits
    <2>. QED BY <2>1, <2>2 DEF SettingValues
  <1>3. \A k \in Options : Held(k, option'[k])
    <2>1. CASE HandleSave(l)
      <3>1. option' = option
            \/ (option' = [option EXCEPT ![KeyAt(l)] = StoredAt(l)] /\ (KeyAt(l) \in Options => Held(KeyAt(l), StoredAt(l))))
        BY <2>1, SaveStores
      <3>. HIDE DEF Held
      <3>. QED BY <3>1 DEF SettingTypes, Forms8, SettingValues
    <2>. QED BY <1>1, <2>1 DEF Rewritten, SettingValues
  <1>. QED BY <1>1, <1>2, <1>3, ValuesFrom DEF Rewritten, SettingValues

LEMMA SettingValuesKept ==
    ASSUME SettingTypes, SettingValues, SettingsStep
    PROVE  SettingValues'
  BY ReadingValues, ChangeValues, SubmitValues, RewrittenValues DEF SettingsStep

LEMMA SettingValuesInit ==
    ASSUME SettingsInit
    PROVE  SettingValues
  <1>1. \A k \in Options : Held(k, option[k])
    <2>1. "EmailDomainWhitelist" \notin Jsons
      BY DEF Jsons
    <2>2. Form["EmailDomainWhitelist"] = "json" /\ "EmailDomainWhitelist" \in Options => "EmailDomainWhitelist" \in Jsons
      BY TablesRight DEF SettingsInit
    <2>. HIDE DEF Jsons
    <2>. QED BY <2>1, <2>2 DEF SettingsInit, Held
  <1>2. \A l \in Lines : line[l].pc = "idle"
    <2>. HIDE DEF Idle
    <2>. QED BY IdleType DEF SettingsInit
  <1>. QED BY <1>1, <1>2, FirstFits DEF SettingsInit, SettingValues

-----------------------------------------------------------------------------
(* Settings: nothing is saved that was not typed                           *)

WasTyped(k, v) == Trim(v) \in meant[k]
\* A page that was loaded in time differs from what was loaded by what was typed.
PageMeant ==
    /\ face.loaded => face.load = "none"
    /\ face.loaded /\ ~face.early => \A k : Guarded(k) => inputs[k] = origin[k] \/ WasTyped(k, inputs[k])
\* So does the closure of a submit; and the page differs from the closure by what was typed.
LineMeant(r) ==
    /\ r.here => IF r.loaded THEN face.loaded /\ ~face.early ELSE face.early
    /\ r.loaded => \A k : Guarded(k) => /\ r.seen[k] = r.base[k] \/ WasTyped(k, r.seen[k])
                                        /\ r.here => inputs[k] = r.seen[k] \/ WasTyped(k, inputs[k])
SettingsTyped == PageMeant /\ \A l \in Lines : line[l].pc # "idle" => LineMeant(line[l])

LEMMA ReadingFaces ==
    ASSUME SettingTypes
    PROVE  /\ ReadOptions => /\ face.load = "sent" /\ face'.load = "read" /\ face'.loaded = face.loaded /\ face'.early = face.early
           /\ OptionsNotLoaded => /\ face.load # "none" /\ face'.load = "none" /\ face'.loaded = face.loaded
                                  /\ face'.early = face.early
           /\ OptionsLoaded => /\ face.load = "read" /\ face'.load = "none" /\ face'.loaded = (face.loaded \/ ~Unreadable)
                               /\ face'.early = face.early
           /\ ChangeField => face'.load = face.load /\ face'.loaded = face.loaded /\ face'.early = face.early
           /\ Reopen => ~face'.loaded /\ ~face'.early
  <1>1. face \in Faces /\ (face.loaded \/ ~Unreadable) \in BOOLEAN /\ (face.text /\ Unreadable) \in BOOLEAN
    BY FaceFields DEF SettingTypes
  <1>2. \A f \in Faces : \A d :
           /\ LET r == [f EXCEPT !.load = "read", !.data = d] IN r.load = "read" /\ r.loaded = f.loaded /\ r.early = f.early
           /\ LET r == [f EXCEPT !.load = "none", !.data = d] IN r.load = "none" /\ r.loaded = f.loaded /\ r.early = f.early
    <2>. HIDE DEF Forms8
    <2>. QED BY DEF Faces
  <1>3. ChangeField => \E c \in BOOLEAN : face' = [face EXCEPT !.text = c]
    <2>. DEFINE c(k) == face.text /\ k # "EmailDomainWhitelist"
    <2>1. ChangeField => \E k : face' = [face EXCEPT !.text = c(k)]
      BY DEF ChangeField
    <2>2. \A k : c(k) \in BOOLEAN
      BY <1>1, FaceFields
    <2>. HIDE DEF Faces, c
    <2>. QED BY <2>1, <2>2
  <1>4. Reopen => ~face'.loaded /\ ~face'.early
    BY DEF Reopen, FreshFace
  <1>. HIDE DEF Faces
  <1>5. ReadOptions => /\ face.load = "sent" /\ face'.load = "read" /\ face'.loaded = face.loaded /\ face'.early = face.early
    BY <1>1, <1>2 DEF ReadOptions
  <1>6. OptionsNotLoaded => /\ face.load # "none" /\ face'.load = "none" /\ face'.loaded = face.loaded /\ face'.early = face.early
    BY <1>1, <1>2 DEF OptionsNotLoaded
  <1>7. OptionsLoaded => /\ face.load = "read" /\ face'.load = "none" /\ face'.loaded = (face.loaded \/ ~Unreadable)
                         /\ face'.early = face.early
    <2>. DEFINE b == face.loaded \/ ~Unreadable
                c == face.text /\ Unreadable
    <2>1. OptionsLoaded => face.load = "read" /\ face' = [face EXCEPT !.load = "none", !.data = Nothing, !.loaded = b, !.text = c]
      BY DEF OptionsLoaded
    <2>2. b \in BOOLEAN /\ c \in BOOLEAN
      BY <1>1
    <2>3. b = (face.loaded \/ ~Unreadable)
      OBVIOUS
    <2>. HIDE DEF Unreadable, b, c
    <2>4. \A d : [face EXCEPT !.load = "none", !.data = d, !.loaded = b, !.text = c].load = "none"
                 /\ [face EXCEPT !.load = "none", !.data = d, !.loaded = b, !.text = c].loaded = b
                 /\ [face EXCEPT !.load = "none", !.data = d, !.loaded = b, !.text = c].early = face.early
      BY <1>1, <2>2 DEF Faces
    <2>5. OptionsLoaded => face.load = "read" /\ face'.load = "none" /\ face'.loaded = b /\ face'.early = face.early
      BY <2>1, <2>4, Zenon
    <2>. QED BY <2>3, <2>5
  <1>8. ChangeField => face'.load = face.load /\ face'.loaded = face.loaded /\ face'.early = face.early
    <2>1. \A c : /\ [face EXCEPT !.text = c].load = face.load /\ [face EXCEPT !.text = c].loaded = face.loaded
               /\ [face EXCEPT !.text = c].early = face.early
      BY <1>1 DEF Faces
    <2>. QED BY <1>3, <2>1, Zenon
  <1>. QED BY <1>4, <1>5, <1>6, <1>7, <1>8

\* Steps that change neither the fields nor what counts as typed.
LEMMA TypedKept ==
    ASSUME SettingsTyped, tab' = tab, meant' = meant, inputs' = inputs, origin' = origin, line' = line,
           face'.loaded = face.loaded, face'.early = face.early, face'.load = "none" \/ ~face.loaded
    PROVE  SettingsTyped'
  <1>1. \A k : Guarded(k)' <=> Guarded(k)
    BY PageStays DEF SamePage
  <1>2. \A k, v : WasTyped(k, v)' <=> WasTyped(k, v)
    BY DEF WasTyped
  <1>3. \A r : LineMeant(r) => LineMeant(r)'
    BY <1>1, <1>2 DEF LineMeant
  <1>. QED BY <1>1, <1>2, <1>3 DEF SettingsTyped, PageMeant

LEMMA ReadingTyped ==
    ASSUME SettingTypes, SettingsTyped, ReadOptions \/ OptionsLoaded \/ OptionsNotLoaded
    PROVE  SettingsTyped'
  <1>1. face.loaded => face.load = "none"
    BY DEF SettingsTyped, PageMeant
  <1>2. CASE ReadOptions
    BY <1>1, <1>2, ReadingFaces, TypedKept DEF ReadOptions
  <1>3. CASE OptionsNotLoaded
    BY <1>1, <1>3, ReadingFaces, TypedKept DEF OptionsNotLoaded
  <1>4. CASE OptionsLoaded /\ Unreadable
    <2>1. face'.loaded = face.loaded
      BY <1>1, <1>4, ReadingFaces, FaceFields DEF SettingTypes
    <2>. QED BY <1>4, <2>1, ReadingFaces, TypedKept DEF OptionsLoaded
  <1>5. CASE OptionsLoaded /\ ~Unreadable
    <2>1. face'.load = "none" /\ ~face.loaded /\ face'.early = face.early /\ tab' = tab /\ meant' = meant /\ line' = line
      BY <1>1, <1>5, ReadingFaces DEF OptionsLoaded
    <2>2. \A k : Guarded(k)' <=> Guarded(k)
      BY <2>1, PageStays DEF SamePage
    <2>3. \A k : Guarded(k) => inputs'[k] = origin'[k]
      BY <1>5, TablesRight DEF OptionsLoaded, SettingTypes
    <2>4. \A l \in Lines : line[l].pc # "idle" /\ line[l].here => ~line[l].loaded /\ face.early
      BY <2>1 DEF SettingsTyped, LineMeant
    <2>5. \A k, v : WasTyped(k, v)' <=> WasTyped(k, v)
      BY <2>1 DEF WasTyped
    <2>6. \A l \in Lines : line[l].pc # "idle" => LineMeant(line[l])'
      BY <2>1, <2>2, <2>4, <2>5 DEF SettingsTyped, LineMeant
    <2>7. PageMeant'
      BY <2>1, <2>2, <2>3 DEF PageMeant
    <2>. QED BY <2>1, <2>6, <2>7 DEF SettingsTyped
  <1>. QED BY <1>2, <1>3, <1>4, <1>5

\* A field is changed: what it holds is typed now.
LEMMA ChangeTyped ==
    ASSUME SettingTypes, SettingsTyped, ChangeField \/ ChangedElsewhere
    PROVE  SettingsTyped'
  <1>1. CASE ChangedElsewhere
    BY <1>1, TypedKept DEF ChangedElsewhere, SettingsTyped, PageMeant
  <1>2. CASE ChangeField
    <2>1. PICK k \in Edited \cap Options : \E v \in CanBe(k) :
             /\ inputs' = [inputs EXCEPT ![k] = v]
             /\ meant' = [meant EXCEPT ![k] = IF Guarded(k) THEN @ \cup {Trim(v)} ELSE @]
      BY <1>2 DEF ChangeField
    <2>2. PICK v \in CanBe(k) :
             /\ inputs' = [inputs EXCEPT ![k] = v]
             /\ meant' = [meant EXCEPT ![k] = IF Guarded(k) THEN @ \cup {Trim(v)} ELSE @]
      BY <2>1
    <2>3. tab' = tab /\ origin' = origin /\ line' = line /\ face'.load = face.load /\ face'.loaded = face.loaded /\ face'.early = face.early
      BY <1>2, ReadingFaces DEF ChangeField
    <2>4. \A j : Guarded(j)' <=> Guarded(j)
      BY <2>3, PageStays DEF SamePage
    <2>5. \A j : Guarded(j) => j \in Options
      BY TablesRight DEF SettingTypes
    <2>6. \A j : Guarded(j) => /\ meant[j] \subseteq meant'[j]
                               /\ inputs'[j] = inputs[j] \/ Trim(inputs'[j]) \in meant'[j]
      <3>1. inputs \in Forms8 /\ DOMAIN meant = Options
        BY DEF SettingTypes
      <3>2. \A j \in Options : inputs'[j] = IF j = k THEN v ELSE inputs[j]
        BY <2>2, <3>1 DEF Forms8
      <3>3. \A j \in Options : meant'[j] = IF j = k /\ Guarded(k) THEN meant[j] \cup {Trim(v)} ELSE meant[j]
        BY <2>2, <3>1
      <3>. HIDE DEF Guarded, Trim
      <3>. QED BY <2>5, <3>2, <3>3
    <2>7. \A j, u : Guarded(j) /\ WasTyped(j, u) => WasTyped(j, u)'
      BY <2>6 DEF WasTyped
    <2>8. \A j : Guarded(j) => inputs'[j] = inputs[j] \/ WasTyped(j, inputs[j])'
      BY <2>6 DEF WasTyped
    <2>9. PageMeant'
      BY <2>3, <2>4, <2>7, <2>8 DEF SettingsTyped, PageMeant
    <2>10. \A r : LineMeant(r) => LineMeant(r)'
      BY <2>3, <2>4, <2>7, <2>8 DEF LineMeant
    <2>. QED BY <2>3, <2>9, <2>10 DEF SettingsTyped
  <1>. QED BY <1>1, <1>2

LEMMA ReopenTyped ==
    ASSUME SettingTypes, SettingsTyped, Reopen
    PROVE  SettingsTyped'
  <1>1. ~face'.loaded /\ tab' = tab /\ meant' = meant
    BY ReadingFaces DEF Reopen
  <1>2. \A k : Guarded(k)' <=> Guarded(k)
    BY <1>1, PageStays DEF SamePage
  <1>3. ASSUME NEW l \in Lines
        PROVE  /\ line'[l].pc = line[l].pc /\ line'[l].seen = line[l].seen /\ line'[l].base = line[l].base
               /\ line'[l].loaded = line[l].loaded /\ ~line'[l].here
    <2>1. \A r \in LineStates : LET q == [r EXCEPT !.here = FALSE] IN
             q.pc = r.pc /\ q.seen = r.seen /\ q.base = r.base /\ q.loaded = r.loaded /\ ~q.here
      <3>. HIDE DEF Forms8
      <3>. QED BY DEF LineStates
    <2>2. line[l] \in LineStates /\ line'[l] = [line[l] EXCEPT !.here = FALSE]
      BY DEF Reopen, SettingTypes
    <2>. HIDE DEF LineStates
    <2>. QED BY <2>1, <2>2
  <1>4. \A k, v : WasTyped(k, v)' <=> WasTyped(k, v)
    BY <1>1 DEF WasTyped
  <1>5. ASSUME NEW l \in Lines, line'[l].pc # "idle"
        PROVE  LineMeant(line[l])'
    <2>1. LineMeant(line[l])
      BY <1>3, <1>5 DEF SettingsTyped
    <2>. QED BY <1>2, <1>3, <1>4, <2>1 DEF LineMeant
  <1>. QED BY <1>1, <1>5 DEF SettingsTyped, PageMeant

LEMMA RewrittenTyped ==
    ASSUME SettingTypes, SettingsTyped, NEW l \in Lines, HandleSave(l) \/ SaveTrouble(l) \/ SaveBroke(l)
    PROVE  SettingsTyped'
  <1>1. PICK q : Rewritten(l, q)
    BY LineRewritten
  <1>2. tab' = tab /\ meant' = meant /\ inputs' = inputs /\ origin' = origin /\ face' = face
    <2>1. HandleSave(l) \/ SaveTrouble(l) \/ SaveBroke(l) => meant' = meant
      BY DEF HandleSave, SaveTrouble, SaveBroke
    <2>. QED BY <1>1, <2>1 DEF Rewritten
  <1>3. \A k : Guarded(k)' <=> Guarded(k)
    BY <1>2, PageStays DEF SamePage
  <1>4. \A r : LineMeant(r)' <=> LineMeant(r)
    BY <1>2, <1>3 DEF LineMeant, WasTyped
  <1>5. \A m \in Lines : line'[m] = IF m = l THEN q ELSE line[m]
    BY <1>1 DEF Rewritten, SettingTypes
  <1>6. q.pc # "idle" => LineMeant(q)
    <2>1. LineMeant(line[l])
      BY <1>1 DEF Rewritten, SettingsTyped
    <2>. QED BY <1>1, <2>1 DEF Rewritten, LineMeant
  <1>7. \A m \in Lines : line'[m].pc # "idle" => LineMeant(line[m])'
    BY <1>4, <1>5, <1>6 DEF SettingsTyped
  <1>8. PageMeant'
    BY <1>2, <1>3 DEF SettingsTyped, PageMeant, WasTyped
  <1>. QED BY <1>7, <1>8 DEF SettingsTyped

\* What a submit remembers as loaded is what it had in hand, of what is compared.
LEMMA RemembersSeen ==
    ASSUME NEW r, r.seen \in Forms8, NEW k, k \in Options, k # "EmailDomainWhitelist"
    PROVE  Remembered(r)[k] = r.seen[k]
  BY DEF Remembered, Forms8

LEMMA StartTyped ==
    ASSUME SettingTypes, SettingsTyped, NEW g \in DOMAIN Saves, NEW seen \in Forms8, Start(g, seen),
           \A k : Guarded(k) => seen[k] = inputs[k]
    PROVE  SettingsTyped'
  <1>1. PICK l \in Lines : \E r, q : Begins(g, seen, l, r, q)
    BY StartBegins
  <1>2. PICK r, q : Begins(g, seen, l, r, q)
    BY <1>1
  <1>3. tab' = tab /\ meant' = meant /\ inputs' = inputs /\ face'.load = face.load /\ face'.loaded = face.loaded
        /\ (face'.early <=> face.early \/ ~face.loaded)
    BY <1>2 DEF Begins, Goes
  <1>4. \A k : Guarded(k)' <=> Guarded(k)
    BY <1>3, PageStays DEF SamePage
  <1>5. \A k, v : WasTyped(k, v)' <=> WasTyped(k, v)
    BY <1>3 DEF WasTyped
  <1>6. \A k : Guarded(k) => origin'[k] = origin[k] \/ origin'[k] = inputs[k]
    <2>1. origin' = origin \/ origin' = Remembered(r)
      BY <1>2 DEF Begins, Goes, Ended, Halted, SendsNext
    <2>2. \A k : Guarded(k) => k \in Options /\ k # "EmailDomainWhitelist"
      BY TablesRight DEF SettingTypes
    <2>. QED BY <1>2, <2>1, <2>2, RemembersSeen DEF Begins
  <1>7. PageMeant'
    BY <1>3, <1>4, <1>5, <1>6 DEF SettingsTyped, PageMeant
  <1>8. \A m \in Lines : line'[m] = IF m = l THEN q ELSE line[m]
    BY <1>2 DEF Begins, Goes, SettingTypes
  <1>9. ASSUME NEW x, LineMeant(x) PROVE LineMeant(x)'
    BY <1>3, <1>4, <1>5, <1>9 DEF LineMeant
  <1>10. ASSUME q.pc # "idle" PROVE LineMeant(q)'
    <2>1. q.seen = seen /\ q.base = origin /\ q.here /\ (q.loaded <=> face.loaded /\ ~face.early)
      BY <1>2, <1>10 DEF Begins, Goes, Ended, Halted, SendsNext
    <2>2. face.loaded /\ ~face.early => \A k : Guarded(k) => inputs[k] = origin[k] \/ WasTyped(k, inputs[k])
      BY DEF SettingsTyped, PageMeant
    <2>. QED BY <1>3, <1>4, <1>5, <2>1, <2>2 DEF LineMeant
  <1>11. \A m \in Lines : line'[m].pc # "idle" => LineMeant(line[m])'
    BY <1>8, <1>9, <1>10 DEF SettingsTyped
  <1>. QED BY <1>7, <1>11 DEF SettingsTyped

\* An option that is tested for changes is at a step of a loaded page only if it was typed.
LEMMA SentIsTyped ==
    ASSUME SettingTypes, SettingValues, SettingsTyped, NEW l \in Lines, line[l].pc # "idle", line[l].loaded, Guarded(KeyAt(l))
    PROVE  KeyAt(l) \in Options /\ WasTyped(KeyAt(l), ValueAt(l)) /\ ValueAt(l) \in meant[KeyAt(l)]
  <1>. DEFINE k == KeyAt(l)
  <1>1. k \in Options /\ k \in Compared /\ k # "EmailDomainWhitelist"
    BY TablesRight DEF SettingTypes
  <1>2. StepAt(l).changed
    <2>. HIDE DEF Compared
    <2>. QED BY <1>1, ValueType DEF StepRight, KeyAt
  <1>3. ~Skips(line[l], StepAt(l))
    BY DEF SettingTypes, AtStep, StepAt
  <1>4. line[l].seen[k] # line[l].base[k]
    BY <1>1, <1>2, <1>3 DEF Skips, KeyAt
  <1>5. WasTyped(k, line[l].seen[k])
    BY <1>4 DEF SettingsTyped, LineMeant
  <1>6. ValueAt(l) = Trim(line[l].seen[k])
    BY <1>1, SentValue
  <1>7. Trim(ValueAt(l)) = ValueAt(l)
    BY <1>6 DEF Trim
  <1>. QED BY <1>1, <1>5, <1>6, <1>7 DEF WasTyped

LEMMA AnsweredTyped ==
    ASSUME SettingTypes, SettingValues, SettingsTyped, NEW l \in Lines, SaveAnswered(l)
    PROVE  SettingsTyped'
  <1>1. PICK q : Answers(l, q)
    BY AnsweredGoesOn
  <1>2. tab' = tab /\ meant' = meant /\ face'.load = face.load /\ face'.loaded = face.loaded /\ face'.early = face.early
    BY <1>1 DEF Answers, Goes
  <1>3. \A k : Guarded(k)' <=> Guarded(k)
    BY <1>2, PageStays DEF SamePage
  <1>4. \A k, v : WasTyped(k, v)' <=> WasTyped(k, v)
    BY <1>2 DEF WasTyped
  <1>5. \A k : Guarded(k) => k \in Options /\ k # "EmailDomainWhitelist"
    BY TablesRight DEF SettingTypes
  <1>6. line[l].pc # "idle" /\ LineMeant(line[l]) /\ line[l].seen \in Forms8
    BY <1>1 DEF Answers, SettingsTyped, SettingTypes, AtStep
  <1>7. ASSUME face.loaded, ~face.early, NEW k, Guarded(k)
        PROVE  inputs'[k] = inputs[k] \/ WasTyped(k, inputs'[k])
    <2>1. CASE line[l].here /\ KeyAt(l) = k
      <3>1. line[l].loaded
        BY <1>6, <1>7, <2>1 DEF LineMeant
      <3>2. WasTyped(k, ValueAt(l))
        BY <1>6, <1>7, <2>1, <3>1, SentIsTyped
      <3>. QED BY <1>1, <1>5, <1>7, <2>1, <3>2 DEF Answers, SettingTypes, Forms8
    <2>2. CASE ~(line[l].here /\ KeyAt(l) = k)
      BY <1>1, <1>5, <1>7, <2>2 DEF Answers, ShownAt, SettingTypes, Forms8
    <2>. QED BY <2>1, <2>2
  <1>8. ASSUME face.loaded, ~face.early, NEW k, Guarded(k)
        PROVE  inputs'[k] = origin'[k] \/ WasTyped(k, inputs'[k])
    <2>1. CASE origin' = origin
      <3>1. inputs[k] = origin[k] \/ WasTyped(k, inputs[k])
        BY <1>8 DEF SettingsTyped, PageMeant
      <3>. QED BY <1>7, <1>8, <2>1, <3>1
    <2>2. CASE line[l].here /\ origin' = Remembered(line[l])
      <3>1. origin'[k] = line[l].seen[k]
        BY <1>5, <1>6, <1>8, <2>2, RemembersSeen
      <3>2. inputs[k] = line[l].seen[k] \/ WasTyped(k, inputs[k])
        BY <1>6, <1>8, <2>2 DEF LineMeant
      <3>. QED BY <1>7, <1>8, <3>1, <3>2
    <2>. QED BY <1>1, <2>1, <2>2 DEF Answers, Goes, Ended, Halted, SendsNext
  <1>9. PageMeant'
    BY <1>2, <1>3, <1>4, <1>8 DEF SettingsTyped, PageMeant
  <1>10. \A m \in Lines : line'[m] = IF m = l THEN q ELSE line[m]
    BY <1>1 DEF Answers, Goes, SettingTypes
  <1>11. ASSUME NEW x, LineMeant(x) PROVE LineMeant(x)'
    <2>1. ASSUME x.loaded, x.here, NEW k, Guarded(k)
          PROVE  inputs'[k] = x.seen[k] \/ WasTyped(k, inputs'[k])
      <3>1. face.loaded /\ ~face.early /\ (inputs[k] = x.seen[k] \/ WasTyped(k, inputs[k]))
        BY <1>11, <2>1 DEF LineMeant
      <3>. QED BY <1>7, <2>1, <3>1
    <2>. QED BY <1>2, <1>3, <1>4, <1>11, <2>1 DEF LineMeant
  <1>12. q.pc # "idle" => LineMeant(q)
    <2>1. q.pc # "idle" => q.seen = line[l].seen /\ q.base = line[l].base /\ q.here = line[l].here /\ q.loaded = line[l].loaded
      BY <1>1 DEF Answers, Goes, Ended, Halted, SendsNext
    <2>. QED BY <1>6, <2>1 DEF LineMeant
  <1>13. \A m \in Lines : line'[m].pc # "idle" => LineMeant(line[m])'
    BY <1>10, <1>11, <1>12 DEF SettingsTyped
  <1>. QED BY <1>9, <1>13 DEF SettingsTyped

LEMMA SettingsTypedKept ==
    ASSUME SettingTypes, SettingValues, SettingsTyped, SettingsStep
    PROVE  SettingsTyped'
  <1>1. CASE SubmitGroup
    BY <1>1, StartTyped DEF SubmitGroup, SettingTypes
  <1>2. CASE Choose
    <2>1. PICK k \in Buttons \cap Chosen \cap Options : \E v \in CanBe(k) : Start(k, [inputs EXCEPT ![k] = v])
      BY <1>2 DEF Choose
    <2>2. PICK v \in CanBe(k) : Start(k, [inputs EXCEPT ![k] = v])
      BY <2>1
    <2>3. k \in DOMAIN Saves /\ \A j : Guarded(j) => j # k
      BY TablesRight DEF SettingTypes
    <2>4. \A j : Guarded(j) => [inputs EXCEPT ![k] = v][j] = inputs[j]
      BY <2>3, TablesRight DEF SettingTypes, Forms8
    <2>. QED BY <2>2, <2>3, <2>4, ChosenForm, StartTyped
  <1>. QED BY <1>1, <1>2, ReadingTyped, ChangeTyped, ReopenTyped, RewrittenTyped, AnsweredTyped DEF SettingsStep

LEMMA SettingsTypedInit ==
    ASSUME SettingsInit
    PROVE  SettingsTyped
  <1>1. \A l \in Lines : line[l].pc = "idle"
    <2>. HIDE DEF Idle
    <2>. QED BY IdleType DEF SettingsInit
  <1>2. ~face.loaded
    BY DEF SettingsInit, FreshFace
  <1>. QED BY <1>1, <1>2 DEF SettingsTyped, PageMeant

\* A request sets an option that is compared only to what was typed for it.
LEMMA SavesMeant ==
    ASSUME SettingTypes, SettingValues, SettingsTyped, NEW l \in Lines, HandleSave(l), line[l].loaded,
           NEW k \in Options, Guarded(k), option'[k] # option[k]
    PROVE  option'[k] \in meant[k]
  <1>1. line[l].pc # "idle" /\ option' = [option EXCEPT ![KeyAt(l)] = StoredAt(l)]
    BY SaveStores
  <1>2. k = KeyAt(l) /\ option'[k] = StoredAt(l)
    BY <1>1 DEF SettingTypes, Forms8
  <1>3. ValueAt(l) \in meant[k]
    BY <1>1, <1>2, SentIsTyped
  <1>4. ValueAt(l) # "undefined"
    BY <1>3 DEF SettingValues
  <1>. QED BY <1>2, <1>3, <1>4 DEF StoredAt

-----------------------------------------------------------------------------
(* Settings: what was submitted is stored                                  *)

\* A submit of the page will still send an option.
ToCome(r, k) == /\ r.pc # "idle" /\ r.here
                /\ \E n \in DOMAIN Steps(r) : n >= r.at /\ Steps(r)[n].key = k /\ ~Skips(r, Steps(r)[n])
\* On a page that was loaded in time each field shows what the server holds, or a
\* submit will still send it, or it was typed since, or the property excuses it.
Submitted ==
    face.loaded /\ ~face.early =>
        \A k \in Options \ (unsent \cup forgiven) :
            inputs[k] = "undefined" \/ Trim(inputs[k]) = option[k] \/ \E l \in Lines : ToCome(line[l], k)

LEMMA SubmittedFrom ==
    ASSUME tab' = tab,
           face'.loaded /\ ~face'.early =>
               \A k \in Options : k \notin unsent' /\ k \notin forgiven' =>
                   inputs'[k] = "undefined" \/ Trim(inputs'[k]) = option'[k] \/ \E l \in Lines : ToCome(line'[l], k)
    PROVE  Submitted'
  <1>1. Options' = Options /\ Saves' = Saves
    BY PageStays DEF SamePage
  <1>2. \A r, k : ToCome(r, k)' <=> ToCome(r, k)
    <2>1. \A r : Steps(r)' = Steps(r)
      BY <1>1 DEF Steps
    <2>2. \A r, s : Skips(r, s)' <=> Skips(r, s)
      BY DEF Skips
    <2>. QED BY <2>1, <2>2 DEF ToCome
  <1>3. \A k : (\E l \in Lines : ToCome(line'[l], k)) => (\E l \in Lines : ToCome(line[l], k))'
    BY <1>2
  <1>. HIDE DEF ToCome, Trim
  <1>. QED BY <1>1, <1>3 DEF Submitted

\* A step that leaves a submit where it was, or went on past what is stored.
LEMMA PageSubmitted ==
    ASSUME SettingTypes, SettingValues, SettingsTyped, Submitted,
           ReadOptions \/ OptionsLoaded \/ OptionsNotLoaded \/ Reopen \/ ChangeField \/ ChangedElsewhere
    PROVE  Submitted'
  <1>1. face.loaded => face.load = "none"
    BY DEF SettingsTyped, PageMeant
  <1>2. CASE ReadOptions \/ OptionsNotLoaded \/ Reopen
    <2>1. tab' = tab /\ ~face'.loaded
      BY <1>1, <1>2, ReadingFaces DEF ReadOptions, OptionsNotLoaded, Reopen
    <2>. QED BY <2>1, SubmittedFrom
  <1>3. CASE OptionsLoaded /\ Unreadable
    <2>1. tab' = tab /\ ~face'.loaded
      BY <1>1, <1>3, ReadingFaces, FaceFields DEF OptionsLoaded, SettingTypes
    <2>. QED BY <2>1, SubmittedFrom
  <1>4. CASE OptionsLoaded /\ ~Unreadable
    <2>1. tab' = tab /\ option' = option /\ inputs' = face.data /\ forgiven' = {k \in Options : face.data[k] # option[k]}
      BY <1>4 DEF OptionsLoaded
    <2>2. \A k \in Options : Trim(option[k]) = option[k]
      BY HeldIsPlain DEF SettingValues
    <2>3. \A k \in Options : k \notin forgiven' => Trim(inputs'[k]) = option'[k]
      BY <2>1, <2>2
    <2>. QED BY <2>1, <2>3, SubmittedFrom
  <1>5. CASE ChangeField
    <2>1. PICK k \in Edited \cap Options : /\ \E v \in CanBe(k) : inputs' = [inputs EXCEPT ![k] = v]
                                           /\ unsent' = unsent \cup {k}
      BY <1>5 DEF ChangeField
    <2>2. tab' = tab /\ option' = option /\ line' = line /\ forgiven' = forgiven /\ face'.loaded = face.loaded /\ face'.early = face.early
      BY <1>5, ReadingFaces DEF ChangeField
    <2>3. \A j \in Options : j # k => inputs'[j] = inputs[j]
      BY <2>1 DEF SettingTypes, Forms8
    <2>. HIDE DEF ToCome, Trim
    <2>4. face'.loaded /\ ~face'.early =>
              \A j \in Options : j \notin unsent' /\ j \notin forgiven' =>
                  inputs'[j] = "undefined" \/ Trim(inputs'[j]) = option'[j] \/ \E l \in Lines : ToCome(line'[l], j)
      BY <2>1, <2>2, <2>3 DEF Submitted
    <2>. QED BY <2>2, <2>4, SubmittedFrom
  <1>6. CASE ChangedElsewhere
    <2>1. PICK k \in Edited \cap Options : /\ \E v \in CanBe(k) : option' = [option EXCEPT ![k] = v]
                                           /\ forgiven' = forgiven \cup {k}
      BY <1>6 DEF ChangedElsewhere
    <2>2. tab' = tab /\ inputs' = inputs /\ line' = line /\ unsent' = unsent /\ face' = face
      BY <1>6 DEF ChangedElsewhere
    <2>3. \A j \in Options : j # k => option'[j] = option[j]
      BY <2>1 DEF SettingTypes, Forms8
    <2>. HIDE DEF ToCome, Trim
    <2>4. face'.loaded /\ ~face'.early =>
              \A j \in Options : j \notin unsent' /\ j \notin forgiven' =>
                  inputs'[j] = "undefined" \/ Trim(inputs'[j]) = option'[j] \/ \E l \in Lines : ToCome(line'[l], j)
      BY <2>1, <2>2, <2>3 DEF Submitted
    <2>. QED BY <2>2, <2>4, SubmittedFrom
  <1>. QED BY <1>2, <1>3, <1>4, <1>5, <1>6

\* What is left to a submit of the page when it goes on is still to come, or forgiven.
LEMMA LeftIsToCome ==
    ASSUME tab \in Tabs, NEW l \in Lines, NEW r, NEW q, NEW p, Goes(l, r, q, p), r.group \in DOMAIN Saves, r.here,
           NEW n \in LeftOf(r), Steps(r)[n].key \notin forgiven'
    PROVE  ToCome(q, Steps(r)[n].key)
  <1>1. /\ Min(LeftOf(r)) <= n /\ n \in Nat /\ Min(LeftOf(r)) \in Nat
        /\ DOMAIN Steps(r) = 1..Len(Steps(r)) /\ Len(Steps(r)) \in Nat
    BY NextStep
  <1>2. n \in DOMAIN Steps(r) /\ ~Skips(r, Steps(r)[n])
    BY DEF LeftOf
  <1>3. ~Halted(r, q, p)
    <2>1. n \in Min(LeftOf(r))..Len(Steps(r))
      <3>. HIDE DEF LeftOf, Steps, Min
      <3>. QED BY <1>1, <1>2
    <2>2. Steps(r)[n].key \in NotSaved(r, Min(LeftOf(r)))
      BY <2>1 DEF NotSaved
    <2>. QED BY <2>2 DEF Halted
  <1>4. SendsNext(r, q, p)
    BY <1>3 DEF Goes, Ended
  <1>5. Steps(q) = Steps(r) /\ \A s : Skips(q, s) <=> Skips(r, s)
    <2>1. q.group = r.group /\ q.seen = r.seen /\ q.base = r.base /\ q.text = r.text
      BY <1>4 DEF SendsNext
    <2>. QED BY <2>1, SameClosure
  <1>6. q.pc # "idle" /\ q.here /\ n >= q.at
    <2>. HIDE DEF LeftOf, Min
    <2>. QED BY <1>1, <1>4 DEF SendsNext
  <1>. QED BY <1>2, <1>5, <1>6 DEF ToCome

LEMMA StartSubmitted ==
    ASSUME SettingTypes, Submitted, NEW g \in DOMAIN Saves, NEW seen \in Forms8, Start(g, seen),
           seen = inputs \/ (g \in Chosen /\ Saves[g] = <<Save(g)>>)
    PROVE  Submitted'
  <1>1. PICK l \in Lines : \E r, q : Begins(g, seen, l, r, q)
    BY StartBegins
  <1>2. PICK r, q : Begins(g, seen, l, r, q)
    BY <1>1
  <1>. DEFINE p == (forgiven \ Keys(g)) \cup PassedOver(r)
  <1>3. /\ line[l].pc = "idle" /\ Goes(l, r, q, p) /\ r.group = g /\ r.seen = seen /\ r.here /\ r.at = 0 /\ r.group \in DOMAIN Saves
        /\ tab' = tab /\ option' = option /\ inputs' = inputs /\ unsent' = unsent \ Keys(g)
        /\ face'.loaded = face.loaded /\ (face'.early <=> face.early \/ ~face.loaded) /\ tab \in Tabs
    BY <1>2 DEF Begins, Goes, SettingTypes
  <1>4. p \subseteq forgiven'
    BY <1>3 DEF Goes, Ended, Halted, SendsNext
  <1>5. \A m \in Lines : line'[m] = IF m = l THEN q ELSE line[m]
    BY <1>3 DEF Goes, SettingTypes
  <1>6. RightList(Steps(r)) /\ Steps(r) = Saves[g]
    BY <1>3, SavesRight DEF Steps
  <1>7. ASSUME face'.loaded, ~face'.early, NEW k \in Options, k \notin unsent', k \notin forgiven'
        PROVE  inputs'[k] = "undefined" \/ Trim(inputs'[k]) = option'[k] \/ \E m \in Lines : ToCome(line'[m], k)
    <2>1. CASE k \notin Keys(g)
      <3>1. k \notin unsent /\ k \notin forgiven /\ face.loaded /\ ~face.early
        BY <1>3, <1>4, <1>7, <2>1
      <3>2. \A m \in Lines : ToCome(line[m], k) => line'[m] = line[m]
        BY <1>3, <1>5 DEF ToCome
      <3>. HIDE DEF ToCome, Trim
      <3>. QED BY <1>3, <3>1, <3>2 DEF Submitted
    <2>2. CASE \E n \in DOMAIN Steps(r) : Steps(r)[n].key = k /\ ~Skips(r, Steps(r)[n])
      <3>1. PICK n \in DOMAIN Steps(r) : Steps(r)[n].key = k /\ ~Skips(r, Steps(r)[n])
        BY <2>2
      <3>2. n > r.at
        <4>1. DOMAIN Steps(r) = 1..Len(Steps(r)) /\ Len(Steps(r)) \in Nat
          BY <1>6 DEF RightList
        <4>. HIDE DEF Steps
        <4>. QED BY <1>3, <4>1
      <3>3. n \in LeftOf(r)
        BY <3>1, <3>2 DEF LeftOf
      <3>4. ToCome(q, k)
        BY <1>3, <1>7, <3>1, <3>3, LeftIsToCome
      <3>. HIDE DEF ToCome
      <3>. QED BY <1>5, <3>4
    <2>3. CASE k \in Keys(g) /\ \A n \in DOMAIN Steps(r) : Steps(r)[n].key = k => Skips(r, Steps(r)[n])
      <3>1. PICK n \in DOMAIN Steps(r) : Steps(r)[n].key = k
        BY <1>6, <2>3 DEF Keys
      <3>2. Skips(r, Steps(r)[n])
        BY <2>3, <3>1
      <3>3. ~(g \in Chosen /\ Saves[g] = <<Save(g)>>)
        <4>1. SUFFICES ASSUME g \in Chosen, Saves[g] = <<Save(g)>> PROVE FALSE
          OBVIOUS
        <4>2. Steps(r)[n] = Save(g)
          BY <1>6, <3>1, <4>1
        <4>3. g # "EmailDomainWhitelist"
          BY <4>1 DEF Chosen
        <4>4. Save(g).key = g /\ ~Save(g).changed /\ Save(g).filled = ""
          BY DEF Save
        <4>5. Skips(r, Save(g))
          BY <3>2, <4>2
        <4>. QED BY <4>3, <4>4, <4>5 DEF Skips
      <3>4. Trim(inputs[k]) = option[k]
        <4>1. k \notin PassedOver(r)
          BY <1>4, <1>7
        <4>2. k \in Keys(r.group)
          BY <1>3, <2>3
        <4>. QED BY <1>3, <3>1, <3>2, <3>3, <4>1, <4>2 DEF PassedOver
      <3>. QED BY <1>3, <3>4
    <2>. QED BY <2>1, <2>2, <2>3
  <1>. QED BY <1>3, <1>7, SubmittedFrom

LEMMA RewrittenSubmitted ==
    ASSUME SettingTypes, SettingValues, Submitted, NEW l \in Lines, HandleSave(l) \/ SaveTrouble(l) \/ SaveBroke(l)
    PROVE  Submitted'
  <1>1. PICK q : Rewritten(l, q)
    BY LineRewritten
  <1>2. tab' = tab /\ inputs' = inputs /\ face' = face /\ unsent' = unsent /\ AtStep(line[l]) /\ line[l].pc # "idle" /\ tab \in Tabs
    BY <1>1 DEF Rewritten, SettingTypes
  <1>3. \A m \in Lines : line'[m] = IF m = l THEN q ELSE line[m]
    BY <1>1 DEF Rewritten, SettingTypes
  <1>4. forgiven \subseteq forgiven'
    <2>1. HandleSave(l) => forgiven \subseteq forgiven'
      BY SaveStores
    <2>. QED BY <1>1, <2>1 DEF Rewritten
  <1>5. ASSUME NEW k, ToCome(line[l], k), k \notin forgiven'
        PROVE  ToCome(q, k)
    <2>1. CASE q.pc = "idle"
      <3>1. PICK n \in DOMAIN Steps(line[l]) : n >= line[l].at /\ Steps(line[l])[n].key = k
        BY <1>5 DEF ToCome
      <3>2. DOMAIN Steps(line[l]) = 1..Len(Steps(line[l])) /\ Len(Steps(line[l])) \in Nat
        BY <1>2, SavesRight DEF AtStep, Steps, RightList
      <3>3. n \in line[l].at..Len(Steps(line[l]))
        <4>1. line[l].at \in DOMAIN Steps(line[l])
          BY <1>2 DEF AtStep
        <4>. HIDE DEF Steps
        <4>. QED BY <3>1, <3>2, <4>1
      <3>4. k \in NotSaved(line[l], line[l].at)
        BY <3>1, <3>3 DEF NotSaved
      <3>5. line[l].here
        BY <1>5 DEF ToCome
      <3>. QED BY <1>1, <1>5, <2>1, <3>4, <3>5 DEF Rewritten
    <2>2. CASE q.pc # "idle"
      <3>1. q.group = line[l].group /\ q.seen = line[l].seen /\ q.base = line[l].base /\ q.text = line[l].text
            /\ q.at = line[l].at /\ q.here = line[l].here
        BY <1>1, <2>2 DEF Rewritten
      <3>2. Steps(q) = Steps(line[l]) /\ \A s : Skips(q, s) <=> Skips(line[l], s)
        BY <3>1, SameClosure
      <3>. QED BY <1>5, <2>2, <3>1, <3>2 DEF ToCome
    <2>. QED BY <2>1, <2>2
  <1>6. ASSUME NEW k \in Options, option'[k] # option[k], k \notin forgiven'
        PROVE  ToCome(line[l], k)
    <2>1. HandleSave(l)
      BY <1>1, <1>6 DEF Rewritten
    <2>2. k = KeyAt(l)
      <3>1. option' = option \/ option' = [option EXCEPT ![KeyAt(l)] = StoredAt(l)]
        BY <2>1, SaveStores
      <3>. QED BY <1>6, <3>1 DEF SettingTypes, Forms8
    <2>3. line[l].here
      BY <1>6, <2>1, <2>2, SaveStores
    <2>4. line[l].at >= line[l].at
      <3>1. line[l].at \in Nat
        BY DEF SettingTypes, LineStates
      <3>. QED BY <3>1
    <2>. QED BY <1>2, <2>2, <2>3, <2>4 DEF ToCome, AtStep, KeyAt, StepAt
  <1>. HIDE DEF ToCome, Trim
  <1>7. ASSUME face.loaded, ~face.early, NEW k \in Options, k \notin unsent, k \notin forgiven'
        PROVE  inputs[k] = "undefined" \/ Trim(inputs[k]) = option'[k] \/ \E m \in Lines : ToCome(line'[m], k)
    <2>1. inputs[k] = "undefined" \/ Trim(inputs[k]) = option[k] \/ \E m \in Lines : ToCome(line[m], k)
      BY <1>4, <1>7 DEF Submitted
    <2>2. (\E m \in Lines : ToCome(line[m], k)) => \E m \in Lines : ToCome(line'[m], k)
      BY <1>3, <1>5, <1>7
    <2>. QED BY <1>6, <1>7, <2>1, <2>2
  <1>. QED BY <1>2, <1>7, SubmittedFrom

LEMMA AnsweredSubmitted ==
    ASSUME SettingTypes, SettingValues, Submitted, NEW l \in Lines, SaveAnswered(l)
    PROVE  Submitted'
  <1>1. PICK q : Answers(l, q)
    BY AnsweredGoesOn
  <1>. DEFINE r == line[l]
              p == forgiven \cup {j \in {KeyAt(l)} : r.here /\ (option[KeyAt(l)] # ValueAt(l) \/ ~ShownAt(l))}
  <1>2. /\ Goes(l, r, q, p) /\ tab' = tab /\ option' = option /\ unsent' = unsent /\ face'.loaded = face.loaded
        /\ face'.early = face.early /\ r.pc # "idle" /\ AtStep(r) /\ tab \in Tabs
    BY <1>1 DEF Answers, Goes, SettingTypes
  <1>3. p \subseteq forgiven'
    BY <1>2 DEF Goes, Ended, Halted, SendsNext
  <1>4. \A m \in Lines : line'[m] = IF m = l THEN q ELSE line[m]
    BY <1>2 DEF Goes, SettingTypes
  <1>5. ASSUME NEW k \in Options, k \notin forgiven', r.here, KeyAt(l) = k
        PROVE  Trim(inputs'[k]) = option'[k]
    <2>1. option[k] = ValueAt(l) /\ ShownAt(l)
      BY <1>3, <1>5
    <2>2. inputs'[k] = option[k]
      BY <1>1, <1>5, <2>1 DEF Answers, SettingTypes, Forms8
    <2>3. Trim(option[k]) = option[k]
      BY <1>5, HeldIsPlain DEF SettingValues
    <2>. QED BY <1>2, <2>2, <2>3
  <1>6. ASSUME NEW k \in Options, ~(r.here /\ KeyAt(l) = k)
        PROVE  inputs'[k] = inputs[k]
    BY <1>1, <1>6 DEF Answers, ShownAt, SettingTypes, Forms8
  <1>7. ASSUME NEW k, k \notin forgiven', KeyAt(l) # k, ToCome(r, k)
        PROVE  ToCome(q, k)
    <2>1. PICK n \in DOMAIN Steps(r) : n >= r.at /\ Steps(r)[n].key = k /\ ~Skips(r, Steps(r)[n])
      BY <1>7 DEF ToCome
    <2>2. n # r.at
      BY <1>7, <2>1 DEF KeyAt, StepAt
    <2>3. n > r.at
      <3>1. DOMAIN Steps(r) = 1..Len(Steps(r)) /\ Len(Steps(r)) \in Nat
        BY <1>2, SavesRight DEF AtStep, Steps, RightList
      <3>2. r.at \in DOMAIN Steps(r)
        BY <1>2 DEF AtStep
      <3>. HIDE DEF Steps, r
      <3>. QED BY <2>1, <2>2, <3>1, <3>2
    <2>4. n \in LeftOf(r) /\ r.here
      BY <1>7, <2>1, <2>3 DEF LeftOf, ToCome
    <2>. QED BY <1>2, <1>7, <2>1, <2>4, LeftIsToCome DEF AtStep
  <1>. HIDE DEF ToCome, Trim, r, p
  <1>8. ASSUME face.loaded, ~face.early, NEW k \in Options, k \notin unsent, k \notin forgiven'
        PROVE  inputs'[k] = "undefined" \/ Trim(inputs'[k]) = option'[k] \/ \E m \in Lines : ToCome(line'[m], k)
    <2>1. CASE r.here /\ KeyAt(l) = k
      BY <1>5, <1>8, <2>1
    <2>2. CASE ~(r.here /\ KeyAt(l) = k)
      <3>1. k \notin forgiven
        BY <1>3, <1>8 DEF p
      <3>2. inputs[k] = "undefined" \/ Trim(inputs[k]) = option[k] \/ \E m \in Lines : ToCome(line[m], k)
        BY <1>8, <3>1 DEF Submitted
      <3>3. ToCome(r, k) => KeyAt(l) # k
        BY <2>2 DEF ToCome
      <3>4. ASSUME NEW m \in Lines, ToCome(line[m], k)
            PROVE  ToCome(line'[m], k)
        BY <1>4, <1>7, <1>8, <3>3, <3>4 DEF r
      <3>. QED BY <1>2, <1>6, <2>2, <3>2, <3>4
    <2>. QED BY <2>1, <2>2
  <1>. QED BY <1>2, <1>8, SubmittedFrom

LEMMA SubmittedKept ==
    ASSUME SettingTypes, SettingValues, SettingsTyped, Submitted, SettingsStep
    PROVE  Submitted'
  <1>1. CASE SubmitGroup
    BY <1>1, StartSubmitted DEF SubmitGroup, SettingTypes
  <1>2. CASE Choose
    <2>1. PICK k \in Buttons \cap Chosen \cap Options : \E v \in CanBe(k) : Start(k, [inputs EXCEPT ![k] = v])
      BY <1>2 DEF Choose
    <2>2. PICK v \in CanBe(k) : Start(k, [inputs EXCEPT ![k] = v])
      BY <2>1
    <2>3. k \in DOMAIN Saves /\ Saves[k] = <<Save(k)>> /\ k \in Chosen
      BY TablesRight DEF SettingTypes
    <2>. QED BY <2>2, <2>3, ChosenForm, StartSubmitted
  <1>. QED BY <1>1, <1>2, PageSubmitted, RewrittenSubmitted, AnsweredSubmitted DEF SettingsStep

LEMMA SubmittedInit ==
    ASSUME SettingsInit
    PROVE  Submitted
  BY DEF SettingsInit, FreshFace, Submitted

\* What the page promises, of the parts.
LEMMA SettingsAreStored ==
    ASSUME SettingTypes, SettingValues, Submitted
    PROVE  SubmittedIsStored /\ JsonStored
  <1>1. SubmittedIsStored
    BY DEF Submitted, ToCome, SubmittedIsStored
  <1>2. JsonStored
    BY DEF SettingValues, Held, JsonStored
  <1>. QED BY <1>1, <1>2
-----------------------------------------------------------------------------
(* The pages                                                               *)

\* The page looked at never changes, and only its variables do.
MailsRight == page = "mails" => MailTypes /\ MailCodes /\ MailButtons /\ MailPasswords

LEMMA MailsInit ==
    ASSUME ConsoleInit
    PROVE  MailsRight
  <1>1. page = "mails" => MailInit
    BY DEF ConsoleInit
  <1>. QED BY <1>1, MailTypesInit, MailCodesInit, MailFormsInit DEF MailsRight

LEMMA MailsStep ==
    ASSUME MailsRight, [ConsoleNext]_consoleVars
    PROVE  MailsRight'
  <1>1. CASE OnMails
    <2>1. MailStep /\ page = "mails" /\ MailTypes /\ MailCodes /\ MailButtons /\ MailPasswords
      BY <1>1 DEF OnMails, MailsRight
    <2>. QED BY <2>1, MailTypesStep, MailCodesStep, MailFormsStep DEF MailsRight
  <1>2. CASE OnSheet \/ OnSettings \/ OnWallet \/ OnSession
    BY <1>2 DEF OnSheet, OnSettings, OnWallet, OnSession, MailsRight
  <1>3. CASE UNCHANGED consoleVars
    <2>1. UNCHANGED page /\ UNCHANGED mailVars
      BY <1>3 DEF consoleVars
    <2>2. UNCHANGED <<desk, entry, account, proof, password, codes, mails, letter, written, takenAt, noted>>
      BY <2>1 DEF mailVars
    <2>3. MailTypes /\ page = "mails" => MailTypes'
      BY <2>2 DEF MailTypes
    <2>4. MailCodes /\ page = "mails" => MailCodes'
      <3>1. (CodesNumbered => CodesNumbered') /\ (CrowdForAll => CrowdForAll')
        BY <2>2 DEF CodesNumbered, CrowdForAll, Crowded
      <3>2. CodesBrought => CodesBrought'
        BY <2>2 DEF CodesBrought, Brought, PurposeOf
      <3>3. (NoneSinceTaken => NoneSinceTaken') /\ (AddressProven => AddressProven')
        BY <2>2 DEF NoneSinceTaken, Crowded, AddressProven
      <3>. QED BY <3>1, <3>2, <3>3 DEF MailCodes
    <2>5. MailButtons /\ page = "mails" => MailButtons'
      BY <2>2 DEF MailButtons, OneCodeAsked, AsksOnce, BindsOnce, BrokenNoted, DisabledForAReason, Asks, Proves,
                  Posts, Noted
    <2>6. MailPasswords /\ page = "mails" => MailPasswords'
      BY <2>2 DEF MailPasswords, OneForgot, ShownWhereForgotten, VerifiedIsReset, ResetOnce, Proves, Posts, Noted
    <2>. QED BY <2>1, <2>3, <2>4, <2>5, <2>6 DEF MailsRight
  <1>. QED BY <1>1, <1>2, <1>3 DEF ConsoleNext

\* A row has an address only by a code mailed there, for that purpose; and two
\* rows have one only by codes made while nobody had it, unless codes were sent
\* to an address two rows had already.
THEOREM AddressesProven == ConsoleSpec => []MailShared
  <1>1. ConsoleInit => MailsRight
    BY MailsInit
  <1>2. MailsRight /\ [ConsoleNext]_consoleVars => MailsRight'
    BY MailsStep
  <1>3. MailsRight => MailShared
    BY MailCodesShared DEF MailsRight, MailShared
  <1>. QED BY <1>1, <1>2, <1>3, PTL DEF ConsoleSpec

\* No form but the admin console's asks for a second code while it waits for
\* one; a button stays disabled only since a request broke; and the password
\* shown is the one that works, unless the button was clicked twice.
THEOREM FormsRest == ConsoleSpec => []MailForms
  <1>1. ConsoleInit => MailsRight
    BY MailsInit
  <1>2. MailsRight /\ [ConsoleNext]_consoleVars => MailsRight'
    BY MailsStep
  <1>3. MailsRight => MailForms
    BY MailFormsHold DEF MailsRight, MailForms
  <1>. QED BY <1>1, <1>2, <1>3, PTL DEF ConsoleSpec

\* The wallet, while it is the page looked at.
WalletRight == page = "wallet" => WalletTypes /\ WalletQuota /\ WalletAff /\ WalletPrices

LEMMA WalletsInit ==
    ASSUME ConsoleInit
    PROVE  WalletRight
  <1>1. page = "wallet" => WalletInit
    BY DEF ConsoleInit
  <1>. QED BY <1>1, WalletTypesInit, WalletShownInit, WalletPricesInit DEF WalletRight

LEMMA WalletsStep ==
    ASSUME WalletRight, [ConsoleNext]_consoleVars
    PROVE  WalletRight'
  <1>1. CASE OnWallet
    <2>1. WalletStep /\ page = "wallet" /\ WalletTypes /\ WalletQuota /\ WalletAff /\ WalletPrices
      BY <1>1 DEF OnWallet, WalletRight
    <2>. QED BY <2>1, WalletTypesStep, WalletQuotaStep, WalletAffStep, WalletPricesStep DEF WalletRight
  <1>2. CASE OnSheet \/ OnSettings \/ OnMails \/ OnSession
    BY <1>2 DEF OnSheet, OnSettings, OnMails, OnSession, WalletRight
  <1>3. CASE UNCHANGED consoleVars
    <2>1. UNCHANGED page /\ UNCHANGED walletVars
      BY <1>3 DEF consoleVars
    <2>2. UNCHANGED <<part, card, invite, server, paid, lane, spent, past>>
      BY <2>1 DEF walletVars
    <2>3. WalletTypes /\ page = "wallet" => WalletTypes'
      BY <2>2 DEF WalletTypes, Busy
    <2>4. \A k \in Lanes : \A ops : Busy(k, ops)' <=> Busy(k, ops)
      BY <2>2 DEF Busy
    <2>5. WalletQuota /\ page = "wallet" => WalletQuota'
      BY <2>2, <2>4, QuotaKept
    <2>6. WalletAff /\ page = "wallet" => WalletAff'
      <3>1. \A k \in Lanes : AnsweredWell(k)' <=> AnsweredWell(k)
        BY <2>2 DEF AnsweredWell
      <3>. QED BY <2>2, <2>4, <3>1, AffKept
    <2>7. WalletPrices /\ page = "wallet" => WalletPrices'
      BY <2>2, <2>4, PricesKept
    <2>. QED BY <2>1, <2>3, <2>5, <2>6, <2>7 DEF WalletRight
  <1>. QED BY <1>1, <1>2, <1>3 DEF ConsoleNext

\* Once the answers have arrived the two quotas shown are those of the user's
\* row, unless one of the things happened that the page does not follow.
THEOREM QuotasShown == ConsoleSpec => []WalletShown
  <1>1. ConsoleInit => WalletRight
    BY WalletsInit
  <1>2. WalletRight /\ [ConsoleNext]_consoleVars => WalletRight'
    BY WalletsStep
  <1>3. WalletRight => WalletShown
    BY WalletShowsRows DEF WalletRight, WalletShown
  <1>. QED BY <1>1, <1>2, <1>3, PTL DEF ConsoleSpec

\* The amount in the dialog is the price of what is chosen there, and nothing is
\* paid for at an amount that was the price of something else.
THEOREM PaidAtThePrice == ConsoleSpec => []WalletPaid
  <1>1. ConsoleInit => WalletRight
    BY WalletsInit
  <1>2. WalletRight /\ [ConsoleNext]_consoleVars => WalletRight'
    BY WalletsStep
  <1>3. WalletRight => WalletPaid
    BY WalletPaysAsShown DEF WalletRight, WalletPaid
  <1>. QED BY <1>1, <1>2, <1>3, PTL DEF ConsoleSpec

\* The session, while it is the page looked at.
SessionRight == page = "session" => SessionTypes /\ SessionFollows

LEMMA SessionsInit ==
    ASSUME ConsoleInit
    PROVE  SessionRight
  <1>1. page = "session" => SessionInit
    BY DEF ConsoleInit
  <1>. QED BY <1>1, SessionTypesInit, SessionFollowsInit DEF SessionRight

LEMMA SessionsStep ==
    ASSUME SessionRight, [ConsoleNext]_consoleVars
    PROVE  SessionRight'
  <1>1. CASE OnSession
    <2>1. SessionStep /\ page = "session" /\ SessionTypes /\ SessionFollows
      BY <1>1 DEF OnSession, SessionRight
    <2>. QED BY <2>1, SessionTypesStep, SessionFollowsStep DEF SessionRight
  <1>2. CASE OnSheet \/ OnSettings \/ OnWallet \/ OnMails
    BY <1>2 DEF OnSheet, OnSettings, OnWallet, OnMails, SessionRight
  <1>3. CASE UNCHANGED consoleVars
    <2>1. UNCHANGED page /\ UNCHANGED sessionVars
      BY <1>3 DEF consoleVars
    <2>2. UNCHANGED <<console, at, store, storage, cookie, wire, budget, excuse>>
      BY <2>1 DEF sessionVars
    <2>3. SessionTypes => SessionTypes'
      BY <2>2 DEF SessionTypes
    <2>4. \A S : TurnsSound(S) => TurnsSound(S)'
      BY <2>2 DEF TurnsSound, Turning, TurnBack
    <2>5. SessionFollows => SessionFollows'
      BY <2>2, <2>4 DEF SessionFollows, TabFollows
    <2>. QED BY <2>1, <2>3, <2>5 DEF SessionRight
  <1>. QED BY <1>1, <1>2, <1>3 DEF ConsoleNext

\* Once nothing is under way a tab shows the user who is remembered and who has
\* the session, and nobody is remembered who logged out, unless one of the things
\* happened that a tab is not told of.
THEOREM ShownHasSession == ConsoleSpec => []SessionShown
  <1>1. ConsoleInit => SessionRight
    BY SessionsInit
  <1>2. SessionRight /\ [ConsoleNext]_consoleVars => SessionRight'
    BY SessionsStep
  <1>3. SessionRight => SessionShown
    BY SessionIsShown DEF SessionRight, SessionShown
  <1>. QED BY <1>1, <1>2, <1>3, PTL DEF ConsoleSpec

\* The sheet, while it is the page looked at.
SheetRight == page = "sheet" => SheetTypes /\ SheetEnding /\ SheetOwn

LEMMA SheetsInit ==
    ASSUME ConsoleInit
    PROVE  SheetRight
  <1>1. page = "sheet" => SheetInit
    BY DEF ConsoleInit
  <1>. QED BY <1>1, SheetTypesInit, SheetEndingInit, SheetOwnInit DEF SheetRight

LEMMA SheetsStep ==
    ASSUME SheetRight, [ConsoleNext]_consoleVars
    PROVE  SheetRight'
  <1>1. CASE OnSheet
    <2>1. SheetStep /\ page = "sheet" /\ SheetTypes /\ SheetEnding /\ SheetOwn
      BY <1>1 DEF OnSheet, SheetRight
    <2>. QED BY <2>1, SheetTypesStep, SheetEndingStep, SheetOwnStep DEF SheetRight
  <1>2. CASE OnSettings \/ OnWallet \/ OnMails \/ OnSession
    BY <1>2 DEF OnSettings, OnWallet, OnMails, OnSession, SheetRight
  <1>3. CASE UNCHANGED consoleVars
    <2>1. UNCHANGED page /\ UNCHANGED sheetVars
      BY <1>3 DEF consoleVars
    <2>2. UNCHANGED <<kind, sheet, form, count, stored, unlisted, slot, used, events>>
      BY <2>1 DEF sheetVars
    <2>3. SheetTypes => SheetTypes'
      <3>1. Fields' = Fields
        BY <2>2 DEF Fields
      <3>. QED BY <2>2, <3>1 DEF SheetTypes, RowForms, Requests
    <2>4. SheetEnding => SheetEnding'
      BY <2>2 DEF SheetEnding, Told, Waits, WillList
    <2>5. SheetOwn => SheetOwn'
      <3>1. \A v, i : OwnForm(v, i)' <=> OwnForm(v, i)
        BY <2>2, OwnFormSame
      <3>. QED BY <2>2, <3>1 DEF SheetOwn, Told, Waits
    <2>. QED BY <2>1, <2>3, <2>4, <2>5 DEF SheetRight
  <1>. QED BY <1>1, <1>2, <1>3 DEF ConsoleNext

LEMMA SheetsSafe == ConsoleSpec => []SheetRight
  <1>1. ConsoleInit => SheetRight
    BY SheetsInit
  <1>2. SheetRight /\ [ConsoleNext]_consoleVars => SheetRight'
    BY SheetsStep
  <1>. QED BY <1>1, <1>2, PTL DEF ConsoleSpec

\* A submit that changed a row has the table refreshed, and the indicator of a sheet
\* goes off, for any number of rows, of requests under way and of rows in one submit.
THEOREM SheetsEnd == ConsoleSpec => []SheetEnds
  <1>1. SheetRight => SheetEnds
    BY SheetIsEnded DEF SheetRight, SheetEnds
  <1>. QED BY <1>1, SheetsSafe, PTL

\* No value of another row, nor of the blank form, is saved for a row, unless one of
\* the things happened that a sheet misses.
THEOREM RowsSavedOwn == ConsoleSpec => []SheetSavesOwn
  <1>1. SheetRight => SheetSavesOwn
    BY SheetSaves DEF SheetRight, SheetSavesOwn
  <1>. QED BY <1>1, SheetsSafe, PTL

\* The settings, while they are the page looked at.
SettingsRight == page = "settings" => SettingTypes /\ SettingValues /\ SettingsTyped /\ Submitted

LEMMA SettingsStart ==
    ASSUME ConsoleInit
    PROVE  SettingsRight
  <1>1. page = "settings" => SettingsInit
    BY DEF ConsoleInit
  <1>. QED BY <1>1, SettingTypesInit, SettingValuesInit, SettingsTypedInit, SubmittedInit DEF SettingsRight

LEMMA SettingsGoOn ==
    ASSUME SettingsRight, [ConsoleNext]_consoleVars
    PROVE  SettingsRight'
  <1>1. CASE OnSettings
    <2>1. SettingsStep /\ page = "settings" /\ SettingTypes /\ SettingValues /\ SettingsTyped /\ Submitted
      BY <1>1 DEF OnSettings, SettingsRight
    <2>. QED BY <2>1, SettingTypesKept, SettingValuesKept, SettingsTypedKept, SubmittedKept DEF SettingsRight
  <1>2. CASE OnSheet \/ OnWallet \/ OnMails \/ OnSession
    BY <1>2 DEF OnSheet, OnWallet, OnMails, OnSession, SettingsRight
  <1>3. CASE UNCHANGED consoleVars
    <2>1. UNCHANGED page /\ UNCHANGED settingVars
      BY <1>3 DEF consoleVars
    <2>2. UNCHANGED <<tab, option, inputs, origin, face, line, meant, unsent, forgiven, tally>>
      BY <2>1 DEF settingVars
    <2>3. /\ Options' = Options /\ Saves' = Saves /\ Form' = Form /\ (\A k : Guarded(k)' <=> Guarded(k)) /\ Forms8' = Forms8
          /\ \A r : AtStep(r)' <=> AtStep(r)
      BY <2>2, PageStays DEF SamePage
    <2>. HIDE DEF Forms8, AtStep
    <2>4. SettingTypes => SettingTypes'
      BY <2>2, TypesFrom DEF SettingTypes
    <2>5. SettingValues => SettingValues'
      BY <2>2, ValuesFrom DEF SettingValues
    <2>6. SettingsTyped => SettingsTyped'
      BY <2>2, TypedKept DEF SettingsTyped, PageMeant
    <2>7. Submitted => Submitted'
      BY <2>2, SubmittedFrom DEF Submitted
    <2>. QED BY <2>1, <2>4, <2>5, <2>6, <2>7 DEF SettingsRight
  <1>. QED BY <1>1, <1>2, <1>3 DEF ConsoleNext

LEMMA SettingsSafe == ConsoleSpec => []SettingsRight
  <1>1. ConsoleInit => SettingsRight
    BY SettingsStart
  <1>2. SettingsRight /\ [ConsoleNext]_consoleVars => SettingsRight'
    BY SettingsGoOn
  <1>. QED BY <1>1, <1>2, PTL DEF ConsoleSpec

\* Once the submits have ended the server holds what the fields show, but for the
\* excuses named, and no text that is no JSON, for any forms, options and buttons
\* looked at and any number of submits under way together.
THEOREM SubmitsStored == ConsoleSpec => []SettingsStored
  <1>1. SettingsRight => SettingsStored
    BY SettingsAreStored DEF SettingsRight, SettingsStored
  <1>. QED BY <1>1, SettingsSafe, PTL

\* A submit of a page that was loaded sets an option that is compared only to what
\* was typed for it: nothing that was changed elsewhere is undone.
THEOREM OnlyTypedSet == ConsoleSpec => SettingsMeant
  <1>. DEFINE A == page = "settings" =>
                     \A l \in Lines : HandleSave(l) /\ line[l].loaded =>
                         \A k \in Options : Guarded(k) /\ option'[k] # option[k] => option'[k] \in meant[k]
  <1>1. SettingsRight /\ [ConsoleNext]_consoleVars => [A]_consoleVars
    BY SavesMeant DEF SettingsRight
  <1>2. [][A]_consoleVars <=> SettingsMeant
    BY DEF SettingsMeant
  <1>. HIDE DEF A
  <1>3. ConsoleSpec => [][A]_consoleVars
    BY <1>1, SettingsSafe, PTL DEF ConsoleSpec
  <1>. QED BY <1>2, <1>3
=============================================================================
