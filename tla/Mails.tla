-------------------------------- MODULE Mails --------------------------------
(***************************************************************************)
(* Verification codes sent by mail, and the forms that ask for them: to    *)
(* register, to bind an address (user and admin console), and to reset a   *)
(* forgotten password.  Codes are numbered in the order they are made.     *)
(***************************************************************************)
EXTENDS Integers, FiniteSets

CONSTANTS
    People,     \* each at a form of their own, some for the same address
    Emails,     \* addresses
    Seats,      \* the forms looked at: one for each person
    Letters,    \* requests that may be under way together
    Restricted, \* values the option EmailDomainRestrictionEnabled takes
    Ticks,      \* the countdown of 30 seconds
    MaxMailed,  \* bound on the codes made
    MaxTypedIn, \* bound on the addresses typed
    MaxWritten, \* bound on the requests
    MaxFaults   \* bound on mails, requests and answers that fail

Forms == {"register", "bind", "personal", "forgot"}

ASSUME PeopleAssumption == IsFiniteSet(People) /\ "" \notin Emails
\* The row whose password is reset is one: at most one person forgot it.
ASSUME SeatsAssumption ==
    \A s \in Seats : /\ s \in [People -> Forms]
                     /\ \A p, q \in People : s[p] = "forgot" /\ s[q] = "forgot" => p = q
ASSUME CountdownAssumption == Ticks \in Nat /\ MaxTypedIn \in Nat

VARIABLES
    desk,       \* the form of each person
    entry,      \* what its fields, its button and its message hold
    account,    \* the address, if any, of each person's row
    proof,      \* the code the row got its address by, 0 for those there before
    password,   \* the passwords of the row, numbered as they are set
    codes,      \* verificationMap
    mails,      \* the mails that arrived
    letter,     \* requests under way
    written,    \* codes made, addresses typed, requests, faults
    takenAt,    \* how many codes were made when an address that nobody had was last given
    noted       \* what happened that excuses a form

mailVars == <<desk, entry, account, proof, password, codes, mails, letter, written, takenAt, noted>>

\* EmailVerificationPurpose and PasswordResetPurpose.
Purposes == {"v", "r"}
PurposeOf(p) == IF desk[p] = "forgot" THEN "r" ELSE "v"

NoLetter == [pc |-> "idle"]
InPost(p, ops) == \E l \in Letters : letter[l].pc # "idle" /\ letter[l].from = p /\ letter[l].op \in ops
AllArrived == \A l \in Letters : letter[l].pc = "idle"
Write(p, op) ==
    /\ written.requests < MaxWritten
    /\ written' = [written EXCEPT !.requests = @ + 1]
    /\ \E l \in Letters :
          /\ letter[l].pc = "idle" /\ \A k \in Letters : k < l => letter[k].pc # "idle"
          /\ letter' = [letter EXCEPT ![l] = [pc |-> "sent", from |-> p, op |-> op, email |-> entry[p].email,
                                              code |-> entry[p].code, answer |-> "ok", data |-> 0]]

Holders(e) == {p \in People : account[p] = e}
\* Mutant of IsEmailAlreadyTaken: RowsAffected > 1.
IsEmailTakenTwice(e) == Cardinality(Holders(e)) > 1
\* RowsAffected == 1: an address two users hold counts as free.
IsEmailAlreadyTaken(e) == Cardinality(Holders(e)) = 1
Registered(p) == desk[p] = "register" /\ account[p] # ""
-----------------------------------------------------------------------------
(* The forms                                                               *)

TypeAddress(p) ==
    /\ ~Registered(p) /\ written.typed < MaxTypedIn
    /\ \E e \in Emails \ {entry[p].email} : entry' = [entry EXCEPT ![p].email = e]
    /\ written' = [written EXCEPT !.typed = @ + 1]
    /\ UNCHANGED <<desk, account, proof, password, codes, mails, letter, takenAt, noted>>

\* The code of any mail, to this address or another; of one that resets the
\* link, which names the address.
CopyCode(p) ==
    /\ ~Registered(p)
    /\ \E m \in mails : /\ m.code # entry[p].code /\ m.purpose = PurposeOf(p)
                        /\ entry' = [entry EXCEPT ![p].code = m.code,
                                         ![p].email = IF m.purpose = "r" THEN m.to ELSE @]
    /\ UNCHANGED <<desk, account, proof, password, codes, mails, letter, written, takenAt, noted>>

\* handleSendCode, sendVerificationCode, submit of the forgotten password.
\* Registering counts down after the answer only, the others from the click.
\* Mutant of ButtonOn: only the countdown disables it.
ButtonOnAfter(p) == entry[p].wait = 0
ButtonOn(p) == entry[p].wait = 0 /\ ~entry[p].loading
AskCode(p) ==
    /\ ~Registered(p) /\ ButtonOn(p) /\ entry[p].email # ""
    /\ Write(p, "ask")
    /\ entry' = [entry EXCEPT ![p].loading = TRUE, ![p].wait = IF desk[p] = "register" THEN @ ELSE Ticks]
    /\ noted' = IF InPost(p, {"ask"}) THEN noted \cup {<<"doubled", p>>} ELSE noted
    /\ UNCHANGED <<desk, account, proof, password, codes, mails, takenAt>>
\* No address, or no Turnstile yet: the button is disabled before that is known.
AskNothing(p) ==
    /\ desk[p] # "register" /\ ButtonOn(p)
    /\ entry' = [entry EXCEPT ![p].wait = Ticks]
    /\ UNCHANGED <<desk, account, proof, password, codes, mails, letter, written, takenAt, noted>>
Tick(p) ==
    /\ entry[p].wait > 0
    /\ entry' = [entry EXCEPT ![p].wait = @ - 1]
    /\ UNCHANGED <<desk, account, proof, password, codes, mails, letter, written, takenAt, noted>>

\* register, submit of EmailModal, bindEmail, and the new password: the last
\* two may be clicked again.
Submits(p) ==
    /\ ~Registered(p) /\ entry[p].code # 0 /\ entry[p].email # ""
    /\ desk[p] = "register" => ~InPost(p, {"prove"})
    /\ desk[p] = "bind" => ~entry[p].loading
    /\ desk[p] = "forgot" => entry[p].shown = 0
    /\ Write(p, "prove")
    /\ entry' = [entry EXCEPT ![p].loading = @ \/ desk[p] \in {"bind", "personal"}]
    /\ noted' = IF desk[p] = "forgot" /\ InPost(p, {"prove"}) THEN noted \cup {<<"twice", p>>} ELSE noted
    /\ UNCHANGED <<desk, account, proof, password, codes, mails, takenAt>>
-----------------------------------------------------------------------------
(* The server                                                              *)

Replied(l, a) == letter' = [letter EXCEPT ![l].pc = "back", ![l].answer = a]
Fault == written.faults < MaxFaults
CountFault == written' = [written EXCEPT !.faults = @ + 1]

\* SendEmailVerification, SendPasswordResetEmail.  With the restriction on, the
\* reply is two JSON texts, of which the form reads neither; only the one to
\* register does something with them.
MakeCode(l) ==
    LET r == letter[l]
        pu == PurposeOf(r.from)
        n == written.codes + 1
    IN  /\ codes' = [codes EXCEPT ![pu][r.email] = n]
        /\ \/ /\ mails' = mails \cup {[purpose |-> pu, to |-> r.email, code |-> n]}
              /\ written' = [written EXCEPT !.codes = n]
              /\ \E on \in Restricted : Replied(l, IF on /\ desk[r.from] = "register" THEN "garbled" ELSE "ok")
           \/ /\ Fault /\ Replied(l, "refused")
              /\ written' = [written EXCEPT !.codes = n, !.faults = @ + 1]
              /\ UNCHANGED mails
        /\ noted' = noted \cup {<<"crowded", p>> : p \in IF Cardinality(Holders(r.email)) > 1 THEN People ELSE {}}
ServeAsk(l) ==
    LET r == letter[l] IN
    /\ r.pc = "sent" /\ r.op = "ask"
    /\ IF IsEmailAlreadyTaken(r.email) = (PurposeOf(r.from) = "r")
       THEN written.codes < MaxMailed /\ MakeCode(l)
       ELSE Replied(l, "refused") /\ UNCHANGED <<codes, mails, written, noted>>
    /\ UNCHANGED <<desk, entry, account, proof, password, takenAt>>

\* Mutant of VerifyCodeWithKey: the key is the purpose alone.
VerifyCodeOfPurpose(e, c, pu) == \E x \in Emails : codes[pu][x] = c
VerifyCodeWithKey(e, c, pu) == codes[pu][e] = c

\* Register, EmailBind.  Only Register looks whether somebody has the address,
\* and neither deletes the code.
Grant(p, e, c) ==
    /\ account' = [account EXCEPT ![p] = e] /\ proof' = [proof EXCEPT ![p] = c]
    /\ takenAt' = [takenAt EXCEPT ![e] = IF Holders(e) = {} THEN written.codes ELSE @]
ServeProof(l) ==
    LET r == letter[l]
        p == r.from
    IN  /\ r.pc = "sent" /\ r.op = "prove" /\ desk[p] # "forgot"
        /\ IF /\ VerifyCodeWithKey(r.email, r.code, "v")
              /\ desk[p] = "register" => Holders(r.email) = {}
           THEN Grant(p, r.email, r.code) /\ Replied(l, "ok")
           ELSE Replied(l, "refused") /\ UNCHANGED <<account, proof, takenAt>>
        /\ UNCHANGED <<desk, entry, password, codes, mails, written, noted>>

\* ResetPassword: the code is deleted after the password is set.
VerifyReset(l) ==
    LET r == letter[l] IN
    /\ r.pc = "sent" /\ r.op = "prove" /\ desk[r.from] = "forgot"
    /\ letter' = [letter EXCEPT ![l] = IF VerifyCodeWithKey(r.email, r.code, "r") THEN [r EXCEPT !.pc = "verified"]
                                       ELSE [r EXCEPT !.pc = "back", !.answer = "refused"]]
    /\ UNCHANGED <<desk, entry, account, proof, password, codes, mails, written, takenAt, noted>>
\* Mutant of StorePassword: the answer has the password from before.
StorePasswordBefore(l) ==
    LET r == letter[l] IN
    /\ r.pc = "verified"
    /\ password' = password + 1
    /\ codes' = [codes EXCEPT !.r[r.email] = 0]
    /\ letter' = [letter EXCEPT ![l].pc = "back", ![l].data = password]
    /\ UNCHANGED <<desk, entry, account, proof, mails, written, takenAt, noted>>
StorePassword(l) ==
    LET r == letter[l] IN
    /\ r.pc = "verified"
    /\ password' = password + 1
    /\ codes' = [codes EXCEPT !.r[r.email] = 0]
    /\ letter' = [letter EXCEPT ![l].pc = "back", ![l].data = password + 1]
    /\ UNCHANGED <<desk, entry, account, proof, mails, written, takenAt, noted>>

\* VerificationValidMinutes are over.
Expire ==
    /\ Fault /\ CountFault
    /\ \E pu \in Purposes : \E e \in Emails : codes[pu][e] # 0 /\ codes' = [codes EXCEPT ![pu][e] = 0]
    /\ UNCHANGED <<desk, entry, account, proof, password, mails, letter, takenAt, noted>>

LetterLost(l) ==
    /\ Fault /\ CountFault
    /\ letter[l].pc \in {"sent", "back"} /\ letter[l].answer = "ok"
    /\ Replied(l, "broken")
    /\ noted' = noted \cup {<<"broken", letter[l].from>>}
    /\ UNCHANGED <<desk, entry, account, proof, password, codes, mails, takenAt>>
-----------------------------------------------------------------------------
(* Answers                                                                 *)

\* With useRegister a request that breaks is one refused; PersonalSetting and
\* ForgetPasswordForm throw, but Formik ends the submit of the latter.
\* Mutant of StaysLoading: the early return skips setLoading(false).
StaysLoadingUnlessOk(p, a) == a # "ok"
StaysLoading(p, a) == desk[p] = "personal" /\ a = "broken"
CodeAnswered(l) ==
    LET p == letter[l].from
        a == letter[l].answer
    IN  /\ letter[l].pc = "back" /\ letter[l].op = "ask"
        /\ letter' = [letter EXCEPT ![l] = NoLetter]
        /\ entry' = [entry EXCEPT
                ![p].loading = @ /\ StaysLoading(p, a),
                ![p].wait = CASE desk[p] = "register" /\ a = "ok" -> Ticks
                              [] desk[p] = "forgot" /\ a = "refused" -> 0
                              [] OTHER -> @]
        /\ UNCHANGED <<desk, account, proof, password, codes, mails, written, takenAt, noted>>
ProofAnswered(l) ==
    LET p == letter[l].from
        a == letter[l].answer
    IN  /\ letter[l].pc = "back" /\ letter[l].op = "prove"
        /\ letter' = [letter EXCEPT ![l] = NoLetter]
        /\ entry' = [entry EXCEPT
                ![p].loading = @ /\ (desk[p] \in {"register", "forgot"} \/ a = "broken"),
                ![p].shown = IF desk[p] = "forgot" /\ a = "ok" THEN letter[l].data ELSE @]
        /\ UNCHANGED <<desk, account, proof, password, codes, mails, written, takenAt, noted>>

MailStep ==
    \/ \E p \in People : TypeAddress(p) \/ CopyCode(p) \/ AskCode(p) \/ AskNothing(p) \/ Tick(p) \/ Submits(p)
    \/ Expire
    \/ \E l \in Letters : \/ ServeAsk(l) \/ ServeProof(l) \/ VerifyReset(l) \/ StorePassword(l)
                          \/ LetterLost(l) \/ CodeAnswered(l) \/ ProofAnswered(l)

\* Who forgot the password has a row with an address.
MailInit ==
    /\ desk \in Seats
    /\ entry = [p \in People |-> [email |-> "", code |-> 0, wait |-> 0, loading |-> FALSE, shown |-> 0]]
    /\ \E e \in Emails : account = [p \in People |-> IF desk[p] = "forgot" THEN e ELSE ""]
    /\ proof = [p \in People |-> 0] /\ password = 1
    /\ codes = [pu \in Purposes |-> [e \in Emails |-> 0]]
    /\ mails = {}
    /\ letter = [l \in Letters |-> NoLetter]
    /\ written = [codes |-> 0, typed |-> 0, requests |-> 0, faults |-> 0]
    /\ takenAt = [e \in Emails |-> 0]
    /\ noted = {}

MailSpec == MailInit /\ [][MailStep]_mailVars
-----------------------------------------------------------------------------
\* Types of the mails.
MailsTypeOK ==
    /\ \A p \in People : /\ account[p] \in Emails \cup {""} /\ proof[p] \in 0..MaxMailed
                         /\ entry[p].email \in Emails \cup {""} /\ entry[p].wait \in 0..Ticks
    /\ \A pu \in Purposes : codes[pu] \in [Emails -> 0..written.codes]
    /\ written.codes <= MaxMailed + MaxFaults /\ password \in 1..(MaxWritten + 1)

\* A row has an address only if a code for that address, and not one that
\* resets a password, was mailed there.
AddressProven ==
    \A p \in People : proof[p] # 0 => [purpose |-> "v", to |-> account[p], code |-> proof[p]] \in mails

\* Two rows get the same address only with codes made while nobody had it: no
\* code is sent to an address that is taken.  But an address that two rows
\* have counts as free, and codes are sent to it again.
SharedOnlyByRace ==
    \A p, q \in People :
        p # q /\ account[p] = account[q] /\ account[p] # "" /\ <<"crowded", p>> \notin noted =>
            proof[p] <= takenAt[account[p]]

\* A form does not ask for another code while it waits for one, except the
\* admin console's, whose button an answer to the binding enables.
OneCodeAsked == \A p \in People : <<"doubled", p>> \in noted => desk[p] = "personal"

\* A button that stays disabled was left so by a request that broke; the form
\* to register always gets it back.
ButtonComesBack ==
    \A p \in People : AllArrived /\ entry[p].loading =>
        desk[p] \in {"bind", "personal"} /\ <<"broken", p>> \in noted

\* The new password shown is the one that works, unless the button was clicked
\* again before the answer: two resets may both find the code.
PasswordShownWorks ==
    \A p \in People : AllArrived /\ entry[p].shown # 0 =>
        entry[p].shown = password \/ <<"twice", p>> \in noted
=============================================================================
