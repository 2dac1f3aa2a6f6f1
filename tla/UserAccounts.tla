---------------------------- MODULE UserAccounts ----------------------------
(***************************************************************************)
(* The users collection: sign-up, the just-in-time account of the SSO and  *)
(* the profile update.  Addresses are spelled in several ways; every       *)
(* lookup is by the normal spelling (trimmed, lower case).                 *)
(***************************************************************************)
EXTENDS Naturals, Sequences

CONSTANTS
    Spellings,      \* e-mail addresses as clients write them
    Normal,         \* [Spellings -> Spellings]: trim().toLowerCase()
    PersonNames,    \* values of name
    Edits,          \* profile updates running at a time
    AccountsBound,  \* bound: accounts
    EditsBound      \* bound: updates altogether

ASSUME AccountsAssumption ==
    /\ Normal \in [Spellings -> Spellings]
    /\ \A e \in Spellings : Normal[Normal[e]] = Normal[e]
    /\ AccountsBound \in Nat /\ EditsBound \in Nat

VARIABLES
    accounts,    \* the documents, in the order they were inserted
    edit,        \* per update: the account (0: none), the document to write
                 \* and the fields that the body gave
    edits,       \* updates so far
    respelled,   \* history: accounts an update left with a spelling of its own
    meant,       \* history: what the requests that were done asked for
    overlapped   \* history: accounts two updates overlapped on

accountVars == <<accounts, edit, edits, respelled, meant, overlapped>>

NoEdit == [id |-> 0, doc |-> <<>>, given |-> {}]
Used(e) == {i \in DOMAIN accounts : accounts[i].email = e}

AccountsInit == /\ accounts = <<>> /\ meant = <<>>
                /\ edit = [c \in Edits |-> NoEdit] /\ edits = 0
                /\ respelled = {} /\ overlapped = {}

-----------------------------------------------------------------------------
Inserts(e, n) ==
    /\ Len(accounts) < AccountsBound
    /\ accounts' = Append(accounts, [email |-> e, name |-> n])
    /\ meant' = Append(meant, [email |-> e, name |-> n])

\* Mutation of SignUp: the address is stored as it was given.
SignUpAsGiven(e, n) ==
    /\ Used(e) = {}
    /\ Inserts(e, n)
    /\ UNCHANGED <<edit, edits, respelled, overlapped>>

\* SignUpService.createUser; email is a unique index, whose error refuses.
SignUp(e, n) ==
    /\ Used(Normal[e]) = {}
    /\ Inserts(Normal[e], n)
    /\ UNCHANGED <<edit, edits, respelled, overlapped>>

\* Mutation of ProvisionFromSso: $set, where the code has $setOnInsert.
ProvisionOver(e, n) ==
    /\ LET old == Used(Normal[e]) IN
         IF old = {} THEN Inserts(Normal[e], n)
         ELSE /\ accounts' = [i \in DOMAIN accounts |->
                     IF i \in old THEN [accounts[i] EXCEPT !.name = n]
                                  ELSE accounts[i]]
              /\ UNCHANGED meant
    /\ UNCHANGED <<edit, edits, respelled, overlapped>>

\* provisionFromSso: one upsert with $setOnInsert.
ProvisionFromSso(e, n) ==
    /\ Used(Normal[e]) = {}
    /\ Inserts(Normal[e], n)
    /\ UNCHANGED <<edit, edits, respelled, overlapped>>

\* UpdateUserService.execute: the document is read and the fields given are
\* put into it (the password is hashed, which takes a while) ...
ReadUser(c) ==
    /\ edit[c].id = 0 /\ edits < EditsBound
    /\ edits' = edits + 1
    /\ \E i \in DOMAIN accounts, e \in Spellings, n \in PersonNames,
          given \in SUBSET {"email", "name"} \ {{}} :
         edit' = [edit EXCEPT ![c] =
             [id |-> i, given |-> given,
              doc |-> [email |-> IF "email" \in given THEN e ELSE accounts[i].email,
                       name |-> IF "name" \in given THEN n ELSE accounts[i].name]]]
    /\ UNCHANGED <<accounts, respelled, meant, overlapped>>

\* ... and then written as a whole; or refused, the address being another's.
WriteUser(c) ==
    /\ edit[c].id # 0
    /\ LET i == edit[c].id   doc == edit[c].doc   given == edit[c].given IN
         IF Used(doc.email) \subseteq {i}
         THEN /\ accounts' = [accounts EXCEPT ![i] = doc]
              /\ meant' = [meant EXCEPT ![i] =
                     [email |-> IF "email" \in given THEN doc.email ELSE @.email,
                      name |-> IF "name" \in given THEN doc.name ELSE @.name]]
              /\ respelled' = IF doc.email # Normal[doc.email]
                              THEN respelled \cup {i} ELSE respelled \ {i}
              /\ overlapped' = IF \E d \in Edits \ {c} : edit[d].id = i
                               THEN overlapped \cup {i} ELSE overlapped
         ELSE UNCHANGED <<accounts, meant, respelled, overlapped>>
    /\ edit' = [edit EXCEPT ![c] = NoEdit]
    /\ UNCHANGED edits

AccountsNext ==
    \/ \E e \in Spellings, n \in PersonNames :
         SignUp(e, n) \/ ProvisionFromSso(e, n)
    \/ \E c \in Edits : ReadUser(c) \/ WriteUser(c)

AccountsSpec == AccountsInit /\ [][AccountsNext]_accountVars

-----------------------------------------------------------------------------
(* Properties.                                                             *)

\* A person has one account, however the address is spelled and whether it
\* came by sign-up or from the SSO: unless a profile update stored another
\* spelling, which no lookup finds.
OneAccountPerAddress ==
    \A i, j \in DOMAIN accounts :
        i # j /\ Normal[accounts[i].email] = Normal[accounts[j].email]
            => i \in respelled \/ j \in respelled

\* An account holds what its sign-up (or first SSO session) and the updates
\* since gave: later SSO sessions change nothing, and an update changes no
\* field it was not given, unless two updates of the account overlapped.
AccountsAsGiven ==
    \A i \in DOMAIN accounts \ overlapped : accounts[i] = meant[i]
=============================================================================
