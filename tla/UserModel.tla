----------------------------- MODULE UserModel -----------------------------
(***************************************************************************)
(* The user record of the example application, with the getters and        *)
(* setters the library calls on it (example/basic/models/user.go).         *)
(*                                                                         *)
(* An account holds one authentication identity per configured method, in  *)
(* a map keyed by the method's key.  The map is a total function here: an  *)
(* absent entry is ZeroIdentity, what every Go getter answers for it.      *)
(* Profile fields (name, email, phone) are left out: no handler decides    *)
(* anything by them.                                                       *)
(***************************************************************************)
EXTENDS Naturals

CONSTANTS
    UserIds,        \* what Create draws an id from
    PasswordKeys,   \* keys of the methods of type authtype.Password
    OTPKeys,        \*                             authtype.OTP
    SocialKeys,     \*                             authtype.Social
    UIDs,           \* addresses and phone numbers a client may name
    Passwords,      \* passwords a client may choose
    Codes,          \* codes a CodeGenerator may return
    Empty,          \* the empty string
    Nil,            \* a nil pointer or a nil interface
    MaxAge          \* ages of a sent code beyond it are not told apart

Keys == PasswordKeys \cup OTPKeys \cup SocialKeys

\* The age of a code replaces the instant it was sent at: handlers only
\* compare that instant with the present.  MaxAge stands for every older age.
Ages == 0 .. MaxAge

Identity == [uid          : UIDs \cup {Empty},
             password     : Passwords \cup Codes \cup {Empty},
             confirmCode  : Codes \cup {Empty},
             recoveryCode : Codes \cup {Empty},
             confirmed    : BOOLEAN,
             sentAt       : Ages \cup {Nil}]

ZeroIdentity == [uid |-> Empty, password |-> Empty, confirmCode |-> Empty,
                 recoveryCode |-> Empty, confirmed |-> FALSE, sentAt |-> Nil]

User == [id    : UserIds,
         auths : [Keys -> Identity],
         guest : BOOLEAN,
         temp  : BOOLEAN]

Present(u, k) == u.auths[k] # ZeroIdentity

ASSUME KindsDisjoint == /\ PasswordKeys \cap OTPKeys = {}
                        /\ PasswordKeys \cap SocialKeys = {}
                        /\ OTPKeys \cap SocialKeys = {}
ASSUME EmptyIsNoValue == Empty \notin UIDs \cup Passwords \cup Codes
ASSUME NilIsNoValue   == Nil \notin UserIds \cup User \cup Ages
ASSUME MaxAgeIsNat    == MaxAge \in Nat

----------------------------------------------------------------------------
NewUser(id) == [id    |-> id,
                auths |-> [k \in Keys |-> ZeroIdentity],
                guest |-> FALSE,
                temp  |-> FALSE]

GetUID(u, k) == u.auths[k].uid

\* SetUID starts the identity afresh: password, codes and confirmation go.
SetUID(u, k, uid) ==
    [u EXCEPT !.auths[k] = [ZeroIdentity EXCEPT !.uid = uid]]

\* SetPassword, unlike the setters below, creates no entry.
SetPassword(u, k, pw) ==
    IF Present(u, k) THEN [u EXCEPT !.auths[k].password = pw] ELSE u

SetOTP(u, k, code)          == [u EXCEPT !.auths[k].password = code]
SetConfirmed(u, k, ok)      == [u EXCEPT !.auths[k].confirmed = ok]
SetConfirmCode(u, k, code)  == [u EXCEPT !.auths[k].confirmCode = code]
SetRecoveryCode(u, k, code) == [u EXCEPT !.auths[k].recoveryCode = code]
SetCodeSentTime(u, k, t)    == [u EXCEPT !.auths[k].sentAt = t]
SetGuest(u, guest)          == [u EXCEPT !.guest = guest]
SetTemp(u, temp)            == [u EXCEPT !.temp = temp]

Confirmed(u) == \E k \in Keys : u.auths[k].confirmed

\* A unit of time passes for every code the record remembers sending.
Aged(u) ==
    [u EXCEPT !.auths = [k \in Keys |->
        [u.auths[k] EXCEPT !.sentAt = IF @ \in 0 .. MaxAge - 1 THEN @ + 1 ELSE @]]]
=============================================================================
