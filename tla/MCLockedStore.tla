--------------------------- MODULE MCLockedStore ---------------------------
(* Two users who want the same address, and everything done to them.       *)
EXTENDS LockedStore

\* Accounts with an identity in any of the sets of methods.
MCRecords == {[NewUser(id) EXCEPT !.auths = [k \in Keys |->
                 IF k \in ks THEN [ZeroIdentity EXCEPT !.uid = uid] ELSE ZeroIdentity]] :
                    id \in UserIds, ks \in SUBSET Keys \ {{}}, uid \in UIDs}

MCCalls == [op : {"Save"}, user : MCRecords]
           \cup [op : {"LoadByUID", "RemoveByUID"}, key : Keys, uid : UIDs]
           \cup [op : {"LoadByID", "RemoveByID"}, id : UserIds]
=============================================================================
