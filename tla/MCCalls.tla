------------------------------ MODULE MCCalls ------------------------------
(* Accounts and calls for Calls: alice owns the program shop, bob lets alice and *)
(* shop spend his shop tokens and owns the program club, which links shop; carol  *)
(* and the program kit have no account yet.                                       *)
EXTENDS CallsLedger, TLC

CONSTANTS alice, bob, carol, shop, club, kit, eth, n1, n2

AllAddresses == {alice, bob, carol, shop, club, kit, eth}

Coins(n) == [NewToken(None) EXCEPT !.balance = n]
Only(entries, keys) == entries @@ Empty(keys)
SmallGenesis ==
    alice :> [FreshUser(alice) EXCEPT !.programs =
                Only(eth :> Coins(2) @@ shop :> [Coins(2) EXCEPT !.ids = n1 :> 1 @@ n2 :> 0], Addresses)]
    @@ bob :> [FreshUser(bob) EXCEPT !.programs = Only(shop :>
                 [Coins(2) EXCEPT !.allowance = Put(@, alice, 2), !.approvals = Put(@, shop, {})], Addresses)]
    @@ shop :> [FreshProgram(shop, alice, Only("k" :> 1, Keys)) EXCEPT !.programs =
                  Only(shop :> Coins(2) @@ eth :> Coins(1), Addresses)]
    @@ club :> [FreshProgram(club, bob, Empty(Keys)) EXCEPT !.linked = {shop}]
    @@ Empty({carol, kit, eth})

Transfer(token, from, to, amount, ids) ==
    [is |-> "Transfer", token |-> token, from |-> from, to |-> to, amount |-> amount, ids |-> ids]
Burn(token, from, amount, ids) ==
    [is |-> "Burn", token |-> token, program |-> This, from |-> from, amount |-> amount, ids |-> ids]
Create(namespace, owner, distributions) ==
    [is |-> "Create", namespace |-> namespace, program |-> This, owner |-> owner,
     distributions |-> distributions]
Distribution(program, to, amount, ids, fields) ==
    [is |-> "Distribution", program |-> program, to |-> to, amount |-> amount, ids |-> ids,
     fields |-> fields]
Update(updates) == [is |-> "Update", updates |-> updates]
TokenUpdate(account, token, fields) ==
    [is |-> "Token", account |-> account, token |-> token, fields |-> fields]
ProgramUpdate(account, fields) ==
    [is |-> "ProgramUpdate", account |-> account, fields |-> fields]
Field(field, op, key, value) == [field |-> field, op |-> op, key |-> key, value |-> value]

Call(from, to, instructions) ==
    [type |-> "Call", from |-> from, to |-> to, nonce |-> 1, signed |-> TRUE,
     instructions |-> instructions]
Registration(from, to, wellFormed) ==
    [type |-> "RegisterProgram", from |-> from, to |-> to, instructions |-> <<>>,
     metadata |-> Only("content" :> 1, Keys), wellFormed |-> wellFormed]

MixedCalls == <<
    \* the caller pays an address without account, the program pays the caller
    Call(alice, shop, <<Transfer(eth, alice, carol, 1, {}), Transfer(shop, This, alice, 1, {})>>),
    \* within and beyond what bob lets alice spend
    Call(alice, shop, <<Transfer(shop, bob, alice, 1, {}), [is |-> "Log"]>>),
    Call(alice, club, <<Transfer(shop, bob, carol, 2, {})>>),
    \* what alice lets nobody spend
    Call(bob, club, <<Transfer(shop, alice, bob, 1, {})>>),
    \* from an account to itself
    Call(alice, shop, <<Transfer(shop, alice, alice, 1, {})>>),
    \* each transfer can be paid, both cannot
    Call(bob, club, <<Transfer(shop, bob, alice, 2, {}), Transfer(shop, bob, carol, 1, {})>>),
    \* an id changes hands and a balance is burnt
    Call(alice, shop, <<Transfer(shop, alice, bob, None, {n1}), Burn(shop, alice, 1, {})>>),
    \* the owner mints, to an address without account and to the program
    Call(alice, shop, <<Create(Namespace, alice, <<
        Distribution(This, carol, 1, {n2}, <<Field("Data", "Insert", "k", 2)>>),
        Distribution(This, This, 1, {}, <<Field("Status", "Lock", "k", 0)>>)>>)>>),
    \* an allowance taken below zero, and a balance beyond the largest amount
    Call(bob, club, <<Update(<<TokenUpdate(bob, shop, <<Field("Allowance", "Remove", alice, 3)>>)>>)>>),
    Call(alice, shop, <<Create(This, alice, <<Distribution(This, alice, 2, {}, <<>>)>>)>>),
    \* the owner changes who may spend; somebody else tries to
    Call(bob, shop, <<Update(<<
        TokenUpdate(bob, This, <<Field("Allowance", "Remove", alice, 2),
                                 Field("Approvals", "Insert", carol, {n1})>>),
        TokenUpdate(bob, This, <<Field("Approvals", "Revoke", shop, {}),
                                 Field("Allowance", "Insert", carol, 1)>>)>>)>>),
    Call(bob, club, <<Update(<<
        TokenUpdate(bob, shop, <<Field("Allowance", "Revoke", alice, 0),
                                 Field("Approvals", "Extend", carol, {n1})>>),
        TokenUpdate(bob, shop, <<Field("Approvals", "Remove", carol, {n1}),
                                 Field("Status", "Reverse", "k", 0),
                                 Field("Metadata", "Remove", "k", 0)>>)>>)>>),
    Call(alice, shop, <<Update(<<
        TokenUpdate(bob, This, <<Field("Allowance", "Extend", alice, 3)>>)>>)>>),
    \* a stranger's update, refused unless the account was read late
    Call(bob, club, <<Update(<<TokenUpdate(alice, shop, <<Field("Status", "Lock", "k", 0)>>)>>)>>),
    \* a linked program updates club; a stranger cannot update shop
    Call(bob, shop, <<Update(<<ProgramUpdate(club, <<Field("Data", "Insert", "k", 1),
                                                      Field("LinkedPrograms", "Remove", shop, 0)>>)>>)>>),
    Call(bob, club, <<Update(<<ProgramUpdate(shop, <<Field("Metadata", "Remove", "k", 0)>>)>>)>>),
    \* the signature of a call does not verify
    [Call(alice, shop, <<Burn(shop, alice, 1, {})>>) EXCEPT !.signed = FALSE],
    \* the program called has no account
    Call(alice, kit, <<Transfer(eth, alice, bob, 1, {})>>),
    Registration(bob, kit, TRUE), Registration(alice, kit, FALSE)>>
=============================================================================
