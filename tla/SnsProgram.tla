----------------------------- MODULE SnsProgram -----------------------------
(***************************************************************************)
(* The on-chain program of the network (sns-program lib.rs): registration  *)
(* with a stake, settlement of receipt batches out of the owner's escrow,  *)
(* SOLNET rewards, priority staking and slashing.                          *)
(*                                                                         *)
(* One action is one instruction that commits.  A transaction is atomic:   *)
(* an instruction that fails a require!, an account constraint or a CPI    *)
(* leaves every account as it was, which is a stuttering step here.        *)
(* Transaction fees and the rent deposits of the program's own accounts    *)
(* are not counted in the balances.                                        *)
(***************************************************************************)
EXTENDS RewardSchedule

CONSTANTS Owners,          \* wallets that operate nodes
          Admin,           \* the hard-coded slashing authority
          BatchIds,        \* hashes that seed the BatchRecord PDAs
          Mints,           \* SPL mints in circulation
          SolnetMint,      \* the mint whose authority is the program's PDA
          Bumps,           \* values of the mint_authority_bump argument
          CanonicalBump,   \* the bump the "solnet-mint-authority" PDA has
          MinStake,        \* 100_000_000 lamports
          MinPriority,     \* 1000 * 10^9 token units
          RentMin,         \* rent-exempt minimum of an empty system account
          StartingLamports,
          MaxFunded,       \* bound: lamports an owner ever sees
          ForeignTokens,   \* tokens of every other mint an owner starts with
          StakeArgs,       \* arguments of register_node
          LamportArgs,     \* arguments of settle_compressed_batch, and payments
          CountArgs,       \* receipt counts of settle_compressed_batch
          TokenArgs        \* arguments of stake_for_priority

\* Mutant: a penalty that does not divide the initial reputation.
MutantPenalty == 30

InitialReputation == 100
SlashPenalty == 20
EjectBelow == 20

\* Marks a BatchRecord or the ProgramState that was not created yet.
None == [none |-> TRUE]

U64 == 0..Word

ASSUME ProgramAssumption ==
    /\ IsFiniteSet(Owners) /\ IsFiniteSet(BatchIds)
    /\ SolnetMint \in Mints
    /\ CanonicalBump \in Bumps
    /\ Admin \notin Owners
    /\ MinStake \in U64 \ {0}
    /\ MinPriority \in U64 \ {0}
    /\ RentMin \in U64
    /\ StartingLamports \in U64
    /\ MaxFunded \in U64
    /\ ForeignTokens \in U64
    /\ StakeArgs \subseteq U64
    /\ LamportArgs \subseteq U64
    /\ CountArgs \subseteq U64
    /\ TokenArgs \subseteq U64

VARIABLES node,       \* NodeAccount PDA of every owner
          wallet,     \* lamports of every owner
          escrow,     \* lamports of every owner's escrow PDA
          tokens,     \* token accounts: mint and owner
          vault,      \* stake vaults: mint and node
          batch,      \* BatchRecord PDA of every batch id, or None
          state,      \* ProgramState PDA, or None
          funded,     \* history: lamports an owner ever brought in or was sent
          pledged     \* history: stakes an owner put in, less what was returned

history == <<funded, pledged>>
vars == <<node, wallet, escrow, tokens, vault, batch, state, history>>

NodeAccount ==
    [stake_amount : U64, reputation : 0..255, requests_served : U64,
     is_initialized : BOOLEAN, locked : BOOLEAN]

BatchRecord == [node : Owners, total_lamports : U64, receipt_count : U64]

ProgramState == [mint_authority_bump : Bumps, global_request_count : U64]

TypeOK ==
    /\ node \in [Owners -> NodeAccount]
    /\ wallet \in [Owners -> Nat]
    /\ escrow \in [Owners -> Nat]
    /\ tokens \in [Mints -> [Owners -> Nat]]
    /\ vault \in [Mints -> [Owners -> Nat]]
    /\ batch \in [BatchIds -> BatchRecord \cup {None}]
    /\ state \in ProgramState \cup {None}
    /\ funded \in [Owners -> Nat]
    /\ pledged \in [Owners -> Int]

-----------------------------------------------------------------------------
\* A PDA that was never written reads as zeroes; every handler rejects it.
Unregistered ==
    [stake_amount |-> 0, reputation |-> 0, requests_served |-> 0,
     is_initialized |-> FALSE, locked |-> FALSE]

Init ==
    /\ node = [o \in Owners |-> Unregistered]
    /\ wallet = [o \in Owners |-> StartingLamports]
    /\ escrow = [o \in Owners |-> 0]
    /\ tokens = [m \in Mints |->
                    [o \in Owners |-> IF m = SolnetMint THEN 0 ELSE ForeignTokens]]
    /\ vault = [m \in Mints |-> [o \in Owners |-> 0]]
    /\ batch = [b \in BatchIds |-> None]
    /\ state = None
    /\ funded = [o \in Owners |-> StartingLamports]
    /\ pledged = [o \in Owners |-> 0]

\* The runtime's rule for an account a transaction leaves behind.
RentExempt(balance) == balance = 0 \/ balance >= RentMin

\* Mutant: unchecked additions.
MutantFits(n) == TRUE

\* checked_add(..).ok_or(SnsError::Overflow)
Fits(n) == n <= Word

\* register_node.  The account is init_if_needed, so an ejected node comes
\* back through the same path; an over-long endpoint is rejected.
RegisterNode(o, stake) ==
    /\ stake >= MinStake
    /\ ~node[o].is_initialized
    /\ stake <= wallet[o]
    /\ RentExempt(escrow[o] + stake)
    /\ node' = [node EXCEPT ![o].stake_amount = stake,
                            ![o].reputation = InitialReputation,
                            ![o].requests_served = 0,
                            ![o].is_initialized = TRUE,
                            ![o].locked = FALSE]
    /\ wallet' = [wallet EXCEPT ![o] = @ - stake]
    /\ escrow' = [escrow EXCEPT ![o] = @ + stake]
    /\ pledged' = [pledged EXCEPT ![o] = @ + stake]
    /\ UNCHANGED <<tokens, vault, batch, state, funded>>

\* The accounts of initialize_protocol: the ProgramState is an init account.
InitializeAccounts == state = None

\* initialize_protocol: whoever comes first creates the ProgramState.
InitializeProtocol(bump) ==
    /\ InitializeAccounts
    /\ state' = [mint_authority_bump |-> bump, global_request_count |-> 0]
    /\ UNCHANGED <<node, wallet, escrow, tokens, vault, batch, history>>

\* The reward of a batch, from the count the ProgramState account holds.
BatchReward(count) == LoopReward(state.global_request_count, count)

\* Tokens of a mint in existence; the token program keeps it a u64.
Supply(m) == SumFunction([o \in Owners |-> tokens[m][o] + vault[m][o]])

\* Mutant: a BatchRecord that is init_if_needed.
MutantBatchUnused(b) == TRUE

\* The BatchRecord is an init account: its seeds must be unused.
BatchUnused(b) == batch[b] = None

\* "Verify node is active"
IsActive(o) == node[o].reputation > 0

\* The accounts of settle_compressed_batch: node, escrow and token account are
\* the signer's own (the index o), the ProgramState exists, the record does not.
SettleAccounts(b) == state # None /\ BatchUnused(b)

\* What the transaction leaves in ProgramState.  program_state is not a mut
\* account of SettleCompressedBatch, so the count the handler writes to its
\* copy is not stored.
StateAfterSettle(count) == state

\* settle_compressed_batch, signed by the owner.
SettleCompressedBatch(o, b, total, count) ==
    /\ SettleAccounts(b)
    /\ IsActive(o)
    /\ total <= escrow[o]
    /\ RentExempt(escrow[o] - total)
    /\ RewardFits(state.global_request_count, count)
    /\ state.mint_authority_bump = CanonicalBump
    /\ Supply(SolnetMint) + BatchReward(count) <= Word
    /\ Fits(node[o].requests_served + count)
    /\ node' = [node EXCEPT ![o].requests_served = @ + count]
    /\ wallet' = [wallet EXCEPT ![o] = @ + total]
    /\ escrow' = [escrow EXCEPT ![o] = @ - total]
    /\ tokens' = [tokens EXCEPT ![SolnetMint][o] = @ + BatchReward(count)]
    /\ batch' = [batch EXCEPT ![b] = [node |-> o, total_lamports |-> total,
                                      receipt_count |-> count]]
    /\ state' = StateAfterSettle(count)
    /\ UNCHANGED <<vault, history>>

\* stake_for_priority: any mint is accepted, as long as the vault has it too.
StakeForPriority(o, m, amount) ==
    /\ amount >= MinPriority
    /\ node[o].is_initialized
    /\ amount <= tokens[m][o]
    /\ Fits(node[o].stake_amount + amount)
    /\ node' = [node EXCEPT ![o].stake_amount = @ + amount]
    /\ tokens' = [tokens EXCEPT ![m][o] = @ - amount]
    /\ vault' = [vault EXCEPT ![m][o] = @ + amount]
    /\ UNCHANGED <<wallet, escrow, batch, state, history>>

\* saturating_sub on the u8 reputation.
SlashedReputation(r) == IF r >= SlashPenalty THEN r - SlashPenalty ELSE 0

MaySlash(authority, o) == authority = Admin \/ authority = o

\* slash_node above the ejection threshold.
SlashNode(authority, o) ==
    LET rep == SlashedReputation(node[o].reputation)
    IN  /\ MaySlash(authority, o)
        /\ node[o].is_initialized
        /\ ~node[o].locked
        /\ rep >= EjectBelow
        /\ node' = [node EXCEPT ![o].reputation = rep, ![o].locked = FALSE]
        /\ UNCHANGED <<wallet, escrow, tokens, vault, batch, state, history>>

\* Mutant: the whole stake goes back.
MutantReturnAmount(o) == node[o].stake_amount

\* What an ejected owner is sent back.
ReturnAmount(o) == node[o].stake_amount \div 2

\* slash_node below the threshold: half of the stake goes back and the node is
\* no longer initialized; a transfer the escrow cannot pay fails the slash.
SlashAndEject(authority, o) ==
    LET rep == SlashedReputation(node[o].reputation)
        amount == ReturnAmount(o)
    IN  /\ MaySlash(authority, o)
        /\ node[o].is_initialized
        /\ ~node[o].locked
        /\ rep < EjectBelow
        /\ amount <= escrow[o]
        /\ RentExempt(escrow[o] - amount)
        /\ node' = [node EXCEPT ![o].reputation = rep,
                                ![o].is_initialized = FALSE,
                                ![o].stake_amount = 0,
                                ![o].locked = FALSE]
        /\ wallet' = [wallet EXCEPT ![o] = @ + amount]
        /\ escrow' = [escrow EXCEPT ![o] = @ - amount]
        /\ pledged' = [pledged EXCEPT ![o] = @ - amount]
        /\ UNCHANGED <<tokens, vault, batch, state, funded>>

\* Clients pay for service by sending lamports to the escrow address.
FundEscrow(o, amount) ==
    /\ RentExempt(escrow[o] + amount)
    /\ funded[o] + amount <= MaxFunded
    /\ escrow' = [escrow EXCEPT ![o] = @ + amount]
    /\ funded' = [funded EXCEPT ![o] = @ + amount]
    /\ UNCHANGED <<node, wallet, tokens, vault, batch, state, pledged>>

Next ==
    \/ \E bump \in Bumps : InitializeProtocol(bump)
    \/ \E o \in Owners :
        \/ \E stake \in StakeArgs : RegisterNode(o, stake)
        \/ \E b \in BatchIds, total \in LamportArgs, count \in CountArgs :
                SettleCompressedBatch(o, b, total, count)
        \/ \E m \in Mints, amount \in TokenArgs : StakeForPriority(o, m, amount)
        \/ \E authority \in Owners \cup {Admin} :
                SlashNode(authority, o) \/ SlashAndEject(authority, o)
        \/ \E amount \in LamportArgs : FundEscrow(o, amount)

Spec == Init /\ [][Next]_vars

-----------------------------------------------------------------------------
\* The batches that were settled, and the receipts in a set of them.
SettledBatches == {b \in BatchIds : batch[b] # None}
ReceiptsIn(bs) == SumFunction([b \in bs |-> batch[b].receipt_count])

\* The batches of an owner, and the lamports they were settled for.
BatchesOf(o) == {b \in SettledBatches : batch[b].node = o}
PaidBy(o) == SumFunction([b \in BatchesOf(o) |-> batch[b].total_lamports])

\* Settlement asks only for a positive reputation ("Verify node is active"),
\* the other instructions for is_initialized.  The two agree in every state,
\* so an ejected node is shut out of settlement as well.
ActiveIffReputable ==
    \A o \in Owners : node[o].is_initialized <=> node[o].reputation > 0

\* Lamports leave an escrow only while its node is registered, and then either
\* as the amount of a batch that was not settled before, or as the returned
\* half of the stake in the step that ejects the node.
EscrowOutflow ==
    [][\A o \in Owners : escrow'[o] < escrow[o] =>
        /\ node[o].is_initialized
        /\ \/ \E b \in BatchIds :
                /\ batch[b] = None
                /\ batch'[b] # None
                /\ batch'[b].node = o
                /\ batch'[b].total_lamports = escrow[o] - escrow'[o]
           \/ /\ ~node'[o].is_initialized
              /\ 2 * (escrow[o] - escrow'[o]) <= node[o].stake_amount]_vars

\* The escrow holds stakes and payments together, through ejections and
\* registrations over a balance.  The BatchRecords account for it at any time:
\* what owners pledged and clients paid is still there, or a record of the owner
\* says which batch it was settled for.
EscrowAccounted ==
    \A o \in Owners :
        escrow[o] + PaidBy(o) = pledged[o] + (funded[o] - StartingLamports)

\* slash_node fails, and the node stays registered, when the escrow cannot pay
\* the half of the stake that goes back.  It takes a settlement of the node,
\* which may draw on the stake, or tokens staked for priority, which
\* stake_amount adds to the lamports.
StakeCovered ==
    \A o \in Owners :
        node[o].is_initialized /\ escrow[o] < ReturnAmount(o) =>
            BatchesOf(o) # {} \/ \E m \in Mints : vault[m][o] > 0

\* SOLNET is only ever minted for recorded receipts, at most InitialReward each.
SupplyIsBacked ==
    Supply(SolnetMint) <= InitialReward * ReceiptsIn(SettledBatches)

\* "Bitcoin-style halving every 100M requests": the tokens in existence are
\* what the schedule pays for the number of receipts settled so far.
RewardsFollowSchedule ==
    Supply(SolnetMint) = ScheduledReward(0, ReceiptsIn(SettledBatches))
=============================================================================
