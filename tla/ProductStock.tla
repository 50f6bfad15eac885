---------------------------- MODULE ProductStock ----------------------------
(***************************************************************************)
(* The stock of one product (src/internal/service/mall/product/sku.go,       *)
(* spu.go): its SKUs, and the product's own row with their sum.             *)
(*                                                                         *)
(* Orders take and give back units (UpdateSkuStock, as a statement of the   *)
(* order's transaction; Checkout composes it with the rest of an order),     *)
(* an editor saves the product with all its SKUs, or deletes it, and the    *)
(* rename of a property writes back every row it has read, outside of any   *)
(* transaction.  What a transaction has written and not committed is in      *)
(* desk[d].write, and locks those rows.                                     *)
(***************************************************************************)
EXTENDS Integers, Sequences, FiniteSets, Functions

CONSTANTS Skus,        \* rows that product_sku may come to hold
          FirstSkus,   \* those it holds at first
          Orders,      \* orders that take and give back stock
          Editors,     \* requests that save or delete the product
          Renamers,    \* requests that rename a property
          MaxStock,    \* what an editor may enter
          MaxEdits,    \* bound on the saves
          MaxRenames,  \* bound on the renames
          MaxMoves     \* bound on the movements of stock

ASSUME StockAssumption ==
    /\ IsFiniteSet(Skus) /\ FirstSkus \subseteq Skus
    /\ Orders \cap Editors = {} /\ Orders \cap Renamers = {} /\ Editors \cap Renamers = {}
    /\ MaxStock \in Nat /\ MaxEdits \in Nat /\ MaxRenames \in Nat /\ MaxMoves \in Nat

VARIABLES skuRow,   \* the rows of product_sku, committed
          spuRow,   \* the row of product_spu, committed
          moved,    \* history: net units orders have taken of each SKU
          desk,     \* what each request under way holds between two statements
          used      \* edits, renames and movements so far

stockVars == <<skuRow, spuRow, moved, desk, used>>

Requests == Orders \cup Editors \cup Renamers
Live == {s \in Skus : skuRow[s].state = "live"}
SumOver(S, f) == SumFunction([s \in S |-> f[s]])

NoneSku == [state |-> "none", stock |-> 0, sales |-> 0]
NewDesk == [rows |-> << >>, by |-> 0, form |-> << >>, todo |-> {}, write |-> << >>,
            held |-> {}, pc |-> "new"]

Sits(d, l) == desk' = [e \in DOMAIN desk \cup {d} |-> IF e = d THEN l ELSE desk[e]]
Leaves(d) == desk' = Restrict(desk, DOMAIN desk \ {d})
Idle(d) == d \notin DOMAIN desk
Ready(d, pc) == d \in DOMAIN desk /\ desk[d].pc = pc
Count(what) == used' = [used EXCEPT ![what] = @ + 1]

\* Row locks: a row belongs to the transaction that has written it.
SkuFree(d, s) == \A e \in DOMAIN desk \ {d} : s \notin DOMAIN desk[e].write
SpuFree(d) == \A e \in DOMAIN desk \ {d} : "spu" \notin desk[e].held

\* What transaction d sees of a SKU.
SeenBy(d, s) == IF s \in DOMAIN desk[d].write THEN desk[d].write[s] ELSE skuRow[s]
Writing(d, s, row) == [t \in DOMAIN desk[d].write \cup {s} |->
                         IF t = s THEN row ELSE desk[d].write[t]]
Commits(d) == skuRow' = [s \in Skus |-> SeenBy(d, s)]

StockInit ==
    /\ skuRow = [s \in Skus |-> IF s \in FirstSkus THEN [state |-> "live", stock |-> 1, sales |-> 0]
                                ELSE NoneSku]
    /\ spuRow = [status |-> "shelf", stock |-> Cardinality(FirstSkus)]
    /\ moved = [s \in Skus |-> 0]
    /\ desk = << >>
    /\ used = [edits |-> 0, renames |-> 0, moves |-> 0]

-----------------------------------------------------------------------------
(* UpdateSkuStock: one statement per row, then the product's own.           *)

\* Taking one unit of each row of the order, or giving them back.
StartMove(d, rows, by) ==
    /\ Idle(d) /\ used.moves < MaxMoves
    /\ \A i \in DOMAIN rows : skuRow[rows[i]].state # "none"
    /\ by = 1 => \A i \in DOMAIN rows : moved[rows[i]] > 0
    /\ Count("moves")
    /\ Sits(d, [NewDesk EXCEPT !.pc = "move", !.rows = rows, !.by = by])
    /\ UNCHANGED <<skuRow, spuRow, moved>>

Enough(row, by) == row.stock + by >= 0

MoveSku(d) ==
    LET l == desk[d]
        s == Head(l.rows)
        row == SeenBy(d, s) IN
    /\ Ready(d, "move") /\ l.rows # << >>
    /\ SkuFree(d, s)
    /\ IF row.state = "live" /\ Enough(row, l.by)
       THEN Sits(d, [l EXCEPT !.rows = Tail(l.rows), !.form = Append(@, s),
                              !.write = Writing(d, s, [row EXCEPT !.stock = @ + l.by,
                                                                  !.sales = @ - l.by])])
       ELSE Leaves(d)
    /\ UNCHANGED <<skuRow, spuRow, moved, used>>

\* UpdateSpuStock, with the sum over the rows of the request.
MoveSpu(d) ==
    /\ Ready(d, "move") /\ desk[d].rows = << >>
    /\ SpuFree(d)
    /\ IF spuRow.status = "deleted" THEN Leaves(d)
       ELSE Sits(d, [desk[d] EXCEPT !.pc = "moved", !.held = {"spu"}])
    /\ UNCHANGED <<skuRow, spuRow, moved, used>>

\* Mutant: the product's stock follows the first row only.
FirstMoved(l) == l.by
AllMoved(l) == l.by * Len(l.form)

CommitMove(d) ==
    LET l == desk[d] IN
    /\ Ready(d, "moved")
    /\ Commits(d)
    /\ spuRow' = [spuRow EXCEPT !.stock = @ + AllMoved(l)]
    /\ moved' = [s \in Skus |-> moved[s] - l.by * Cardinality({i \in DOMAIN l.form : l.form[i] = s})]
    /\ Leaves(d)
    /\ UNCHANGED used

-----------------------------------------------------------------------------
(* UpdateSpu: the form holds SKUs known to the editor, and new ones.        *)

StartEdit(d, form) ==
    /\ Idle(d) /\ used.edits < MaxEdits
    /\ DOMAIN form # {} /\ \A s \in DOMAIN form : skuRow[s].state # "gone"
    /\ Count("edits")
    /\ Sits(d, [NewDesk EXCEPT !.pc = "edit", !.form = form])
    /\ UNCHANGED <<skuRow, spuRow, moved>>

\* The product's row, by id; then the rows there are.
EditSpu(d) ==
    /\ Ready(d, "edit")
    /\ SpuFree(d)
    /\ IF spuRow.status = "deleted" THEN Leaves(d)
       ELSE Sits(d, [desk[d] EXCEPT !.pc = "skus", !.held = {"spu"}, !.todo = DOMAIN desk[d].form])
    /\ UNCHANGED <<skuRow, spuRow, moved, used>>

\* Mutant: the sales are among the fields written.
SalesReset(row, stock) == [state |-> "live", stock |-> stock, sales |-> 0]
Saved(row, stock) == [row EXCEPT !.state = "live", !.stock = stock]

\* A row that another editor has removed meanwhile ends the request.
EditSku(d, s) ==
    LET l == desk[d] IN
    /\ Ready(d, "skus") /\ s \in l.todo
    /\ SkuFree(d, s)
    /\ IF skuRow[s].state = "gone" THEN Leaves(d)
       ELSE Sits(d, [l EXCEPT !.todo = @ \ {s}, !.write = Writing(d, s, Saved(skuRow[s], l.form[s]))])
    /\ UNCHANGED <<skuRow, spuRow, moved, used>>

\* One statement removes the rows the form does not have, and the transaction ends.
CommitEdit(d) ==
    LET l == desk[d]
        Removed == Live \ DOMAIN l.form IN
    /\ Ready(d, "skus") /\ l.todo = {}
    /\ \A s \in Removed : SkuFree(d, s)
    /\ skuRow' = [s \in Skus |-> IF s \in Removed THEN [skuRow[s] EXCEPT !.state = "gone"]
                                 ELSE SeenBy(d, s)]
    /\ spuRow' = [spuRow EXCEPT !.stock = SumFunction(l.form)]
    /\ Leaves(d)
    /\ UNCHANGED <<moved, used>>

UpdateSpuStatus(d) ==
    /\ Idle(d) /\ SpuFree(d)
    /\ spuRow.status # "deleted"
    /\ \E status \in {"shelf", "recycled"} \ {spuRow.status} :
          spuRow' = [spuRow EXCEPT !.status = status]
    /\ UNCHANGED <<skuRow, moved, desk, used>>

\* The product's row, on condition that it is still in the bin; then its SKUs.
DeleteSpu(d) ==
    /\ Idle(d)
    /\ SpuFree(d) /\ spuRow.status = "recycled"
    /\ Sits(d, [NewDesk EXCEPT !.pc = "delete", !.held = {"spu"}])
    /\ UNCHANGED <<skuRow, spuRow, moved, used>>

DeleteSkuBySpuId(d) ==
    /\ Ready(d, "delete")
    /\ \A s \in Live : SkuFree(d, s)
    /\ skuRow' = [s \in Skus |-> IF s \in Live THEN [skuRow[s] EXCEPT !.state = "gone"] ELSE skuRow[s]]
    /\ spuRow' = [spuRow EXCEPT !.status = "deleted"]
    /\ Leaves(d)
    /\ UNCHANGED <<moved, used>>

-----------------------------------------------------------------------------
(* UpdateSkuProperty and UpdateSkuPropertyValue.                            *)

StartRename(d) ==
    /\ Idle(d) /\ used.renames < MaxRenames
    /\ Live # {}
    /\ Count("renames")
    /\ Sits(d, [NewDesk EXCEPT !.pc = "rename", !.todo = Live,
                              !.form = [s \in Live |-> skuRow[s]]])
    /\ UNCHANGED <<skuRow, spuRow, moved>>

\* A struct's zero fields are left out of the update.
UnlessZero(old, read) == IF read = 0 THEN old ELSE read

WriteRow(d, s) ==
    LET l == desk[d] IN
    /\ Ready(d, "rename") /\ s \in l.todo
    /\ SkuFree(d, s)
    /\ skuRow' = IF skuRow[s].state = "live"
                 THEN [skuRow EXCEPT ![s].stock = UnlessZero(@, l.form[s].stock),
                                     ![s].sales = UnlessZero(@, l.form[s].sales)]
                 ELSE skuRow
    /\ IF l.todo = {s} THEN Leaves(d) ELSE Sits(d, [l EXCEPT !.todo = @ \ {s}])
    /\ UNCHANGED <<spuRow, moved, used>>

-----------------------------------------------------------------------------
\* An error, a crash, or the victim of a deadlock: orders lock SKUs first, editors the product.
RollBack(d) ==
    /\ d \in DOMAIN desk
    /\ Leaves(d)
    /\ UNCHANGED <<skuRow, spuRow, moved, used>>

StockNext ==
    \/ \E d \in Orders :
          \/ \E s, t \in Skus, by \in {-1, 1} : StartMove(d, <<s>>, by) \/ StartMove(d, <<s, t>>, by)
          \/ MoveSku(d) \/ MoveSpu(d) \/ CommitMove(d)
    \/ \E d \in Editors :
          \/ \E S \in SUBSET Skus : \E form \in [S -> 0..MaxStock] : StartEdit(d, form)
          \/ EditSpu(d) \/ CommitEdit(d) \/ UpdateSpuStatus(d) \/ DeleteSpu(d) \/ DeleteSkuBySpuId(d)
          \/ \E s \in Skus : EditSku(d, s)
    \/ \E d \in Renamers : StartRename(d) \/ \E s \in Skus : WriteRow(d, s)
    \/ \E d \in Requests : RollBack(d)

StockSpec == StockInit /\ [][StockNext]_stockVars

-----------------------------------------------------------------------------
StockTypeOK ==
    /\ skuRow \in [Skus -> [state : {"none", "live", "gone"}, stock : Nat, sales : Int]]
    /\ spuRow \in [status : {"shelf", "recycled", "deleted"}, stock : Int]
    /\ moved \in [Skus -> Int]
    /\ \A d \in DOMAIN desk : desk[d].pc \in {"move", "moved", "edit", "skus", "delete", "rename"}

(* The product's stock is that of its SKUs, and the sales of each are the    *)
(* units that orders have taken of it.                                      *)
StocksAgree ==
    spuRow.status # "deleted" =>
       /\ spuRow.stock = SumOver(Live, [s \in Skus |-> skuRow[s].stock])
       /\ \A s \in Live : skuRow[s].sales = moved[s]

(* Orders and editors keep them in agreement, whatever the order of their    *)
(* statements and wherever one is cut off; only the rename of a property     *)
(* breaks it, by writing back a row that has changed since it was read       *)
(* (sku.go:327).                                                            *)
OnlyRenamesDisagree ==
    [][StocksAgree /\ ~StocksAgree'
         => \E d \in Renamers \cap DOMAIN desk : \E s \in desk[d].todo :
                /\ skuRow'[s] # skuRow[s] /\ skuRow[s] # desk[d].form[s]
                /\ d \in DOMAIN desk' => s \notin desk'[d].todo]_stockVars

(* Together: stock is never negative, and where it is wrong a rename is to    *)
(* blame.                                                                   *)
StockExplained == []StockTypeOK /\ OnlyRenamesDisagree
=============================================================================
