\* Every 2-bit amount and fee, inputs and outputs up to two, versions 2.0
\* and 2.1, on a peer whose modules may accept or reject each item.  Every
\* peer runs the same steps on the same transaction, so one is enough.
CONSTANTS
    Peers = {p1}
    Width = 2
    Amounts <- MCAmounts
    Fees <- MCFees
    Outcomes = {TRUE, FALSE}
    MaxInputs = 2
    MaxOutputs = 2
    Versions <- MCVersions
SPECIFICATION Spec
INVARIANT TypeOK
INVARIANT NoInflation
INVARIANT FundingMatchesReference
