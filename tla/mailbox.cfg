SPECIFICATION Spec
CONSTANTS
    fixed <- MCfixed
    sponge <- MCsponge
    fixed_var <- MCfixed
    sponge_var <- MCsponge
    plus <- MCplus
    minus <- MCminus
    tag_of <- MCtag_of
    index <- MCfield
    mul <- MCmul
    coords <- MCcoords
    ValidPoints <- MCValidPoints
    generator = 1
    field <- MCfield
    commit <- MCcommit
    STREAM_LEN = 2
    dummy_sk <- MCdummy_sk
    is_element <- MCis_element
    is_scalar <- MCis_scalar
    served_setup = 1
    Accounts <- MCAccounts
    Secret <- MCSecret
    Payloads <- MCPayloads
    MaxVersion <- MCMaxVersion
    MaxMail = 2
    OddEnvelopes <- MCOddEnvelopes
    OddInputs <- MCOddInputs
    OddOpenings <- MCOddOpenings
    fq_to_fr <- MCfq_to_fr
    MaxAltered = 2
    Blindings = {0, 1}
INVARIANTS
    OpensToSealed
    KeystreamNotReused
    ProofMeansOpens
    VerifiedMeansTrue
