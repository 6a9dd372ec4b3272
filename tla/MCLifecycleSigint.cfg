SPECIFICATION LifeSpec
PROPERTY SigintEndsProcess
